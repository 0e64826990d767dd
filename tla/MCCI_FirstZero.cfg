SPECIFICATION Spec
CONSTANTS
  Inputs <- MCInputs
  Readable <- MCReadable
  OtherIds <- MCOtherIds
  Places <- MCPlaces
  MaxCalls = 2
  MaxFaults = 0
  MaxCycles = 0
PROPERTY WaitReachesTarget
CHECK_DEADLOCK FALSE
