SPECIFICATION Spec
CONSTANTS
  Inputs = {}
  Readable = {}
  OtherIds = {}
  Places <- MCPlaces
  MaxCalls = 1
  MaxFaults = 0
  MaxCycles = 0
INVARIANT InitializeCommands
CHECK_DEADLOCK FALSE
