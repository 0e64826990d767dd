SPECIFICATION FairSpec
CONSTANTS
  Inputs <- MCInputs
  Readable <- MCReadable
  OtherIds <- MCOtherIds
  Places <- MCPlaces
  MaxCalls = 3
  MaxFaults = 1
  MaxCycles = 1
INVARIANTS
  TypeOK
  RegistersLegal
  SnapshotTrue
PROPERTIES
  InitializeHonest
  WaitMeansDone
  CallsEnd
CHECK_DEADLOCK FALSE
