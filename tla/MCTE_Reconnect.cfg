SPECIFICATION Spec

CONSTANTS
    Ids <- MCIds
    Regs <- MCRegs
    Values <- MCValues
    InitValue = 0
    DefaultFrame <- MCDefault
    Requests <- MCWriteRead
    Unsolicited <- MCDrop
    MaxRetries = 1
    MaxQueue = 1
    WaitWriteEcho = TRUE
    ConnectAnyTime = TRUE
    MaxCalls = 2
    MaxSessions = 2
    MaxLosses = 1
    MaxEvents = 1
    MaxFaults = 0

INVARIANTS
    NeverTerminates
