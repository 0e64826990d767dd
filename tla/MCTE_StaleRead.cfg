SPECIFICATION Spec

CONSTANTS
    Ids <- MCIds
    Regs <- MCRegs
    Values <- MCValues
    InitValue = 0
    DefaultFrame <- MCDefault
    Requests <- MCAll
    Unsolicited <- MCDrop
    MaxRetries = 0
    MaxQueue = 1
    WaitWriteEcho = TRUE
    ConnectAnyTime = FALSE
    MaxCalls = 4
    MaxSessions = 1
    MaxLosses = 0
    MaxEvents = 0
    MaxFaults = 0

INVARIANTS
    ReadsLatestState
