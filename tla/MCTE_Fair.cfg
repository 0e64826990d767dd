SPECIFICATION FairSpec

CONSTANTS
    Ids <- MCIds
    Regs <- MCRegs
    Values <- MCValues
    InitValue = 0
    DefaultFrame <- MCDefault
    Requests <- MCWriteRead
    Unsolicited <- MCDrop
    MaxRetries = 1
    MaxQueue = 1
    WaitWriteEcho = TRUE
    ConnectAnyTime = FALSE
    MaxCalls = 2
    MaxSessions = 2
    MaxLosses = 1
    MaxEvents = 0
    MaxFaults = 1

INVARIANTS
    SessionsSeparate
PROPERTIES
    EveryCallReturns
    ArrivalsHandled
    ImplementsPort
