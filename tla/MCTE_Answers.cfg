SPECIFICATION Spec

CONSTANTS
    Ids <- MCIds
    Regs <- MCRegs
    Values <- MCValues
    InitValue = 0
    DefaultFrame <- MCDefault
    Requests <- MCMixed
    Unsolicited <- MCDrop
    MaxRetries = 0
    MaxQueue = 2
    WaitWriteEcho = FALSE
    ConnectAnyTime = FALSE
    MaxCalls = 3
    MaxSessions = 1
    MaxLosses = 1
    MaxEvents = 1
    MaxFaults = 1

INVARIANTS
    TypeOK
    AnswerMatchesRequest
    NoEventLost
    OwnAnswer
    ReadsLastWrite
    ArrivalOrder
    AnswerIsNoEvent
