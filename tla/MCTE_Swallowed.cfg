SPECIFICATION Spec

CONSTANTS
    Ids <- MCIds
    Regs <- MCRegs
    Values <- MCValues
    InitValue = 0
    DefaultFrame <- MCDefault
    Requests <- MCWriteRead
    Unsolicited <- MCFeedback
    MaxRetries = 1
    MaxQueue = 1
    WaitWriteEcho = TRUE
    ConnectAnyTime = FALSE
    MaxCalls = 2
    MaxSessions = 1
    MaxLosses = 1
    MaxEvents = 1
    MaxFaults = 1

PROPERTIES
    UnmatchedFramesQueued
