SPECIFICATION FairSpec

CONSTANTS
    Keys <- MCKeys
    Reads <- MCReads
    Writes <- MCWrites
    Unsolicited <- MCUnsolicited
    Threads = {t1, t2}
    NoThread = NoThread
    MaxRetries = 1
    MaxQueue = 1
    WaitWriteEcho = FALSE
    SlowReceive = TRUE
    ConnectAnyTime = FALSE
    MaxCalls = 2
    MaxSessions = 2
    MaxEvents = 1

INVARIANTS
    TimeoutMeansWaited
