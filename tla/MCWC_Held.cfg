SPECIFICATION Spec

CONSTANTS
    k1 = k1
    k2 = k2
    Ids <- MCOneId
    DefaultId = 1
    Keys <- MCKeys
    Values <- MCValues
    InitValue = 0
    Window = 2
    EchoSettings <- MCEcho
    MaxRetries = 1
    SkipDuplicates = TRUE
    MaxTime = 5
    MaxCalls = 4
    MaxFaults = 1

INVARIANTS
    HeldForWindow
