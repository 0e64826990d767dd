SPECIFICATION Spec

CONSTANTS
    k1 = k1
    k2 = k2
    Ids <- MCTwoIds
    DefaultId = 1
    Keys <- MCKeys
    Values <- MCBinary
    InitValue = 0
    Window = 1
    EchoSettings <- MCEcho
    MaxRetries = 0
    SkipDuplicates = FALSE
    MaxTime = 2
    MaxCalls = 3
    MaxFaults = 1

INVARIANTS
    CacheCoherent
