SPECIFICATION Spec

CONSTANTS
    k1 = k1
    k2 = k2
    Ids <- MCOneId
    DefaultId = 1
    Keys <- MCKeys
    Values <- MCBinary
    InitValue = 0
    Window = 1
    EchoSettings <- MCEcho
    MaxRetries = 1
    SkipDuplicates = TRUE
    MaxTime = 3
    MaxCalls = 3
    MaxFaults = 2

INVARIANTS
    TypeOK
    NoWriteForgotten
    ReadsLatestState
PROPERTIES
    ImplementsBuffer
