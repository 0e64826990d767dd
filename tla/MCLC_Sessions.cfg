SPECIFICATION Spec

CONSTANTS
    Settings <- MCSettings
    Values <- MCValues
    MaxConnects = 3

INVARIANTS
    TypeOK
    OpenIsReady
    NothingLeaks
    CleanShutdown
    AcceptedWritesKept
    TerminatesOnlyThen
CHECK_DEADLOCK FALSE
