SPECIFICATION Spec

CONSTANTS
    Settings <- MCSerial
    Values <- MCValues
    MaxConnects = 1

INVARIANTS
    DestructorSafe
CHECK_DEADLOCK FALSE
