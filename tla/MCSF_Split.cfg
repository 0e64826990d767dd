SPECIFICATION Spec

CONSTANTS
    Bytes <- MCBytes
    Header <- MCHeader
    Footer = 251
    PayloadSize = 4
    Payloads <- MCPayloads
    MaxGap = 3
    MaxFrames = 3
    MaxLosses = 0
    MaxSplits = 1


\* The bytes end where the bounds do, and a receiver at the bound of its
\* deadlines then waits.
CHECK_DEADLOCK FALSE

INVARIANTS
    NoFrameLost
