SPECIFICATION FairSpec

CONSTANTS
    Platforms <- MCBoth
    FrameSize = 3
    HeaderSize = 2
    Room = 2
    Timeout = 2
    Interval = 2
    Cap = 2
    MaxLate = 1
    MaxInput = 1

INVARIANTS
    TypeOK
    FramesWhole
PROPERTIES
    FramesSpaced
    CallsEnd
