SPECIFICATION FairSpec

CONSTANTS
    Platforms <- MCPosix
    FrameSize = 2
    HeaderSize = 1
    Room = 1
    Timeout = 1
    Interval = 0
    Cap = 0
    MaxLate = 1
    MaxInput = 0

PROPERTIES
    ReceiveReturns
