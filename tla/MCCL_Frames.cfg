SPECIFICATION Spec
CONSTANTS
    Frames <- MCFrames
    Foreign <- MCForeign
    QueueSize = 2
    MaxFrames = 4
PROPERTIES
    ImplementsLink
