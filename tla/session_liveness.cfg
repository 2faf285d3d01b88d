SPECIFICATION FairSpec
CONSTANTS
    a = a
    b = b
    NoImage = NoImage
    Images <- MCImages
    MaxCalls = 6
    Reentrant = TRUE
    Disciplined = FALSE
    DeviceBlocks = 1
    Size <- FittingSize
CHECK_DEADLOCK FALSE
INVARIANT
    SessionMirror
PROPERTIES
    OperationsEnd LossNoticed
