SPECIFICATION FairSpec
CONSTANTS
    a = a
    b = b
    NoImage = NoImage
    Images <- MCImages
    MaxCalls = 3
    Reentrant = FALSE
    Disciplined = TRUE
    DeviceBlocks = 1
    Size <- FittingSize
CHECK_DEADLOCK FALSE
PROPERTY OperationsAlwaysEnd
