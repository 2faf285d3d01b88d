SPECIFICATION Spec
CONSTANTS
    a = a
    b = b
    NoImage = NoImage
    Images <- MCImages
    MaxCalls = 4
    Reentrant = FALSE
    Disciplined = TRUE
    DeviceBlocks = 1
    Size <- FittingSize
CHECK_DEADLOCK FALSE
INVARIANT HandlersDeleted
