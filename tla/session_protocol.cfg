SPECIFICATION Spec
CONSTANTS
    a = a
    b = b
    NoImage = NoImage
    Images <- MCImages
    MaxCalls = 6
    Reentrant = FALSE
    Disciplined = TRUE
    DeviceBlocks = 2
    Size <- FittingSize
CHECK_DEADLOCK FALSE
INVARIANTS
    TypeOK SessionMirror IdleMeansQuiet JobServesRequest CloseNeverWaitsOnJob
    NoNullDereference VerifiedMeansWritten CancelConfined WorkNotLost
PROPERTIES
    ReportedDeviceUntouched ServiceSpec
