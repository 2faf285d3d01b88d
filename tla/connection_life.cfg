SPECIFICATION FairSpec
CONSTANTS
    Heartbeats = TRUE
    MaxStarts = 3
CHECK_DEADLOCK FALSE
INVARIANTS
    TypeOK
    EndIsListenedTo
PROPERTIES
    LossIsAbort
    LossReported
    SeverEnds
    DestructorReturns
