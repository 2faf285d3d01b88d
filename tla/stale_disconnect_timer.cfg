SPECIFICATION Spec
CONSTANTS
    Heartbeats = TRUE
    MaxStarts = 2
CHECK_DEADLOCK FALSE
PROPERTY SeveredProcessKilled
