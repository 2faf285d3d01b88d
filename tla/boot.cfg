SPECIFICATION CooperativeSpec
CONSTANTS
  Files = {f1, f2, f3}
  Present = {f1, f2}
  NoFile = none
  MaxPolls = 2
  MaxTimeouts = 1
  MaxCalls = 2
INVARIANTS TypeOK FileSentIsOffered ReturnsReleased
PROPERTIES GivesUp SuccessMeansFinished Cooperates
CHECK_DEADLOCK FALSE
