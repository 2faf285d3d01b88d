SPECIFICATION Spec
CONSTANTS
  Files = {f1, f2, f3}
  Present = {f1, f2}
  NoFile = none
  MaxPolls = 2
  MaxTimeouts = 1
  MaxCalls = 2
PROPERTY BootcodeOnce
CHECK_DEADLOCK FALSE
