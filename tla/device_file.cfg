SPECIFICATION Spec
CONSTANTS
  Volumes = {boot, root}
  Alike = {foreign}
  Platforms = {"linux", "macx", "windows"}
  MaxOpens = 2
INVARIANTS TypeOK UnmountedStaysUnmounted
PROPERTY CheckedOnMedia
CHECK_DEADLOCK FALSE
