SPECIFICATION Spec
CONSTANTS
  Platforms = {"linux", "macx", "windows"}
  MaxPolls = 3
  MaxInits = 2
INVARIANTS TypeOK TemporaryMountUndone
PROPERTIES InitializationEnds FoundWhenListed
