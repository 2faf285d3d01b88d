SPECIFICATION Spec
CONSTANTS
  Sizes = {0, 1, 3, 6, 8, 9, 12, 13, 16, 17, 19}
  Block = 8
  Chunk = 4
  Sector = 2
  DeviceSize = 18
  MaxChecks = 2
  Old = old
  Zero = zero
INVARIANTS TypeOK PrefixWritten NothingPastImage CheckedIsDevice
CHECK_DEADLOCK FALSE
