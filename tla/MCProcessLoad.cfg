CONSTANTS
  Total = 50
  BlockSize = 4
  WordSize = 256
  ProcessBlocks = 2
  StackBlocks = 3
  Tables = 2
  Low = 12
  FileSizes <- MCFileSizes
SPECIFICATION LoadSpec
INVARIANTS
  ObjectsWhole
  EntersComplete
CHECK_DEADLOCK FALSE
