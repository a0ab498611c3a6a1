CONSTANTS
  Total = 6
  BlockSize = 4
  WordSize = 32
  Slots = 2
  Sizes <- MCSizes
SPECIFICATION Spec
INVARIANTS
  WritesOnlyItsOwn
  RegionsWhole
  CopyFaultNeedsLargeFree
PROPERTIES
  FreedStaysHidden
  GoesMute
CHECK_DEADLOCK FALSE
