CONSTANTS
  Stacks = {1, 2}
  Values = {0, 1}
  Low = 8
  High = 2
  Page = 4
  Byte = 2
  TssBase = 9
  TssSize = 5
SPECIFICATION Spec
INVARIANTS
  RightContext
  SegmentsFit
PROPERTIES
  Undisturbed
  EveryIrqHandled
CHECK_DEADLOCK FALSE
