CONSTANTS
  N = 4
  WordSize = 8
  Keys = {a, b}
  NoKey = zero
  MaxLost = 3
SPECIFICATION Spec
INVARIANTS
  LagCountsLosses
PROPERTIES
  DrainedHides
  IsFifo
  KeysTaken
