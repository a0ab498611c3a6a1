CONSTANTS
  Total = 5
  BlockSize = 4
  WordSize = 32
  Requests <- MCRequests
SPECIFICATION ScanSpec
INVARIANTS
  TableSound
  OneBlockPerMalloc
  LoopInv
  RefusesOnlyWhenFull
PROPERTIES
  LastStaysTaken
  KeepsPromise
  ImplementsHeap
  CallsReturn
