CONSTANTS
  c1 = c1
  c2 = c2
  c3 = c3
  Callers = {c1, c2, c3}
  MaxFd = 3
  FileSizes <- MCFileSizes
  Offsets <- MCOffsets
  WordSize = 8
SYMMETRY MCSymmetry
SPECIFICATION Spec
INVARIANTS
  HandleIsMine
CHECK_DEADLOCK FALSE
