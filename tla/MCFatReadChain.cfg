CONSTANTS
  Sector = 2
  PerCluster = 2
  FatPos = 2
  DataPos = 10
  Clusters = 2
  Marks <- MCMarks
  Positions <- MCPositions
  Sizes <- MCSizes
  Counts <- MCCounts
SPECIFICATION Spec
INVARIANTS
  CorrectCluster
CHECK_DEADLOCK FALSE
