CONSTANTS
  Char <- MCChar
  Volumes <- MCVolumes
  RootEntries = 3
  Stray <- MCStray
  Paths <- MCPaths
SPECIFICATION Spec
INVARIANTS
  FindsPlainFiles
  SearchStaysInTable
  LeftBehind
CHECK_DEADLOCK FALSE
