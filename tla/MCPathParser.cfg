CONSTANTS
  Digits = {"0"}
  Others = {"a"}
  MaxPath = 7
  Longest = 8
SPECIFICATION ParseSpec
INVARIANTS
  SplitsExactly
CHECK_DEADLOCK FALSE
