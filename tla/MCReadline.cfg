CONSTANTS
  Width = 2
  Height = 2
  Keys = {"a", "b", "backspace", "enter"}
  NoKey = nul
  Size = 4
  Mark = 1
  N = 2
  WordSize = 4
  MaxLost = 1
SPECIFICATION ConsoleSpec
INVARIANTS
  BufferHoldsLine
  ScreenShowsLine
  PrintsLine
  MeantArrives
