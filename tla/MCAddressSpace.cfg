CONSTANTS
  Page = 2
  Pages = 10
  ImageAt = 2
  FileSize = 3
  StackAt = 4
  StackVirtual = 5
  StackPages = 2
  Addresses <- MCAddresses
  Offsets <- MCOffsets
  Sizes <- MCSizes
  MaxHeaders = 2
SPECIFICATION MapSpec
INVARIANTS
  SegmentsArrive
  WritesOnlyFileAndStack
CHECK_DEADLOCK FALSE
