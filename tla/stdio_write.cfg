SPECIFICATION FairSpec
CONSTANTS
  BUFSIZE = 2
  MaxLen = 2
  MaxCalls = 3
  ReadSizes = {1}
  WriteSizes = {6}
  LargeWrites = 1
  MaxFailures = 0
INVARIANT FwriteWritesAll
CHECK_DEADLOCK FALSE
