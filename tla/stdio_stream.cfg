SPECIFICATION FairSpec
CONSTANTS
  BUFSIZE = 2
  MaxLen = 5
  MaxCalls = 5
  ReadSizes = {0, 1, 2, 3, 5}
  WriteSizes = {0, 1, 2, 4}
  LargeWrites = 1
  MaxFailures = 2
INVARIANTS
  TypeOK
  NothingUnread
  ShortReadIsEof
  FwriteWritesAll
PROPERTIES
  EofOnlyAtEnd
  CallsReturn
  
CHECK_DEADLOCK FALSE
