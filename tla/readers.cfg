SPECIFICATION FairSpec
CONSTANTS
  NUM_OF_READER = 3
  MaxWords = 10
  Thread <- MCThread
  NULL = NULL
INVARIANTS
  TypeOK
  OneInside
  WrittenInOrder
PROPERTY Terminates
CHECK_DEADLOCK FALSE
