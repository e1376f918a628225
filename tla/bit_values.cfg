SPECIFICATION BothSpec
CONSTANTS
  CHAR_SIZE = 3
  INT_SIZE = 6
  DOUBLE_SIZE = 9
  INT_BYTES = 2
  DOUBLE_BYTES = 3
  MaxLen = 7
  Files <- MCFiles
  Leftover <- MCLeftover
INVARIANTS
  BothTypeOK
  AnswerBufferHolds
PROPERTY BothImplementBitValues
CHECK_DEADLOCK FALSE
