SPECIFICATION BothSpec
CONSTANTS
  BYTE_SIZE = 8
  BUFMAX = 5
  Name = {1, 2}
  AnswerName = {0, 1, 2}
  Type = {"char", "int"}
  MaxMembers = 2
INVARIANTS
  AccountsAgree
  ValuesKept
PROPERTIES
  RemovalEnds
  BothImplementNamedBlocks
