SPECIFICATION FairSpec
CONSTANTS
  NUMOFPID = 4
  MaxLen = 6
  Files <- MCFiles
  ForkMayFail = TRUE
INVARIANTS
  OneInCharge
  NoStrandedCommand
  LinesInTurn
  ExitsInOrder
  IInv
PROPERTIES
  ImplementsLineRing
  AllExit
CHECK_DEADLOCK FALSE
