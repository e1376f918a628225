SPECIFICATION FairSpec
CONSTANTS
  SIZ = 5
  MaxLen = 6
  Files <- MCFiles
  Tails = {"zero", "junk"}
  MaxFailures = 4
INVARIANTS
  TypeOK
  OneInCharge
  LinesInTurn
  NobodyLeftBehind
  NoBrokenPipe
PROPERTIES
  ImplementsLineRing
  AllExit
CHECK_DEADLOCK FALSE
