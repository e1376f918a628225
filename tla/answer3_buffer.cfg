SPECIFICATION Spec
CONSTANTS
  SIZ = 5
  MaxLen = 2
  Files <- MCFiles
  Tails = {"zero", "junk"}
  MaxFailures = 0
INVARIANT NoErrorReported
CHECK_DEADLOCK FALSE
