SPECIFICATION Spec
CONSTANTS
  NUMOFPID = 4
  MaxLen = 2
  Files <- MCFiles
  ForkMayFail = FALSE
INVARIANT ParentOutlivesChildren
CHECK_DEADLOCK FALSE
