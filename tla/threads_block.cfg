SPECIFICATION Spec
CONSTANTS
  Thread = {t1, t2, t3}
  NULL = NULL
  InitialValue = 1
  MaxCounter = 2
  MinThreads = 2
  Contended = TRUE
INVARIANT SemaphoreNotNegative
SYMMETRY ThreadSymmetry
CHECK_DEADLOCK FALSE
