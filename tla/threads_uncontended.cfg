SPECIFICATION Spec
CONSTANTS
  Thread = {t1, t2, t3, t4, t5}
  NULL = NULL
  InitialValue = 1
  MaxCounter = 2
  MinThreads = 2
  Contended = FALSE
INVARIANT NobodyLost
PROPERTY ImplementsRoundRobin
