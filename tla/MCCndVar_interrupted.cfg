SPECIFICATION Spec
CONSTANTS
  t1 = t1
  t2 = t2
  t3 = t3
  NULL = NULL
  Threads = {t1, t2, t3}
  Casts <- InterruptedWaiter
CHECK_DEADLOCK FALSE
INVARIANT
  NoDeadWaiter
