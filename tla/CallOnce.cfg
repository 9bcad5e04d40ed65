\* The thread that runs func() and the threads that find the flag at START, at WAITING
\* and at FINISH.
SPECIFICATION FairSpec
CONSTANTS
  Threads = {t1, t2, t3, t4}
  Interruptible = {t1, t2}
INVARIANTS
  RunsOnce
  UndisturbedReturnsAfterFunc
  NoStrandedWaiter
PROPERTIES
  EveryCallReturns
