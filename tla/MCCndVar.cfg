SPECIFICATION FairSpec
CONSTANTS
  t1 = t1
  t2 = t2
  t3 = t3
  NULL = NULL
  Threads = {t1, t2, t3}
  Casts <- NotifiedAndBroadcast
CHECK_DEADLOCK FALSE
INVARIANTS
  UndisturbedNoDeadWaiter
  WaiterIsFindable
  QmtxExclusion
PROPERTIES
  ImplementsAbstractCndVar
  SignalledReturn
