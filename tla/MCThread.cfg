\* Two threads, two addresses that mmap may return (the second thread may be given the
\* stack the first has just left) and one stack that a caller provides.  At the exit:
\* two keys, so that the destructors have an order, and callbacks that register another.
SPECIFICATION MCSpec
CONSTANTS
  Threads = {w1, w2}
  Stacks = {a1, a2, u1}
  UserStacks = {u1}
  Values = {v1}
  NoValue = NoValue
  NoStack = NoStack
  NoThread = NoThread
  Callbacks = {c1, c2}
  Dtors = {d1, d2}
  Payloads = {v1, v2}
  NoDtor = NoDtor
  TSS_KEY_COUNT = 2
  MaxCalls = 4
CHECK_DEADLOCK FALSE
INVARIANTS
  ThreadOwnsItsStack
  NoUseAfterFree
  KernelWritesOwnWord
  CleanupAfterExit
  NothingLeaks
  JoinReturnsResult
  ExitRunsEverything
PROPERTIES
  JoinReturns
