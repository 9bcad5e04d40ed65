\* Three threads: the holder, a sleeper and one that barges in between them.
SPECIFICATION FairSpec
CONSTANT
  Threads = {t1, t2, t3}
INVARIANTS
  MutualExclusion
  WordTracksHolder
  NoStrandedSleeper
PROPERTIES
  ImplementsAbstractLock
  SomeoneGetsIn
