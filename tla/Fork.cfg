CONSTANTS
  Threads = {t1, t2}
  NoThread = NoThread
  Handlers = {h1, h2, h3}
  NoHandler = NoHandler
  Exiters = {t1}
  Triples = {x1, x2}
  Silent = {x2}
  CALLBACK_SIZE = 2
SPECIFICATION FairSpec
INVARIANTS  HandlersInOrder 
PROPERTY ForkAndExitComplete
CHECK_DEADLOCK FALSE
