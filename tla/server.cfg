SPECIFICATION FairSpec
CONSTANTS
  ThreadCount = 2
  Conns = {c1,c2}
  OneShot = {c2}
  MaxSend = 3
  BufferSize = 2
  Window = 2
  Main = main
  NoThread = NoThread
  NoConn = NoConn
INVARIANTS
  OneOwner
  NothingOpenAtExit
PROPERTIES
  EchoedBeforeClose
  PoolSpec
  QueuedClientAnswered
  ClientTerminates
CHECK_DEADLOCK FALSE
