SPECIFICATION FairSpec
CONSTANTS
  ThreadCount = 1
  Conns = {c1}
  OneShot = {c1}
  MaxSend = 1
  BufferSize = 1
  Window = 1
  Main = main
  NoThread = NoThread
  NoConn = NoConn
CHECK_DEADLOCK FALSE
PROPERTIES
  GracefulShutdown
