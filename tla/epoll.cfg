SPECIFICATION FairSpec
CONSTANTS
  Conns = {c1, c2, c3}
  Fds = {f1, f2}
  NoConn = NoConn
  NoFd = NoFd
  BufferSize = 1
  StdioSize = 3
  MaxSend = 2
INVARIANTS
  InputIsAnnounced
PROPERTIES
  EveryClientServed
  LoopsAsDescribed
CHECK_DEADLOCK FALSE
