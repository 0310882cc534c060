SPECIFICATION FairSpec
CONSTANTS
  Conns = {c1, c2}
  Fds = {f1}
  NoConn = NoConn
  NoFd = NoFd
  Capacity = 2
  MaxSend = 3
INVARIANTS
  NoStaleEvent
  BufferIsOwn
  ZombiesAnnounced
PROPERTIES
  EveryClientServed
  TermStops
CHECK_DEADLOCK FALSE
