SPECIFICATION FairSpec
CONSTANTS
  Conns = {1, 2}
  Fds = {f1, f2}
  NoConn = 0
  Slot = 2
  BufferSize = 1
  MaxUnread = 2
INVARIANTS
  NeverBlocks
  OneTimerPerClient
  TickScheduled
PROPERTIES
  TickClosesIdle
  EveryClientClosed
  TermStops
CHECK_DEADLOCK FALSE
