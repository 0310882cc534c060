SPECIFICATION FairSpec
CONSTANTS
  N = 3
  SI = 2
  Timers = {t1, t2}
  Timeouts <- MCTimeouts
  None = None
INVARIANTS
  FiresWhenDue
PROPERTIES
  EveryTimerEnds
