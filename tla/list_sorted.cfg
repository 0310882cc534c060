SPECIFICATION FairSpec
CONSTANTS
  Timers = {t1, t2, t3}
  Delays = {1, 3}
  MaxTime = 4
INVARIANTS
  Ordered
PROPERTIES
  InOrderOfCalls
  TickIsExact
  DueTimerFires
