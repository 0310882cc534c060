SPECIFICATION Spec
CONSTANTS
  N = 2
  SI = 1
  Timers = {t1, t2, t3, t4}
  Timeouts <- MCTimeouts
  None = None
SYMMETRY TimerSymmetry
INVARIANTS
  WellLinked
PROPERTY
  ImplementsWheel
