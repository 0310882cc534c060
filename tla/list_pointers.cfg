SPECIFICATION Spec
CONSTANTS
  Timers = {t1, t2, t3, t4}
  Delays = {1, 3}
  MaxTime = 4
  None = None
SYMMETRY TimerSymmetry
INVARIANTS
  WellLinked
PROPERTY
  ImplementsSorted
