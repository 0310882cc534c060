SPECIFICATION FairSpec
CONSTANTS
  Size = 4
  MaxConns = 1
INVARIANTS
  NoticeIsPrivate
  EndMeansOrphaned
PROPERTY
  TermStopsChild
CHECK_DEADLOCK FALSE
