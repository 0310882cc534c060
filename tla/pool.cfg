SPECIFICATION FairSpec
CONSTANTS
  ThreadCount = 2
  Callers = {main, helper}
  Main = main
  Tasks = {t1, t2, t3}
  NoThread = NoThread
  NoTask = NoTask
INVARIANTS
  FifoHandOff
  FrontIsSafe
  NoStrandedTask
  DrainedWhenDestroyed
PROPERTIES
  NothingAcceptedAfterExit
  AcceptedTaskRuns
  QuietJoinReturns
CHECK_DEADLOCK FALSE
