SPECIFICATION FairSpec
CONSTANTS
  Size = 2
  MaxConns = 1
PROPERTY
  DispatchesConnections
CHECK_DEADLOCK FALSE
