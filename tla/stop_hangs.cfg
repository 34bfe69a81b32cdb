SPECIFICATION FairSpec
CONSTANTS
  MaxConns = 1
  MayStop = TRUE
PROPERTY StopEndsRun
CHECK_DEADLOCK FALSE
