SPECIFICATION FairSpec
CONSTANTS
  MaxConns = 3
  MayStop = TRUE
INVARIANTS TypeOK NoLinkLeft NoCrashWhileServing
PROPERTIES HeartbeatEnds LossNoticed
CHECK_DEADLOCK FALSE
