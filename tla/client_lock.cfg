SPECIFICATION FairSpec
CONSTANTS
  Procs = {q1, q2, q3}
  Reused = {q3}
  Absent = Absent
  Empty = Empty
INVARIANTS TypeOK OneHolder HolderNamed
PROPERTIES StartReturns LoneStartSucceeds
CHECK_DEADLOCK FALSE
