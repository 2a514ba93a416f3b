SPECIFICATION FairSpec
CONSTANTS
  Values = {v1, v2, v3, v4, v5}
  MaxPhis = 4
INVARIANTS
  TypeOK
  ParallelCopy
  LiftIsParallel
PROPERTY
  Terminates
CHECK_DEADLOCK FALSE
