SPECIFICATION Spec
CONSTANTS
  Values = {v1, v2, v3, v4, v5, v6}
  MaxPhis = 5
SYMMETRY Symmetry
INVARIANT
  WalkStartsOnCycle
CHECK_DEADLOCK FALSE
