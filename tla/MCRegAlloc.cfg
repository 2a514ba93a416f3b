SPECIFICATION FairSpec
CONSTANTS
  NumTemps = 3
  NumInstrs = 5
  MaxArgs = 2
  Shapes <- MCShapes
  WordBits = 1
INVARIANTS
  EdgesCounted
  LivenessExact
  ColorFound
  ReadsRight
PROPERTY
  AllocationEnds
CHECK_DEADLOCK FALSE
