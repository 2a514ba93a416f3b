SPECIFICATION FairSpec
CONSTANTS
  Handles = {h1, h2, h3}
  MaxFds = 3
INVARIANTS
  FreeListSound
  Ownership
PROPERTY
  DestroyReturns
CHECK_DEADLOCK FALSE
