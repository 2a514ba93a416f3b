SPECIFICATION FairSpec
CONSTANTS
  NumBBs = 3
  MaxMulti = 2
INVARIANTS
  GraphConsistent
  BehaviourKept
  Accepted
PROPERTY
  LiveCodeReturns
CHECK_DEADLOCK FALSE
