SPECIFICATION Spec
CONSTANTS
  Blocks = {1, 2, 3}
  MaxDepth = 7
  MaxAlloca = 2
  IndirectThrows = FALSE
INVARIANTS
  TypeOK
  JmpbufIsInnermost
  StacksAccounted
  AllocasDisjoint
PROPERTY
  ExceptionsArrive
CHECK_DEADLOCK FALSE
