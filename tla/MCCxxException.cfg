SPECIFICATION CxxSpec
CONSTANTS
  Blocks = {1, 2}
  MaxDepth = 6
  MaxAlloca = 0
  IndirectThrows = FALSE
  Exceptions = {e1, e2, e3}
  Rethrows = {FALSE}
SYMMETRY Symmetry
INVARIANTS
  PadsRight
  ExceptionsAccounted
CHECK_DEADLOCK FALSE
