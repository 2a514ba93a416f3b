SPECIFICATION Spec
CONSTANTS
  HeapStart = 16
  HeapSize = 200
  Hdr = 24
  Align = 16
  IntMax = 1023
  Requests = {0, 20, 44}
  Counts = {2}
INVARIANTS
  TypeOK
  Tiled
  Coalesced
  FailsOnlyWhenFull
PROPERTIES
  MoveKeepsContents
  ImplementsAllocator
CHECK_DEADLOCK FALSE
