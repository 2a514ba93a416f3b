\* uint32_t has 20 bits, a page 64 bytes.
CONSTANTS
  W32 = 20
  UintBits = 20
  DataStart = 64
  Garbage = 97
  Leftover = 170
  TmpMax = 1
  DroppedNames <- MCDropped
  VmopNames <- MCVmops
  ExternNames <- MCExterns
  CtorsName <- Ctors
  Documents <- MCDocuments
SPECIFICATION Spec
INVARIANTS TypeOK ValuesRight ProgramRight MemoryRight
PROPERTY Advances
