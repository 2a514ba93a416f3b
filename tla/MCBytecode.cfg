\* Widths 3, 4, 5 and 10 for 8, 16, 32 and 64 bits; branches reach 40 words.
CONSTANTS
  W8 = 3
  W16 = 4
  W32 = 5
  OffMax = 40
  TableWidth = 2
  TablePaths = 2
  EarlyExt = {3}
  VmFuncs = {1}
  ExtFuncs = {2, 3}
  RegFrameSize = 36
  TextMax = 80
  Stack0 = 9
  Programs <- MCPrograms
  RegFiles <- MCRegFiles
SPECIFICATION Spec
INVARIANTS TextSound StepRight LandsRight
