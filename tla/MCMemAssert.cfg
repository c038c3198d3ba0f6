SPECIFICATION MemSpec
CONSTANTS
  Word = 16
  BLOCK_SIZE = 2
  MaxAlloc = 4
  Byte = {1, 2}
  Limits = {0, 1}
  Offsets <- MCOffsets
  MaxIO = 2
INVARIANTS
  AssertHolds
VIEW View
CHECK_DEADLOCK FALSE
