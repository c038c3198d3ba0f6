SPECIFICATION Spec
CONSTANTS
  READBUF_SIZE = 3
  ReadFaults = {"error", "broken"}
  MaxIn = 3
  WRITEBUF_SIZE = 2
  WriteFaults = {"error", "busy"}
  ShortWrites = FALSE
  MaxOut = 2
INVARIANTS
  PipesKeepBytes
PROPERTIES
  NoFalseEof
  CallsReturn
CHECK_DEADLOCK FALSE
