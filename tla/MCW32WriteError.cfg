SPECIFICATION Spec
CONSTANTS
  READBUF_SIZE = 2
  ReadFaults = {}
  MaxIn = 0
  WRITEBUF_SIZE = 1
  WriteFaults = {"error"}
  ShortWrites = FALSE
  MaxOut = 2
PROPERTIES
  WriteErrorReported
CHECK_DEADLOCK FALSE
