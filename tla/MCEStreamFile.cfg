SPECIFICATION Spec
CONSTANTS
  Byte <- MCByte
  NL = "nl"
  Zero = "a"
  Backends = {"file"}
  Modes = {"r", "w", "r+"}
  Files <- MCFiles
  Sizes = {1, 2}
  UnreadSize = 1
  Faults = {"EAGAIN", "EIO", "EPIPE"}
  MaxResend = 0
  MaxLen = 4
  MaxIO = 3
  Offsets <- MCOffsets
INVARIANTS
  BufferMirrorsBackend
PROPERTIES
  ImplementsByteStream
  BufferedFailureTold
VIEW View
CHECK_DEADLOCK FALSE
