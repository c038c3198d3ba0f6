SPECIFICATION Spec
CONSTANTS
  Byte <- MCByte
  NL = "nl"
  Zero = "a"
  Backends = {"pipe"}
  Modes = {"r+"}
  Files <- MCPipeFiles
  Sizes = {2}
  UnreadSize = 1
  Faults = {"EAGAIN"}
  MaxResend = 0
  MaxLen = 3
  MaxIO = 2
  Offsets = {0}
INVARIANT
  InputIsNotSent
VIEW View
CHECK_DEADLOCK FALSE
