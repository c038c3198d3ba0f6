SPECIFICATION Spec
CONSTANTS
  Byte <- MCByte
  NL = "nl"
  Zero = "a"
  Backends = {"file", "pipe", "noseek"}
  Modes = {"w", "r+"}
  Files <- MCPipeFiles
  Sizes = {1, 2}
  UnreadSize = 1
  Faults = {"EAGAIN", "EPIPE"}
  MaxResend = 2
  MaxLen = 3
  MaxIO = 2
  Offsets = {0, 1}
INVARIANTS
  PositionExact
  PipeExact
PROPERTIES
  CloseDelivers
VIEW View
CHECK_DEADLOCK FALSE
