SPECIFICATION CompSpec
CONSTANTS
  MaxFd = 10
  Pid = {p1, p2}
  WPid = {wp1, wp2}
  FlagSets <- MCFlagSets
  Acts <- MCActs
  ExtraFile = ExtraFile
  ExtraFd = 5
  Free = Free
  HaveClosefrom = TRUE
  WFlagSets <- MCWFlagSets
  WActs <- MCWActs
  g1 = g1
  g2 = g2
  Given <- MCGiven
  MaxInherit = 4
  Invalid = Invalid
  LogThread = {lt1}
  LogFd = {3, 4}
  NoFd = NoFd
  ErrorLimit = 1
  HexDumps <- MCHexDumps
  LockThread = {kt1, kt2, kt3}
  NoOwner = NoOwner
  MaxDepth = 2
  MaxLives = 2
  PollLength = 3
  PollItem <- MCPollItem
  PollFd = {"f1", "f2"}
  NoPollFd = NoPollFd
  Readiness <- MCReadiness
  Stream = {s1}
  Desc = {d1, d2}
  NoDesc = NoDesc
  Handler = {h1, h2}
  NoHandler = NoHandler
  MaxOnclose = 2
  ClampThread = {ct1, ct2}
  NoThread = NoThread
  Piece <- MCPiece
  MaxPieces = 3
  Widths = {0, 5}
  Precisions = {0, 4}
  Magnitudes <- MCMagnitudes
  BufSizes = {0, 1, 3, 5}
  Grow = 2
  MaxOut = 6
  Names = {"Key", "Foo"}
  GivenNames <- MCGivenNames
  Values <- MCValues
  Files <- MCFiles
  LINELEN = 6
  Window = 3
  MaxEntries = 2
  Item = {i1, i2, i3, i4}
  NoItem = NoItem
  ListVar = {l1, l2}
  ListWord = {"a", "b"}
  Texts <- MCTexts
  Word = 16
  BLOCK_SIZE = 2
  MaxAlloc = 4
  Byte = {1}
  Limits = {0, 1}
  Offsets <- MCOffsets
  MaxIO = 2
  NoTitle = NoTitle
  Titles <- MCTitles
  Sources <- MCSources
  LineQuads = 2
  BadWrites <- MCBadWrites
  Preambles <- MCPreambles
  OtherTexts <- MCOtherTexts
  SizeMod = 8
  Amounts = {0, 1, 2, 3, 4}
  StrArgs <- MCStrArgs
  ArgvLen = 4
  Cleanup = {f1, f2}
  NoBlock = NoBlock
  Versions <- MCVersions
  Levels = {1, 2, 3, 12, 13}
  IntMod = 65536
  EnvVar = {v1}
  EnvValue = {0, 1, 2}
  Unset = Unset
  Argvs <- MCArgvs
  EnvBlocks <- MCEnvBlocks
  EnvChanges <- MCEnvChanges
  EnvDim = 5
  NoValue = NoValue
  TooLarge = TooLarge
  ExitStatus = {0, 1}
  Signal = {9}
  ModeLetters <- MCModeLetters
  ModeItems <- MCModeItems
  NoCookie = NoCookie
  Letters <- MCLetters
  LogLetters <- MCLogLetters
  Controls <- MCControls
  Printable <- MCPrintable
  SanitizeBufs <- MCBuffers
  Delimiters <- MCDelimiters
  NameChar <- MCNameChar
  FirstParts <- MCFirstParts
  MoreParts <- MCMoreParts
  Homes <- MCHomes
  SysDirs <- MCSysDirs
  Cwds <- MCCwds
  NamesDim = 3
  NoHome = NoHome
  ShortName = 2
  FirstLen = 6
  ExtLimit = 5
  PathLens = {1, 2, 3, 4, 5, 6, 7, 8}
INVARIANTS
  FdsAccounted
  ChildPipesExact
  ReapedOnce
  HandlesAccounted
  LogStreamExact
  LockInitializedOnce
  PollItemsExact
  DescriptorsAccounted
  StreamPromisesKept
  OneThreadRuns
  PrintfExact
  ContainersExact
  ListsSound
  Base64Exact
  MemorySound
  VersionsOrdered
  EnvironmentKept
  ChildGetsAll
  FileOpenedAlike
  EscapesReadBack
  CallsTellTrue
  NamesExact
PROPERTIES
  ImplementsMemFile
VIEW CompView
CHECK_DEADLOCK FALSE
