SPECIFICATION Spec
CONSTANTS
  Opt <- MCOpt
  Table <- MCTable
  Abbrev <- MCAbbrev
  Var <- MCVar
  Env <- MCEnv
  Registry <- MCEnv
  SysLines <- MCSysLines
  UserLines <- MCUserLines
  Calls <- MCCalls
  Me = "joe"
  IfMax = 2
  None = None
  NoTerm = NoTerm
  Unset = Unset
INVARIANTS
  ElseTaken
CHECK_DEADLOCK FALSE
