SPECIFICATION FairSpec
CONSTANTS
  N = 2
  Heard <- ProgressKinds
  MaxAge = 0
  MaxFailCount = 1
  HoldRepeat = 4
  Limits = {3}
  MaxLines = 3
  MaxCommands = 1
  Operator <- ModeCommands
  SkipGrid = FALSE
  UseRR73 = FALSE
  Add73 = FALSE
  ReplyTo73 = FALSE
  ReplyToRR73 = FALSE
  CallFirst = FALSE
  EarlyLog = FALSE
  LockPeriod = FALSE
  ClearDXOption = FALSE
  AutoLog = TRUE
  QuickCall = TRUE
PROPERTY SilenceEndsCalls
