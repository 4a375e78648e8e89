SPECIFICATION Spec
CONSTANTS
  N = 2
  Heard <- ContactKinds
  MaxAge = 0
  MaxFailCount = 1
  HoldRepeat = 3
  Limits = {2}
  MaxLines = 4
  MaxCommands = 1
  Operator <- ModeCommands
  SkipGrid = FALSE
  UseRR73 = FALSE
  Add73 = TRUE
  ReplyTo73 = FALSE
  ReplyToRR73 = FALSE
  CallFirst = FALSE
  EarlyLog = TRUE
  LockPeriod = FALSE
  ClearDXOption = FALSE
  AutoLog = TRUE
  QuickCall = TRUE
INVARIANT TypeOK
PROPERTY QueueInPeriod
PROPERTY RepeatLimit
PROPERTY LoggedWhenExchanged
PROPERTY NoHijack
