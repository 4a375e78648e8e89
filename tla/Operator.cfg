SPECIFICATION Spec
CONSTANTS
  N = 2
  Heard <- OperatorKinds
  MaxAge = 2
  MaxFailCount = 1
  HoldRepeat = 3
  Limits = {2}
  MaxLines = 2
  MaxCommands = 2
  Operator <- Commands
  SkipGrid = FALSE
  UseRR73 = TRUE
  Add73 = TRUE
  ReplyTo73 = TRUE
  ReplyToRR73 = TRUE
  CallFirst = TRUE
  EarlyLog = TRUE
  LockPeriod = FALSE
  ClearDXOption = FALSE
  AutoLog = FALSE
  QuickCall = TRUE
INVARIANT QsoConsistent
INVARIANT SentReportsExpire
PROPERTY StopStaysStopped
PROPERTY QueueInPeriod
PROPERTY RepeatLimit
PROPERTY QueuedUntilServed
