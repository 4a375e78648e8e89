SPECIFICATION MessagesFairSpec
CONSTANTS
  Servers = {"s1"}
  Reporter = "psk"
  OneBuild = TRUE
  MaxStarts = 2
  MaxChanges = 1
  MaxFaults = 1
  MaxInFlight = 2
CHECK_DEADLOCK FALSE
INVARIANTS MessagesTypeOK Readable ReporterSpared
PROPERTIES KnownAgain Forgotten
