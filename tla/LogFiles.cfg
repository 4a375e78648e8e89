SPECIFICATION LogFairSpec
CONSTANTS
  Qsos = {1, 2}
  MaxSyncs = 3
  MaxRescans = 1
  MaxFaults = 1
CHECK_DEADLOCK FALSE
INVARIANTS LogTypeOK NothingLost HeldBack
PROPERTY ComesBack
