SPECIFICATION LogSpec
CONSTANTS
  Qsos = {1, 2}
  MaxSyncs = 2
  MaxRescans = 0
  MaxFaults = 1
CHECK_DEADLOCK FALSE
INVARIANT RefusesOnlyWhileUpdating
