SPECIFICATION SessionFairSpec
CONSTANTS
  MaxStarts = 3
  MaxFaults = 1
  Names = {"a", "b", "c"}
  Values = {0, 1}
  Defaults = 0
  CrashInSwap = FALSE
CHECK_DEADLOCK FALSE
INVARIANTS SessionTypeOK OneDecodeAtATime StaysWhileOpen CurrentIsNoGroup
PROPERTIES DecodesEnd LostOnlyInGap SwapEnds ConfigurationsKept
