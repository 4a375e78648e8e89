SPECIFICATION FairSpec
CONSTANTS
  Frequencies = {1, 2}
  Polls = 2
  LagFreq = TRUE
  LagPtt = TRUE
  DropFails = TRUE
  MaxCommands = 2
  MaxTurns = 1
  MaxFaults = 1
CHECK_DEADLOCK FALSE
INVARIANT UpdatesSeen
PROPERTY ViewSettles
