SPECIFICATION ClaimSpec
CONSTANTS
  Frequencies = {1, 2}
  Polls = 2
  LagFreq = FALSE
  LagPtt = TRUE
  DropFails = FALSE
  MaxCommands = 4
  MaxTurns = 0
  MaxFaults = 0
CHECK_DEADLOCK FALSE
INVARIANT PttFollows
