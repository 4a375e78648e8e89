SPECIFICATION Spec
CONSTANTS
  Frequencies = {1, 2}
  Polls = 2
  LagFreq = TRUE
  LagPtt = FALSE
  DropFails = FALSE
  MaxCommands = 3
  MaxTurns = 0
  MaxFaults = 1
CHECK_DEADLOCK FALSE
INVARIANTS TypeOK PttReleased PttApplied PttSeen
PROPERTY ReportsInOrder
