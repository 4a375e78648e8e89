SPECIFICATION ClaimSpec
CONSTANTS
  MaxBacklog = 2
  MaxOperator = 2
  Frequencies = {1}
  Polls = 1
  LagFreq = FALSE
  LagPtt = FALSE
  DropFails = FALSE
  MaxCommands = 1
  MaxTurns = 0
  MaxFaults = 0
  Period = 10
  TxEnd = 6
  LateStart = 5
  EndDelay = 2
  TxDelay = 2
INVARIANT HaltSilences
