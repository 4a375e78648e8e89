SPECIFICATION TxSpec
CONSTANTS
  MaxBacklog = 1
  MaxOperator = 4
  Frequencies = {1}
  Polls = 1
  LagFreq = FALSE
  LagPtt = FALSE
  DropFails = FALSE
  MaxCommands = 2
  MaxTurns = 0
  MaxFaults = 1
  Period = 6
  TxEnd = 3
  LateStart = 2
  EndDelay = 1
  TxDelay = 1
INVARIANTS TxTypeOK PttIsDropped KeyedForTransmission
PROPERTY SendsInSlot
