SPECIFICATION MCSpec
CONSTANTS
  MaxQuic = 1
  MaxLoss = 3
  MaxSessions = 3
  MaxDatagrams = 2
INVARIANTS TypeOK DatagramsInOrder
PROPERTY DrivenHandshakeEnds
CHECK_DEADLOCK FALSE
