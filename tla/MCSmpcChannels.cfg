SPECIFICATION FairSpec
CONSTANTS
  Node = {n1, n2, n3}
  MaxHalts = 0
  MaxSigns = 2
  Rounds = 2
  Timing = {"order", "client"}
  None = None
INVARIANTS TypeOK AllConnected SameRound NoFailure Released
PROPERTIES RoundsSpec SignReturns
CHECK_DEADLOCK FALSE
