SPECIFICATION Spec
CONSTANTS
  Node = {n1, n2, n3}
  MaxHalts = 0
  MaxSigns = 1
  Rounds = 2
  Timing = {"sleep", "client"}
  None = None
INVARIANT AllConnected
CHECK_DEADLOCK FALSE
