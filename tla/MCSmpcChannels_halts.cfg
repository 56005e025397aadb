SPECIFICATION Spec
CONSTANTS
  Node = {n1, n2, n3}
  MaxHalts = 1
  MaxSigns = 2
  Rounds = 2
  Timing = {"client"}
  None = None
INVARIANT SignedTogether
SYMMETRY Symmetry
CHECK_DEADLOCK FALSE
