CONSTANTS
  Session = {s1, s2}
  Connection = {c1, c2}
  MIN_UID = 0
  MAX_UID = 2
  Overlap = TRUE
  MaxKills = 0
  None = None
SYMMETRY Symmetry
SPECIFICATION Spec
INVARIANTS
  DifferentUid
