\* Set-ups one after the other; one user id fewer than sessions.
CONSTANTS
  Session = {s1, s2, s3}
  Connection = {c1, c2, c3}
  MIN_UID = 0
  MAX_UID = 2
  Overlap = FALSE
  MaxKills = 1
  None = None
SYMMETRY Symmetry
SPECIFICATION Spec
INVARIANTS
  TypeOK
  DifferentUid
  SameUid
  OwnDirectory
  FailsOnlyAfterKill
PROPERTIES
  PoolSpec
