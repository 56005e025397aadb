\* Two set-ups that overlap: the recursion of pick_user().
CONSTANTS
  Session = {s1, s2}
  Connection = {c1, c2}
  MIN_UID = 0
  MAX_UID = 2
  Overlap = TRUE
  MaxKills = 0
  None = None
SPECIFICATION FairSpec
PROPERTIES
  SetUpEnds
