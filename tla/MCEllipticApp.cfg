\* Two lines that cross multiply to 12: the grid can be filled so that both
\* hold, or one of them, or none; a line may begin with an empty cell.
CONSTANTS
  Cell <- MCCell
  Position <- MCPosition
  Byte <- MCByte
  Pairs = 2
  Limit = 5
  Given <- MCGiven
  Lines <- MCLines
  Secret = 12
  OneAtATime = TRUE
  OwedBound = 2
SPECIFICATION Spec
CHECK_DEADLOCK FALSE
INVARIANTS
  TypeOK
  FlagOfAcceptedGrid
  OneReplyEach
PROPERTIES
  GridOnlyFills
