\* Two bits to a byte: a line of five bytes carries into the high byte, and
\* a pointer that starts at 14 wraps.
CONSTANTS
  Byte <- MCByte
  Base = 4
  TxSize = 8
  Start = {0, 14}
  Banner <- MCBanner
  Answers <- MCAnswers
  Line <- MCLine
  ReadMax = 8
  None = None
SPECIFICATION FairSpec
INVARIANTS
  TypeOK
  PanicOnlyIfLeft
  StableHeld
PROPERTIES
  InboundSpec
  OutboundSpec
  AwaitsAgain
