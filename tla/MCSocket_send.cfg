CONSTANTS
  Byte <- MCByte
  Base = 4
  TxSize = 8
  Start = {0, 14}
  Banner <- MCBanner
  Answers <- MCAnswers
  Line <- MCLine
  ReadMax = 8
  None = None
SPECIFICATION Spec
PROPERTIES
  WrittenSpec
