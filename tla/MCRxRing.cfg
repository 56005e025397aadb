\* A ring of 4 slots and two byte values.  NoByte is a model value.
CONSTANTS
  Size = 4
  Byte = {"a", "b"}
  NoByte = NoByte
  Word = 100
SPECIFICATION Spec
INVARIANTS
  TypeOK
  FetchedIsOldest
  FlushNeverWraps
PROPERTIES
  FifoSpec
