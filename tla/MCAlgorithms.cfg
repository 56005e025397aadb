\* Three nodes, any two of which hold the key: as many as the product of two
\* shares needs.  A word of eight bits wraps on three digits.
CONSTANTS
  P = 5
  K = 2
  Node = {1, 2, 3}
  Bits = {0, 1}
  Secrets = {2, 4}
  Hashes = {3}
  XOf <- MCXOf
  Word = 256
  RAND_MAX = 6
  SECRET_SIZE = 3
SPECIFICATION AlgorithmsSpec
CHECK_DEADLOCK FALSE
INVARIANTS
  AesStandard
  AesInverts
  ResultsExact
  SignatureVerifies
