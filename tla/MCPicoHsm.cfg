CONSTANTS
  Command <- MCCommand
  Pin <- MCPin
  PinLen = 3
  BlockLen = 2
  KeyCount = 3
  LockedKeys = {1}
  MaxBlocks = 3
  McuCap = 2
  SecCap = 4
  Garbage = {1, 2, 3}
  MaxLoss = 2
  MaxGlitch = 2
  BlockCipher <- MCCipher
  BlockDecipher <- MCDecipher
  XorBlock <- MCXor
SPECIFICATION FairSpec
INVARIANTS
  TypeOK
  InStep
  NoOverrun
  NoMutualWait
PROPERTIES
  ServiceSpec
  ListensAgain
  CommandAnswered
