\* Six strings, the smallest table (37 slots) and small factors: every order
\* of insertion, up to two rehashes.
CONSTANTS
  PrimeLimit = 251
  Keys = {1, 2, 3, 4, 5, 6}
  NoKey <- MCNoKey
  Null = Null
  StrLen <- MCStrLen
  HashOf <- MCHashOf
  NullTermKey = FALSE
  Uint8Max = 255
  HashSize = 1
  LoadNum = 1
  LoadDen = 8
  GrowNum = 9
  GrowDen = 8
  MaxInserts = 7
SPECIFICATION FairSpec
INVARIANTS TypeOK Reachable OneNodePerKey AssertionsHold
PROPERTIES ImplementsKeySet CallsReturn
