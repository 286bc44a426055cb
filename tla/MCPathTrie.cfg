CONSTANTS
  Chars = {"a", "b", "/", ":"}
  Lines <- MCLines
  NoLine = NoLine
  Seps = {"/", ":"}
  UintHash <- MCUintHash
  MaxElems = 7
  MaxInserts = 4
SPECIFICATION FairSpec
INVARIANTS TypeOK PrintsAll
PROPERTIES ImplementsKeySet OnlyGrows CallsReturn
