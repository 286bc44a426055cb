CONSTANTS
  Chars = {"a", "b", "/", ":"}
  Lines <- MCLines
  NoLine = NoLine
  Seps = {"/", ":"}
  UintHash <- MCUintHash
  MaxElems = 7
  MaxInserts = 4
SPECIFICATION Spec
INVARIANT PrintSucceeds
