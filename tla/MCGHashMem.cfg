\* Insertions alone, with one growth.
CONSTANTS
  Keys = {1, 2, 3, 4, 5}
  NoKey <- MCNoKey
  Junk = Junk
  HashOf <- MCHashOf
  Tunings <- MCShrinking
  Candidates = {1, 4}
  Ops = {"insert", "lookup"}
  MaxEntries = 3
  SizeRange = 4
SPECIFICATION FairSpec
INVARIANT MemRight
