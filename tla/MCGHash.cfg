\* Five keys, tables of 11 to 29 buckets, three overflow entries.
CONSTANTS
  Keys = {1, 2, 3, 4, 5}
  NoKey <- MCNoKey
  Junk = Junk
  HashOf <- MCHashOf
  Tunings <- MCTunings
  Candidates = {1, 4}
  Ops = {"insert", "lookup", "delete", "clear", "rehash"}
  MaxEntries = 3
  SizeRange = 4
SPECIFICATION FairSpec
INVARIANTS TypeOK TablesRight EntriesAccounted AssertionsHold
PROPERTIES ImplementsDictionary CallsReturn
