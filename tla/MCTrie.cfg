CONSTANTS
  Keys <- MCKeys
  NoKey = NoKey
  MaxInserts = 4
SPECIFICATION FairSpec
INVARIANTS TypeOK PrintsSorted PrintsElement
PROPERTIES ImplementsKeySet CallsReturn
