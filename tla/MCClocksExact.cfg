CONSTANTS
  Lim = 3
  Kinds <- MCKinds
  Settable <- MCKinds
  SizeRange = 64
  Horizon = 7
  MaxInserts = 2
  MaxBack = 0
SPECIFICATION ClocksSpec
CHECK_DEADLOCK FALSE
INVARIANTS TotalsExact
