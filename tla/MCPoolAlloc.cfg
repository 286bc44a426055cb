CONSTANTS
  SizeMax = 63
  Header = 12
  DefaultSize = 8
  Limits <- MCLimits
  Requests <- MCRequests
  MaxObjs = 4
SPECIFICATION Spec
CHECK_DEADLOCK FALSE
INVARIANTS TypeOK ObjectsDisjoint AssertionsHold
