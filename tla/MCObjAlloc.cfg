CONSTANTS
  Regions = 2
  OffsetMax = 7
  Limits <- MCLimits
  Requests <- MCRequests
  MaxObjs = 8
SPECIFICATION Spec
CHECK_DEADLOCK FALSE
INVARIANTS TypeOK ObjectsDisjoint RefsLead NullMeansFull
