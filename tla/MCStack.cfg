\* Elements of two bytes, memory for five of them.
CONSTANTS
  Elems = {a, b}
  ZeroElem = ZeroElem
  Junk = Junk
  Builds = {"plain", "max", "fixed"}
  StackLimits <- MCLimits
  Default = 2
  ElemSize = 2
  Memory = 10
  SIZE_MAX = 21
  Addresses = {8, 16}
SPECIFICATION StackSpec
INVARIANT StackTypeOK
PROPERTY ImplementsLifo
