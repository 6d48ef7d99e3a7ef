SPECIFICATION DelSpec
SYMMETRY SymD
CONSTANTS
  Children = {d1, d2, d3}
  MaxChildren = 2
  MaxCrashes = 1
CHECK_DEADLOCK FALSE
INVARIANT ConsumedIsKept
