SPECIFICATION Spec
CONSTANTS
  p = p
  Payments = {p}
  Froms = {1}
  MaxReorgDepth = 1
  MaxHeight = 4
  MaxBlocks = 4
  StartHeight = 2
  MaxEvents = 1
  MaxUnseen = 1
INVARIANTS RescanRestores
CHECK_DEADLOCK FALSE
