SPECIFICATION Spec
CONSTANTS
  p = p
  Payments = {p}
  Froms = {1}
  MaxReorgDepth = 1
  MaxHeight = 3
  MaxBlocks = 3
  StartHeight = 2
  MaxEvents = 1
  MaxUnseen = 1
INVARIANTS ReorgIsNoticed
CHECK_DEADLOCK FALSE
