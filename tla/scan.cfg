SPECIFICATION Spec
CONSTANTS
  p = p
  Payments = {p}
  Froms = {2}
  MaxReorgDepth = 1
  MaxHeight = 3
  MaxBlocks = 4
  StartHeight = 1
  MaxEvents = 2
  MaxUnseen = 1
INVARIANTS ScanTyped FoundIsStored NoneMissed WatermarkTells NothingStale
CHECK_DEADLOCK FALSE
