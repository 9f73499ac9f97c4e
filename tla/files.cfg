SPECIFICATION Spec
CONSTANTS
  a = a
  b = b
  d1 = d1
  pa1 = pa1
  pa2 = pa2
  pb = pb
  NoSession = NoSession
  Wallets = {a, b}
  Coins = {a, b}
  Deals = {d1}
  Processes = {pa1, pa2, pb}
  Folder <- Where
  Starters = {a}
  Picks <- OneCoin
  MaxHalves = 2
  MaxStops = 1
  MaxOverlaps = 1
  MaxGivenUp = 1
SYMMETRY Alike
INVARIANTS NothingOwedIsLost SignedOnce PaidWhenSigned
CHECK_DEADLOCK FALSE
