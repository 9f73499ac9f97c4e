SPECIFICATION Spec
CONSTANTS
  a = a
  b = b
  c = c
  d1 = d1
  d2 = d2
  NoSession = NoSession
  Wallets <- ThreeWallets
  Coins <- ThreeWallets
  Deals = {d1, d2}
  Starters = {a}
  Joiners = {b, c}
  Terms <- AnyTerms
  Picks <- NotBoth
  SignerTries = 1
  PartialSigners = FALSE
  StopInHandOver = TRUE
  BlocksFound = FALSE
  MaxHalves = 1
  MaxStops = 0
  MaxGivenUp = 0
INVARIANTS SameOutcome OneTurnAtATime
CHECK_DEADLOCK FALSE
