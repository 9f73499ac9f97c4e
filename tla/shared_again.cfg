SPECIFICATION Spec
CONSTANTS
  a = a
  b = b
  c = c
  d1 = d1
  d2 = d2
  NoSession = NoSession
  Wallets <- TwoWallets
  Coins <- PairCoins
  Deals = {d1}
  Starters = {a, b}
  Joiners = {b}
  Terms <- OnlyFirst
  Picks <- EitherCoin
  SignerTries = 1
  PartialSigners = FALSE
  StopInHandOver = TRUE
  BlocksFound = FALSE
  MaxHalves = 2
  MaxStops = 1
  MaxGivenUp = 1
INVARIANTS OneTxPerHalf NeverRejoined Sound
PROPERTIES ImplementsPayment
CHECK_DEADLOCK FALSE
