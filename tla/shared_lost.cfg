SPECIFICATION FairSpec
CONSTANTS
  a = a
  b = b
  c = c
  d1 = d1
  d2 = d2
  NoSession = NoSession
  Wallets <- TwoWallets
  Coins <- TwoWallets
  Deals = {d1}
  Starters = {a}
  Joiners = {b}
  Terms <- AnyTerms
  Picks <- OneCoinEach
  SignerTries = 3
  PartialSigners = FALSE
  StopInHandOver = TRUE
  BlocksFound = FALSE
  MaxHalves = 1
  MaxStops = 1
  MaxGivenUp = 0
PROPERTIES EverySendEnds
CHECK_DEADLOCK FALSE
