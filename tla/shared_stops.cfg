SPECIFICATION Spec
CONSTANTS
  a = a
  b = b
  c = c
  d1 = d1
  d2 = d2
  NoSession = NoSession
  Wallets <- TwoWallets
  Coins <- PairCoins
  Deals = {d1}
  Starters = {a}
  Joiners = {b}
  Terms <- AnyTerms
  Picks <- PairEach
  SignerTries = 3
  PartialSigners = TRUE
  StopInHandOver = TRUE
  BlocksFound = TRUE
  MaxHalves = 1
  MaxStops = 2
  MaxGivenUp = 0
INVARIANTS TypeOK SignedOnlyWhenComplete PaidByConsent ReadyIsFinal DoneIsBroadcast
PROPERTIES NothingTakenBack RecordsKept
CHECK_DEADLOCK FALSE
