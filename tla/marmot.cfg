SPECIFICATION FairSpec
CONSTANTS
  a = a
  b = b
  Wallets = {a, b}
  Clock = {0, 1}
  MaxPackages <- OnePackage
  MaxGroups <- TwoGroups
  MaxSends <- TwoAndOne
  MaxStops = 2
INVARIANTS MarmotTyped KeyUsedOnce ReturnedOnce InOrder InvitesOpen
PROPERTIES AtLeastOnce
CHECK_DEADLOCK FALSE
