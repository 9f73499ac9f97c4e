SPECIFICATION FairSpec
CONSTANTS
  Participants = {1, 2}
  Processes = {1, 2, 3}
  Name <- TwoAsOne
  SendAttempts = 2
  Clock = {0, 1}
  MaxSends <- TwoAndOne
  MaxStops = 1
INVARIANTS FilesTyped InOrder NeverTwice
PROPERTIES AllDelivered NoneLeftBehind
CHECK_DEADLOCK FALSE
