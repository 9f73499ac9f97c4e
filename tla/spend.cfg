SPECIFICATION Spec
CONSTANTS
  d1 = d1
  d2 = d2
  other = other
  p1 = p1
  p2 = p2
  p3 = p3
  own = own
  Address = Address
  Order <- Listed
  OwnCoins = {own}
  Devices = {d1, d2}
  Codes = {d1, d2, other}
  KeyOf <- Keys
  Value <- Amounts
  Asks <- ThreeAsks
  MaxInputs = 2
  MaxDrafts = 1
  MaxFaults = 1
  MaxEvents = 1
INVARIANTS SpendTyped PaidAsAsked SignedByOwner NeverShort RefusedOnlyWhenPoor DraftCanBePaid
CHECK_DEADLOCK FALSE
