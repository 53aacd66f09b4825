SPECIFICATION Spec
CONSTANTS
  b1 = b1
  b2 = b2
  Bet = {b1}
  Amount <- Stakes
  One = 1
  MinCrash = 3
  MaxCrash = 3
  NoBet = NoBet
  MaxRounds = 2
  MaxConnections = 2
  MaxNet = 1
  MayFail = FALSE
INVARIANTS
  QuietPageIsInSync
  ShownPositionIsOpen
CHECK_DEADLOCK FALSE
