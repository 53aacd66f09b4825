SPECIFICATION Spec
CONSTANTS
  b1 = b1
  b2 = b2
  Bet = {b1, b2}
  Amount <- Stakes
  One = 1
  MinCrash = 3
  MaxCrash = 3
  NoBet = NoBet
  MaxRounds = 2
  MaxConnections = 1
  MaxNet = 2
  MayFail = TRUE
SYMMETRY BetSymmetry
INVARIANTS
  TypeOK
  ShownOutcomesAreTrue
PROPERTY
  AsksNoMoreThanReached
CHECK_DEADLOCK FALSE
