CONSTANTS
  b1 = b1
  b2 = b2
  NoBet = NoBet
  Bet <- Bets1
  Amount <- Amounts1
  One = 2
  MinCrash = 3
  MaxCrash = 4
  SavesMayFail = TRUE
  ProcessMayCrash = TRUE
SPECIFICATION Spec
INVARIANTS
  TypeOK
  RowsAreTrue
  PlacedBetsHaveRows
  SerialSavesPersist
CHECK_DEADLOCK FALSE
