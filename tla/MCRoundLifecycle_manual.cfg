CONSTANTS
  b1 = b1
  b2 = b2
  Bet <- Bets1
  Amount <- Amounts1
  One = 2
  MinCrash = 4
  MaxCrash = 5
  MaxRounds = 3
  ManualRounds = TRUE
  SavesMayFail = FALSE
  PublishMayFail = TRUE
  ProcessMayCrash = FALSE
SPECIFICATION Spec
INVARIANTS
  BetsSettleWithRound
PROPERTY
  OnlyCurrentRoundMoves
CHECK_DEADLOCK FALSE
