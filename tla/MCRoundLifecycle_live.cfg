CONSTANTS
  b1 = b1
  b2 = b2
  Bet <- Bets2
  Amount <- Amounts2
  One = 2
  MinCrash = 3
  MaxCrash = 4
  MaxRounds = 2
  ManualRounds = FALSE
  SavesMayFail = FALSE
  PublishMayFail = FALSE
  ProcessMayCrash = FALSE
SPECIFICATION FairSpec
PROPERTIES
  RoundsKeepComing
  EveryBetSettles
  EveryBetIsDebited
CHECK_DEADLOCK FALSE
