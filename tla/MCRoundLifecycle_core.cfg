CONSTANTS
  b1 = b1
  b2 = b2
  Bet <- Bets2
  Amount <- Amounts2
  One = 2
  MinCrash = 3
  MaxCrash = 4
  MaxRounds = 2
  ManualRounds = FALSE
  SavesMayFail = TRUE
  PublishMayFail = TRUE
  ProcessMayCrash = TRUE
SPECIFICATION Spec
INVARIANTS
  TypeOK
  SingleDriver
  CrashesAtItsPoint
  
  NoticesTellTheTruth
  NoBetLeftBehind
PROPERTY
  ImplementsContract
CHECK_DEADLOCK FALSE
