SPECIFICATION GameSpec
CONSTANTS
  b1 = b1
  player1 = player1
  Bet <- Bets
  Amount <- Stakes
  One = 2
  MinCrash = 4
  MaxCrash = 4
  MaxRounds = 1
  ManualRounds = FALSE
  SavesMayFail = TRUE
  PublishMayFail = TRUE
  ProcessMayCrash = TRUE
  Player <- Players
  PlayerOf <- Bettor
  Registered <- Players
  InitialBalance <- Balances
  RoundTrip <- Lossy
  MaxRetries = 1
  DbMayFail = TRUE
  LinkMayBreak = TRUE
  WalletsMayCrash = TRUE
INVARIANTS
  GameTypeOK
  PaidUnlessStruck
PROPERTY
  ImplementsPayments
CHECK_DEADLOCK FALSE
