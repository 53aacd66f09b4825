SPECIFICATION DemoSpec
CONSTANTS
  b1 = b1
  b2 = b2
  player = player
  login1 = login1
  creation1 = creation1
  Bet <- Bets
  Amount <- Stakes
  One = 2
  MinCrash = 4
  MaxCrash = 4
  MaxRounds = 1
  ManualRounds = FALSE
  SavesMayFail = TRUE
  PublishMayFail = TRUE
  ProcessMayCrash = TRUE
  Player <- Players
  PlayerOf <- Bettor
  Login <- Logins
  Creation <- Creations
  Creator <- Users
  OpeningBalance <- Deposits
  Inexact = {3}
INVARIANTS
  DemoTypeOK
  SecondWalletNeedsOverlap
  MoneyAddsUp
PROPERTY
  ImplementsPayments
SYMMETRY Sym
CHECK_DEADLOCK FALSE
