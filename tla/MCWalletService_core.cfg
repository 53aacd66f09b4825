CONSTANTS
  u1 = u1
  u2 = u2
  debit1 = debit1
  credit1 = credit1
  credit2 = credit2
  lost1 = lost1
  poison1 = poison1
  request1 = request1
  User <- Users
  Registered <- MCRegistered
  Message <- MCPayments
  Request <- MCRequests
  Owner <- MCOwner
  Kind <- MCKind
  Amount <- MCAmount
  RoundTrip <- MCRoundTrip
  InitialBalance <- MCInitialBalance
  Malformed <- MCPoison
  MaxRetries = 3
  DbMayFail = TRUE
  LinkMayBreak = TRUE
  ProcessMayCrash = TRUE
SPECIFICATION Spec
INVARIANTS
  TypeOK
  AppliedAtMostOnce
  BalanceMatchesLedger
  
CHECK_DEADLOCK FALSE
