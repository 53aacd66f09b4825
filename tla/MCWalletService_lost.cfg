CONSTANTS
  u1 = u1
  u2 = u2
  debit1 = debit1
  credit1 = credit1
  credit2 = credit2
  lost1 = lost1
  poison1 = poison1
  request1 = request1
  User <- Users
  Registered <- MCRegistered
  Message <- MCPayments
  Request <- MCNoRequests
  Owner <- MCOwner
  Kind <- MCKind
  Amount <- MCAmount
  RoundTrip <- MCRoundTrip
  InitialBalance <- MCInitialBalance
  Malformed <- MCNone
  MaxRetries = 3
  DbMayFail = FALSE
  LinkMayBreak = FALSE
  ProcessMayCrash = FALSE
SPECIFICATION Spec
INVARIANT
  BalanceAccountsForAll
CHECK_DEADLOCK FALSE
