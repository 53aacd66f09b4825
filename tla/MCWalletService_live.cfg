CONSTANTS
  u1 = u1
  u2 = u2
  debit1 = debit1
  credit1 = credit1
  credit2 = credit2
  lost1 = lost1
  poison1 = poison1
  request1 = request1
  User <- Users
  Registered <- MCRegistered
  Message <- MCMessages
  Request <- MCRequests
  Owner <- MCOwner
  Kind <- MCKind
  Amount <- MCAmount
  RoundTrip <- MCRoundTrip
  InitialBalance <- MCInitialBalance
  Malformed <- MCPoison
  MaxRetries = 3
  DbMayFail = FALSE
  LinkMayBreak = FALSE
  ProcessMayCrash = FALSE
SPECIFICATION FairSpec
PROPERTIES
  CreditsArrive
  EveryMessageEnds
CHECK_DEADLOCK FALSE
