--------------------------- MODULE PaymentContract ---------------------------
(***************************************************************************)
(* What the two services promise about money: a stake is taken at most once *)
(* and only for a bet that was placed, a payout is given at most once, only *)
(* for a bet that was cashed out, and it is what that bet won.  Nothing     *)
(* here says that they happen; CrashGameProps says when they do.           *)
(* CrashGame and DemoService are shown to implement this.                  *)
(***************************************************************************)
CONSTANTS
  Bet,
  Payout  \* Payout[b]: what b may win

VARIABLES
  outcome,  \* outcome[b]: "none", "open", "won" or "lost", with the payout of a win
  moves     \* what the wallets did: <<bet, "debit" or "credit", payout, times>>

payments == <<outcome, moves>>

NoOutcome == [result |-> "none", payout |-> 0]
OpenOutcome == [result |-> "open", payout |-> 0]
LostOutcome == [result |-> "lost", payout |-> 0]

PaymentInit ==
  /\ outcome = [b \in Bet |-> NoOutcome]
  /\ moves = {}

Moved(b, way) == \E move \in moves : move[1] = b /\ move[2] = way

Place(b) ==
  /\ outcome[b] = NoOutcome
  /\ outcome' = [outcome EXCEPT ![b] = OpenOutcome]
  /\ UNCHANGED moves

Win(b) ==
  /\ outcome[b] = OpenOutcome
  /\ \E payout \in Payout[b] :
       outcome' = [outcome EXCEPT ![b] = [result |-> "won", payout |-> payout]]
  /\ UNCHANGED moves

\* A crash: some of the open bets lose together.
Lose ==
  /\ \E losers \in SUBSET {b \in Bet : outcome[b] = OpenOutcome} :
       outcome' = [b \in Bet |-> IF b \in losers THEN LostOutcome ELSE outcome[b]]
  /\ UNCHANGED moves

Debit(b) ==
  /\ outcome[b] # NoOutcome
  /\ ~ Moved(b, "debit")
  /\ moves' = moves \cup {<<b, "debit", 0, 1>>}
  /\ UNCHANGED outcome

Credit(b) ==
  /\ outcome[b].result = "won"
  /\ ~ Moved(b, "credit")
  /\ moves' = moves \cup {<<b, "credit", outcome[b].payout, 1>>}
  /\ UNCHANGED outcome

PaymentNext ==
  Lose \/ \E b \in Bet : Place(b) \/ Win(b) \/ Debit(b) \/ Credit(b)

PaymentSpec == PaymentInit /\ [][PaymentNext]_payments
=============================================================================
