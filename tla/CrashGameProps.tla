--------------------------- MODULE CrashGameProps ---------------------------
(***************************************************************************)
(* What CrashGame is checked for.                                          *)
(***************************************************************************)
EXTENDS CrashGame

(* The mapping to the promise about money: the Bet objects of the Games    *)
(* service, and the wallet saves the Wallets service has committed.        *)
Moves == {<<e.bet, PaymentKind(e), e.winnings, applied[e]>> :
            e \in {m \in Payment : applied[m] > 0}}

Payments == INSTANCE PaymentContract WITH
  outcome <- [b \in Bet |-> OutcomeOf(bets[b])],
  moves <- Moves

\* Whatever is saved or not, lost, repeated, redelivered or restarted on either
\* side, no wallet moves but for a bet, once for each way, and a payout is what
\* that bet won.
ImplementsPayments == Payments!PaymentSpec

Applied(b, kind) == \E e \in PaymentsOf(b, kind) : applied[e] = 1

\* Nothing is left to do for the wallets.
WalletsIdle ==
  /\ consumer = "consuming"
  /\ ready \cup unacked = {}
  /\ \A t \in Wallets!Task : task[t].step = "idle"

\* "placeBet -> RabbitMQ event -> wallet debit", "cashOut -> RabbitMQ event ->
\* wallet credit": when all is done a bet has been paid for, and a win paid out,
\* unless a fault struck in one of the windows named at EndsUnpublished and
\* Struck.  A lost connection, a redelivery, or a crash anywhere else costs
\* nobody anything.
PaidUnlessStruck ==
  WalletsIdle =>
    \A b \in Bet :
      /\ bets[b].state # "ABSENT" /\ placing[b] = Idle /\ <<b, "debit">> \notin excused
           => Applied(b, "debit")
      /\ bets[b].state = "CASHED_OUT" /\ cashing[b] = Idle /\ <<b, "credit">> \notin excused
           => Applied(b, "credit")
=============================================================================
