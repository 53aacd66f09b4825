----------------------------- MODULE BetOutcome -----------------------------
(***************************************************************************)
(* What the payments depend on in the game of RoundLifecycle: how a bet    *)
(* ended and what it won.  Shared by the two deployments, CrashGame and    *)
(* DemoService.                                                            *)
(***************************************************************************)
EXTENDS RoundLifecycle

\* A cash-out is below the crash point.
Payout == [b \in Bet |-> {Winnings(Amount[b], m) : m \in One .. MaxCrash - 1}]

OutcomeOf(bet) ==
  [result |-> CASE bet.state = "ABSENT" -> "none"
                [] bet.state = "PENDING" -> "open"
                [] bet.state = "CASHED_OUT" -> "won"
                [] bet.state = "LOST" -> "lost",
   payout |-> bet.winnings]
=============================================================================
