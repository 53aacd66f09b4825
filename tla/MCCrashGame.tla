----------------------------- MODULE MCCrashGame -----------------------------
(* CrashGame on a small instance: one bet of one player. *)
EXTENDS CrashGameProps, TLC

CONSTANTS b1, player1

Bets == {b1}
Stakes == [b \in Bet |-> 2]
Players == {player1}
Bettor == [b \in Bet |-> player1]
Balances == [p \in Player |-> 2]

\* A centavo is lost with the payout of 3.
Lossy == [e \in Payment |-> IF EventAmount(e) = 3 THEN 2 ELSE EventAmount(e)]
=============================================================================
