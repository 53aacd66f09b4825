-------------------------- MODULE MCRoundLifecycle --------------------------
(* RoundLifecycle on small instances. *)
EXTENDS RoundLifecycleProps, TLC

CONSTANTS b1, b2

Bets1 == {b1}
Bets2 == {b1, b2}

\* 3 * 3 \div 2 and 1 * 3 \div 2 round down, 2 * 3 \div 2 does not.
Amounts1 == [b \in Bets1 |-> 3]
Amounts2 == [b \in Bets2 |-> IF b = b1 THEN 3 ELSE 2]
=============================================================================
