------------------------- MODULE MCRoundRepository -------------------------
(* RoundRepository on small instances. *)
EXTENDS RoundRepositoryProps, TLC

CONSTANTS b1, b2

Bets1 == {b1}
Bets2 == {b1, b2}

Amounts1 == [b \in Bets1 |-> 3]
Amounts2 == [b \in Bets2 |-> IF b = b1 THEN 3 ELSE 2]
=============================================================================
