---------------------------- MODULE MCGameClient ----------------------------
(***************************************************************************)
(* Instances of GameClient for TLC.                                        *)
(***************************************************************************)
EXTENDS GameClientProps, TLC

CONSTANTS b1, b2

Stakes == [b \in Bet |-> 1]
BetSymmetry == Permutations(Bet)
=============================================================================
