---------------------------- MODULE MCDemoService ----------------------------
(* DemoService on a small instance: two bets of the demo user, who logs in  *)
(* and may be given another wallet by POST /wallets.                        *)
EXTENDS DemoServiceProps, TLC

CONSTANTS b1, b2, player, login1, creation1

Bets == {b1, b2}
Stakes == [b \in Bet |-> 2]
Players == {player}
Bettor == [b \in Bet |-> player]
Logins == {login1}
Creations == {creation1}
Users == [k \in Opening |-> player]
\* A login opens a wallet for one bet, POST /wallets one with nothing in it.
Deposits == [k \in Opening |-> IF k \in Login THEN 3 ELSE 0]

Sym == Permutations(Bets)
=============================================================================
