--------------------------- MODULE MCWalletService ---------------------------
(* WalletService on small instances. *)
EXTENDS WalletServiceProps, TLC

CONSTANTS u1, u2, debit1, credit1, credit2, lost1, poison1, request1

\* u2 has no wallet.
Users == {u1, u2}
MCRegistered == {u1}
MCMessages == {debit1, credit1, credit2, lost1, poison1}
MCPayments == {debit1, credit1, poison1}
MCOne == {credit1}
MCRequests == {request1}
MCNoRequests == {}
MCPoison == {poison1}
MCNone == {}

\* A debit of 115 centavos is applied as 114; the amounts only need to show
\* whether a centavo is lost, so 3 stands for 115 and 2 for its round trip.
MCAmount ==
  [o \in Operation |-> IF o = debit1 THEN 3 ELSE 2]
MCRoundTrip ==
  [o \in Operation |-> 2]
MCKind ==
  [o \in Operation |-> CASE o \in {debit1, request1} -> "debit"
                         [] o = lost1 -> "none"
                         [] OTHER -> "credit"]
MCOwner == [o \in Operation |-> IF o = credit2 THEN u2 ELSE u1]
MCInitialBalance == [u \in Users |-> 2]
=============================================================================
