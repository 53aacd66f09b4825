------------------------- MODULE WalletServiceProps -------------------------
(***************************************************************************)
(* What WalletService is checked for.                                      *)
(***************************************************************************)
EXTENDS WalletService

WellFormed == Message \ Malformed
Queued(m) == {c \in ready \cup unacked : c[1] = m}

\* "Idempotent consumers": whatever is redelivered after a lost connection or a
\* dead process, published again by a retry, or saved without an answer, an
\* event moves its wallet at most once.
AppliedAtMostOnce == \A m \in Message : applied[m] <= 1

\* An event moves a wallet only after it has been claimed, and while a handler
\* works on a claimed event no other handler of the same event does.
ClaimedBeforeApplied ==
  \A m \in Message :
    /\ applied[m] > 0 => m \in claimed
    /\ \A c, d \in Copy :
         /\ c[1] = m /\ d[1] = m
         /\ task[c].step \in {"find", "save"} /\ task[d].step \in {"find", "save"}
         => c = d

\* The stored balance is the initial one plus what every committed operation
\* did, unless two operations on that wallet overlapped between find and save:
\* retries, failures, crashes and answers lost after the commit add no error.
BalanceMatchesLedger ==
  \A u \in User \ raced : balance[u] = ledger[u]

\* The retries are not used up: after its first failure an event counts as
\* processed, so no copy of a well-formed event is retried twice and none ever
\* reaches a dead letter queue.
OnlyMalformedDeadLetters ==
  \A c \in ready \cup unacked \cup dlq :
    c[1] \in WellFormed => c[2] <= 1 /\ c \notin dlq

-----------------------------------------------------------------------------
\* Without failures every bet.cashed-out event is credited if its player has a
\* wallet, in whatever order the events are handled.
CreditsArrive ==
  \A m \in WellFormed :
    Kind[m] = "credit" /\ Owner[m] \in Registered =>
      (m \in published ~> applied[m] = 1)

\* Without failures every published event leaves its queue for good, and a
\* malformed one ends in the dead letter queue after its last retry.
EveryMessageEnds ==
  \A m \in Message :
    m \in published ~> IF m \in Malformed THEN <<m, MaxRetries>> \in dlq
                                          ELSE Queued(m) = {}

-----------------------------------------------------------------------------
\* "finalBalance = INITIAL - BET + WINNINGS": once nothing is in progress the
\* balance accounts for every operation that was committed.
BalanceAccountsForAll ==
  \A u \in User :
    (\A t \in Task : UserOf(t) = u => task[t].step \in {"idle", "done"}) =>
      balance[u] = ledger[u]
=============================================================================
