--------------------------- MODULE WalletService ---------------------------
(***************************************************************************)
(* The Wallets service: the RabbitMQ consumer with its retries, claims and *)
(* dead letters (services/wallets/src/infrastructure/rabbitmq), the debit  *)
(* and credit use cases it shares with the HTTP API, and the wallet and    *)
(* consumed_events tables.                                                 *)
(*                                                                         *)
(* The consumer sets no prefetch, so all delivered messages are handled    *)
(* concurrently, each handler cut at its three database calls: claim the   *)
(* event, find the wallet, save the wallet.  The broker is external: it    *)
(* keeps a message until it is acked and puts what was delivered but not   *)
(* acked back when the connection is gone.                                 *)
(*                                                                         *)
(* Definitions with an underscore in their name are mistakes, see          *)
(* RoundAggregate.                                                         *)
(***************************************************************************)
EXTENDS Integers

CONSTANTS
  User,
  Registered,      \* users who have a wallet
  Message,         \* events of the Games service, by eventId
  Request,         \* calls of POST /wallets/:userId/debit and /credit
  Owner,           \* Owner[o]: whose wallet message or request o is about
  Kind,            \* "debit" (bet.placed), "credit" (bet.cashed-out), "none" (bet.lost)
  Amount,          \* Amount[o]: in centavos
  RoundTrip,       \* RoundTrip[o]: floor((Amount[o] / 100) * 100) in doubles
  InitialBalance,  \* InitialBalance[u]: in centavos
  Malformed,       \* messages whose content JSON.parse rejects
  MaxRetries,      \* MAX_RETRIES
  DbMayFail,       \* database calls may reject
  LinkMayBreak,    \* the broker connection may be lost
  ProcessMayCrash  \* the process may die

Operation == Message \cup Request

ASSUME OperationAssumption ==
  /\ Message \cap Request = {}
  /\ Registered \subseteq User
  /\ Owner \in [Operation -> User]
  /\ Kind \in [Operation -> {"debit", "credit", "none"}]
  /\ \A q \in Request : Kind[q] # "none"
  /\ Malformed \subseteq Message
\* handleBetPlaced divides by 100 and Money.fromMainUnit multiplies by 100 and
\* rounds down, which may lose a centavo but never the last one.
ASSUME AmountAssumption ==
  /\ Amount \in [Operation -> Nat]
  /\ RoundTrip \in [Operation -> Nat \ {0}]
  /\ \A o \in Operation : RoundTrip[o] \in {Amount[o], Amount[o] - 1}
  /\ InitialBalance \in [User -> Nat]
ASSUME RetryAssumption == MaxRetries \in Nat \ {0}
ASSUME SwitchAssumption ==
  {DbMayFail, LinkMayBreak, ProcessMayCrash} \subseteq BOOLEAN

\* A delivery is a message with its x-retry-count header.
Copy == Message \X (0 .. MaxRetries)
Task == Copy \cup Request

ASSUME TaskAssumption == Copy \cap Request = {}

OperationOf(t) == IF t \in Request THEN t ELSE t[1]
UserOf(t) == Owner[OperationOf(t)]

VARIABLES
  consumer,   \* "down", "consuming", or "deaf": running without a channel
  published,  \* messages the Games service has published
  ready,      \* copies waiting in the queues
  unacked,    \* copies delivered and not acked
  dlq,        \* copies in the dead letter queues
  claimed,    \* consumed_events
  balance,    \* the balance column of each wallet
  task,       \* the handler of each copy and request
  applied,    \* history: committed wallet saves of each operation
  ledger,     \* history: what each balance would be, had no save been lost
  version,    \* history: committed saves of each wallet
  raced       \* history: users with a save that was based on a stale balance

vars == <<consumer, published, ready, unacked, dlq, claimed, balance, task,
          applied, ledger, version, raced>>
broker == <<published, ready, unacked, dlq>>
wallets == <<balance, applied, ledger, version, raced>>

TaskRecord == [step : {"idle", "claim", "find", "save", "done"},
               balance : Nat, version : Nat]
IdleTask == [step |-> "idle", balance |-> 0, version |-> 0]
DoneTask == [IdleTask EXCEPT !.step = "done"]
At(step) == [IdleTask EXCEPT !.step = step]

TypeOK ==
  /\ consumer \in {"down", "consuming", "deaf"}
  /\ published \subseteq Message
  /\ ready \subseteq Copy /\ unacked \subseteq Copy /\ dlq \subseteq Copy
  /\ claimed \subseteq Message
  /\ balance \in [User -> Nat]
  /\ task \in [Task -> TaskRecord]
  /\ applied \in [Operation -> Nat]
  /\ ledger \in [User -> Int]
  /\ version \in [User -> Nat]
  /\ raced \subseteq User

Init ==
  /\ consumer = "down"
  /\ published = {} /\ ready = {} /\ unacked = {} /\ dlq = {}
  /\ claimed = {}
  /\ balance = InitialBalance
  /\ task = [t \in Task |-> IdleTask]
  /\ applied = [o \in Operation |-> 0]
  /\ ledger = InitialBalance
  /\ version = [u \in User |-> 0]
  /\ raced = {}

-----------------------------------------------------------------------------
(* How handleMessage ends *)

\* A handled message leaves nothing behind; a request has had its answer.
Ended(t) == task' = [task EXCEPT ![t] = IF t \in Request THEN DoneTask ELSE IdleTask]

\* channel.ack; without a channel the broker has taken the copy back already.
Succeed(t) ==
  /\ Ended(t)
  /\ unacked' = unacked \ {t}
  /\ UNCHANGED <<published, ready, dlq>>

\* The catch block: nack to the dead letters, or publish the copy of the next
\* retry, then ack.  Without a channel neither reaches the broker.
Fail(t) ==
  /\ Ended(t)
  /\ UNCHANGED published
  /\ IF t \notin unacked
       THEN UNCHANGED <<ready, unacked, dlq>>
       ELSE /\ unacked' = unacked \ {t}
            /\ IF t[2] >= MaxRetries
                 THEN dlq' = dlq \cup {t} /\ UNCHANGED ready
                 ELSE ready' = ready \cup {<<t[1], t[2] + 1>>} /\ UNCHANGED dlq

-----------------------------------------------------------------------------
(* Delivery and requests *)

\* The Games service (external here) sends an event to its queue.
Publish(m) ==
  /\ m \notin published
  /\ published' = published \cup {m}
  /\ ready' = ready \cup {<<m, 0>>}
  /\ UNCHANGED <<consumer, unacked, dlq, claimed, task, wallets>>

Deliver(c) ==
  /\ consumer = "consuming"
  /\ c \in ready
  /\ task[c].step = "idle"
  /\ c[1] \notin Malformed
  /\ ready' = ready \ {c}
  /\ unacked' = unacked \cup {c}
  /\ task' = [task EXCEPT ![c] = At("claim")]
  /\ UNCHANGED <<consumer, published, dlq, claimed, wallets>>

DeliverMalformed_sameCount(c) ==
  /\ consumer = "consuming"
  /\ c \in ready
  /\ c[1] \in Malformed
  /\ UNCHANGED vars

\* JSON.parse throws before the first await: delivery and catch block are one step.
DeliverMalformed(c) ==
  /\ consumer = "consuming"
  /\ c \in ready
  /\ c[1] \in Malformed
  /\ IF c[2] >= MaxRetries
       THEN dlq' = dlq \cup {c} /\ ready' = ready \ {c}
       ELSE ready' = (ready \ {c}) \cup {<<c[1], c[2] + 1>>} /\ UNCHANGED dlq
  /\ UNCHANGED <<consumer, published, unacked, claimed, task, wallets>>

RequestArrives(q) ==
  /\ consumer # "down"
  /\ task[q].step = "idle"
  /\ task' = [task EXCEPT ![q] = At("find")]
  /\ UNCHANGED <<consumer, broker, claimed, wallets>>

-----------------------------------------------------------------------------
(* tryClaimEvent, as the handlers of the three event types use it *)

Claimed_ignoresDuplicate(c) == TRUE
Claimed_inverted(c) == c[1] \in claimed

\* The INSERT succeeds iff the event id is not in the table yet.
Claimed(c) == c[1] \notin claimed

\* bet.placed and bet.cashed-out go on to the wallet, bet.lost is done.
ClaimWon(c) ==
  /\ task[c].step = "claim"
  /\ Claimed(c)
  /\ claimed' = claimed \cup {c[1]}
  /\ IF Kind[c[1]] = "none"
       THEN Succeed(c)
       ELSE task' = [task EXCEPT ![c] = At("find")] /\ UNCHANGED broker
  /\ UNCHANGED <<consumer, wallets>>

\* "already processed - skipping"
ClaimLost(c) ==
  /\ task[c].step = "claim"
  /\ ~ Claimed(c)
  /\ Succeed(c)
  /\ UNCHANGED <<consumer, claimed, wallets>>

\* Any error of the INSERT, whether or not the row got in, counts as a
\* duplicate: tryClaimEvent returns false and the message is acked.
ClaimError(c) ==
  /\ DbMayFail
  /\ task[c].step = "claim"
  /\ claimed' \in {claimed, claimed \cup {c[1]}}
  /\ Succeed(c)
  /\ UNCHANGED <<consumer, wallets>>

-----------------------------------------------------------------------------
(* DebitWalletUseCase and CreditWalletUseCase *)

Sufficient_always(t, funds) == TRUE

\* hasSufficientFunds
Sufficient(t, funds) ==
  Kind[OperationOf(t)] = "debit" => funds >= RoundTrip[OperationOf(t)]

\* withdraw or deposit
After(t, funds) ==
  IF Kind[OperationOf(t)] = "debit" THEN funds - RoundTrip[OperationOf(t)]
                                    ELSE funds + RoundTrip[OperationOf(t)]

\* "Wallet not found" or "Insufficient funds": the use case throws.
Refused(t) ==
  \/ UserOf(t) \notin Registered
  \/ ~ Sufficient(t, balance[UserOf(t)])

FindWallet(t) ==
  LET u == UserOf(t) IN
    /\ task[t].step = "find"
    /\ ~ Refused(t)
    /\ task' = [task EXCEPT ![t] =
                  [step |-> "save", balance |-> balance[u], version |-> version[u]]]
    /\ UNCHANGED <<consumer, broker, claimed, wallets>>

FindRefused(t) ==
  /\ task[t].step = "find"
  /\ Refused(t)
  /\ Fail(t)
  /\ UNCHANGED <<consumer, claimed, wallets>>

FindError(t) ==
  /\ DbMayFail
  /\ task[t].step = "find"
  /\ Fail(t)
  /\ UNCHANGED <<consumer, claimed, wallets>>

Commit_savesFound(t) ==
  LET u == UserOf(t) IN
    /\ balance' = [balance EXCEPT ![u] = task[t].balance]
    /\ applied' = [applied EXCEPT ![OperationOf(t)] = @ + 1]
    /\ ledger' = [ledger EXCEPT ![u] = After(t, @)]
    /\ version' = [version EXCEPT ![u] = @ + 1]
    /\ raced' = IF task[t].version = version[u] THEN raced ELSE raced \cup {u}

\* The save writes the absolute balance computed from the one that was found.
Commit(t) ==
  LET u == UserOf(t) IN
    /\ balance' = [balance EXCEPT ![u] = After(t, task[t].balance)]
    /\ applied' = [applied EXCEPT ![OperationOf(t)] = @ + 1]
    /\ ledger' = [ledger EXCEPT ![u] = After(t, @)]
    /\ version' = [version EXCEPT ![u] = @ + 1]
    /\ raced' = IF task[t].version = version[u] THEN raced ELSE raced \cup {u}

SaveWallet(t) ==
  /\ task[t].step = "save"
  /\ Commit(t)
  /\ Succeed(t)
  /\ UNCHANGED <<consumer, claimed>>

\* The save rejects, before or after it has been committed.
SaveError(t) ==
  /\ DbMayFail
  /\ task[t].step = "save"
  /\ Commit(t) \/ UNCHANGED wallets
  /\ Fail(t)
  /\ UNCHANGED <<consumer, claimed>>

-----------------------------------------------------------------------------
(* The connection and the process *)

\* The broker takes back what was not acked; handlers go on without a channel.
\* Nothing reconnects.
LinkBreaks ==
  /\ LinkMayBreak
  /\ consumer = "consuming"
  /\ consumer' = "deaf"
  /\ ready' = ready \cup unacked
  /\ unacked' = {}
  /\ UNCHANGED <<published, dlq, claimed, task, wallets>>

\* ... in the middle of the catch block: the retry reached the broker, the ack
\* did not.
LinkBreaksInRetry(c) ==
  /\ LinkMayBreak
  /\ consumer = "consuming"
  /\ c \in unacked /\ c[2] < MaxRetries
  /\ \/ /\ task[c].step = "find"
        /\ DbMayFail \/ Refused(c)
        /\ UNCHANGED wallets
     \/ /\ task[c].step = "save"
        /\ DbMayFail
        /\ Commit(c) \/ UNCHANGED wallets
  /\ consumer' = "deaf"
  /\ ready' = ready \cup unacked \cup {<<c[1], c[2] + 1>>}
  /\ unacked' = {}
  /\ task' = [task EXCEPT ![c] = IdleTask]
  /\ UNCHANGED <<published, dlq, claimed>>

\* The queues are durable, the events in them are not: the Games service sends
\* them without `persistent`, which only the copies of a retry have.
BrokerRestarts ==
  /\ LinkMayBreak
  /\ consumer' = IF consumer = "consuming" THEN "deaf" ELSE consumer
  /\ ready' = {c \in ready \cup unacked : c[2] > 0}
  /\ unacked' = {}
  /\ UNCHANGED <<published, dlq, claimed, task, wallets>>

Crash_autoAck ==
  /\ ProcessMayCrash
  /\ consumer # "down"
  /\ consumer' = "down"
  /\ unacked' = {}
  /\ task' = [t \in Task |-> IF t \in Request /\ task[t].step # "idle"
                               THEN DoneTask ELSE IdleTask]
  /\ UNCHANGED <<published, ready, dlq, claimed, wallets>>

Crash ==
  /\ ProcessMayCrash
  /\ consumer # "down"
  /\ consumer' = "down"
  /\ ready' = ready \cup unacked
  /\ unacked' = {}
  /\ task' = [t \in Task |-> IF t \in Request /\ task[t].step # "idle"
                               THEN DoneTask ELSE IdleTask]
  /\ UNCHANGED <<published, dlq, claimed, wallets>>

\* startConsuming; an error is logged and the service runs without consuming.
Start ==
  /\ consumer = "down"
  /\ consumer' \in {"consuming"} \cup (IF LinkMayBreak THEN {"deaf"} ELSE {})
  /\ UNCHANGED <<broker, claimed, task, wallets>>

-----------------------------------------------------------------------------

ClaimStep(c) == ClaimWon(c) \/ ClaimLost(c) \/ ClaimError(c)

WalletStep(t) ==
  \/ FindWallet(t) \/ FindRefused(t) \/ FindError(t)
  \/ SaveWallet(t) \/ SaveError(t)

Next ==
  \/ \E m \in Message : Publish(m)
  \/ \E c \in Copy : Deliver(c) \/ DeliverMalformed(c) \/ ClaimStep(c)
  \/ \E q \in Request : RequestArrives(q)
  \/ \E t \in Task : WalletStep(t)
  \/ LinkBreaks
  \/ \E c \in Copy : LinkBreaksInRetry(c)
  \/ BrokerRestarts
  \/ Crash
  \/ Start

Spec == Init /\ [][Next]_vars

\* The broker delivers what waits in a queue with a consumer, the database
\* answers every call, and the service is started.
Fairness ==
  /\ WF_vars(Start)
  /\ \A c \in Copy :
       WF_vars(Deliver(c) \/ DeliverMalformed(c)) /\ WF_vars(ClaimStep(c))
  /\ \A t \in Task : WF_vars(WalletStep(t))

FairSpec == Spec /\ Fairness
=============================================================================
