------------------------ MODULE WalletService_proof ------------------------
(***************************************************************************)
(* Proofs about WalletService for every value of its constants.            *)
(***************************************************************************)
EXTENDS WalletServiceProps, TLAPS

USE OperationAssumption, AmountAssumption, RetryAssumption, SwitchAssumption,
    TaskAssumption

-----------------------------------------------------------------------------
(* Helpers *)

\* A task is about one operation of one user.
LEMMA TaskType ==
  \A t \in Task : OperationOf(t) \in Operation /\ UserOf(t) \in User
BY DEF Task, Copy, Operation, OperationOf, UserOf

\* A copy is about its message, a request about itself.
LEMMA TaskOperation ==
  /\ \A c \in Copy : OperationOf(c) = c[1] /\ c[1] \in Message /\ c[2] \in 0 .. MaxRetries
  /\ \A q \in Request : OperationOf(q) = q /\ q \notin Message
BY DEF Task, Copy, Operation, OperationOf

\* The three shapes of an idle record.
LEMMA TaskRecords ==
  /\ IdleTask \in TaskRecord /\ IdleTask.step = "idle"
  /\ DoneTask \in TaskRecord /\ DoneTask.step = "done"
  /\ At("claim") \in TaskRecord /\ At("claim").step = "claim"
  /\ At("find") \in TaskRecord /\ At("find").step = "find"
BY DEF TaskRecord, IdleTask, DoneTask, At

\* The next retry of a copy that has one left is a copy.
LEMMA RetryType ==
  ASSUME NEW c \in Copy, c[2] < MaxRetries
  PROVE  <<c[1], c[2] + 1>> \in Copy
BY DEF Copy

-----------------------------------------------------------------------------
(* Type correctness.  The one fact that is not a matter of types: a debit is *)
(* only saved from a balance that covers it, so no balance is negative.      *)

Covered == \A t \in Task : task[t].step = "save" => Sufficient(t, task[t].balance)

TypeInv == TypeOK /\ Covered

\* Ending a handler keeps the record of every task well-formed.
LEMMA EndedType ==
  ASSUME TypeInv, NEW t \in Task, Ended(t)
  PROVE  /\ task' \in [Task -> TaskRecord]
         /\ \A x \in Task : task'[x].step = "save" => x # t /\ task'[x] = task[x]
BY TaskRecords DEF TypeInv, TypeOK, Ended

\* Every way for a handler to end keeps the queues well-formed.
LEMMA FailType ==
  ASSUME TypeInv, NEW t \in Task, Fail(t)
  PROVE  published' \subseteq Message /\ ready' \subseteq Copy /\ unacked' \subseteq Copy /\ dlq' \subseteq Copy
<1>1. CASE t \notin unacked
  BY <1>1 DEF TypeInv, TypeOK, Fail
<1>2. CASE t \in unacked
  <2>1. t \in Copy
    BY <1>2 DEF TypeInv, TypeOK
  <2>2. ~ t[2] >= MaxRetries => t[2] < MaxRetries
    BY <2>1, TaskOperation
  <2> QED
    BY <1>2, <2>1, <2>2, RetryType DEF TypeInv, TypeOK, Fail
<1> QED BY <1>1, <1>2

\* The end of a handler keeps the broker and the handlers well typed.
LEMMA SucceedType ==
  ASSUME TypeInv, NEW t \in Task, Succeed(t)
  PROVE  published' \subseteq Message /\ ready' \subseteq Copy /\ unacked' \subseteq Copy /\ dlq' \subseteq Copy
BY DEF TypeInv, TypeOK, Succeed

\* A committed save keeps the wallets well-formed.
LEMMA CommitType ==
  ASSUME TypeInv, NEW t \in Task, task[t].step = "save", Commit(t)
  PROVE  /\ balance' \in [User -> Nat]
         /\ applied' \in [Operation -> Nat]
         /\ ledger' \in [User -> Int]
         /\ version' \in [User -> Nat]
         /\ raced' \subseteq User
<1> DEFINE o == OperationOf(t)
           u == UserOf(t)
<1>1. o \in Operation /\ u \in User
  BY TaskType
<1>2. task[t] \in TaskRecord
  BY DEF TypeInv, TypeOK
<1>3. task[t].balance \in Nat
  BY <1>2 DEF TaskRecord
<1>4. Sufficient(t, task[t].balance)
  BY DEF TypeInv, Covered
<1>5. After(t, task[t].balance) \in Nat
  BY <1>1, <1>3, <1>4 DEF After, Sufficient
<1>6. After(t, ledger[u]) \in Int
  BY <1>1 DEF After, TypeInv, TypeOK
<1> QED
  BY <1>1, <1>5, <1>6 DEF Commit, TypeInv, TypeOK

\* ... and so does a step that leaves them alone.
LEMMA WalletsType ==
  ASSUME TypeInv, UNCHANGED wallets
  PROVE  /\ balance' \in [User -> Nat]
         /\ applied' \in [Operation -> Nat]
         /\ ledger' \in [User -> Int]
         /\ version' \in [User -> Nat]
         /\ raced' \subseteq User
BY DEF TypeInv, TypeOK, wallets

\* The initial state satisfies the type invariant.
LEMMA TypeInvInit == Init => TypeInv
<1> SUFFICES ASSUME Init PROVE TypeInv
  OBVIOUS
<1>1. TypeOK
  BY TaskRecords DEF Init, TypeOK
<1>2. Covered
  BY TaskRecords DEF Init, Covered
<1> QED BY <1>1, <1>2 DEF TypeInv

\* Every step preserves the type invariant.
LEMMA TypeInvStep == TypeInv /\ [Next]_vars => TypeInv'
<1> SUFFICES ASSUME TypeInv, [Next]_vars PROVE TypeInv'
  OBVIOUS
<1> USE DEF TypeInv
<1>1. ASSUME NEW m \in Message, Publish(m) PROVE TypeInv'
  BY <1>1 DEF Publish, TypeOK, Covered, wallets, Copy, Sufficient
<1>2. ASSUME NEW c \in Copy, Deliver(c) PROVE TypeInv'
  BY <1>2, TaskRecords DEF Deliver, TypeOK, Covered, wallets, Task, Sufficient
<1>3. ASSUME NEW c \in Copy, DeliverMalformed(c) PROVE TypeInv'
  <2>1. ~ c[2] >= MaxRetries => <<c[1], c[2] + 1>> \in Copy
    BY TaskOperation, RetryType
  <2> QED
    BY <1>3, <2>1 DEF DeliverMalformed, TypeOK, Covered, wallets, Sufficient
<1>4. ASSUME NEW c \in Copy, ClaimWon(c) PROVE TypeInv'
  <2>1. c \in Task /\ c[1] \in Message
    BY TaskOperation DEF Task
  <2>2. CASE Kind[c[1]] = "none"
    BY <1>4, <2>1, <2>2, EndedType, SucceedType, WalletsType
    DEF ClaimWon, TypeOK, Covered, Sufficient, Succeed
  <2>3. CASE Kind[c[1]] # "none"
    BY <1>4, <2>1, <2>3, TaskRecords, WalletsType
    DEF ClaimWon, TypeOK, Covered, Sufficient, broker
  <2> QED BY <2>2, <2>3
<1>5. ASSUME NEW c \in Copy, ClaimLost(c) PROVE TypeInv'
  <2>1. c \in Task /\ c[1] \in Message
    BY TaskOperation DEF Task
  <2> QED
    BY <1>5, <2>1, EndedType, SucceedType, WalletsType
    DEF ClaimLost, TypeOK, Covered, Sufficient, Succeed
<1>6. ASSUME NEW c \in Copy, ClaimError(c) PROVE TypeInv'
  <2>1. c \in Task /\ c[1] \in Message
    BY TaskOperation DEF Task
  <2> QED
    BY <1>6, <2>1, EndedType, SucceedType, WalletsType
    DEF ClaimError, TypeOK, Covered, Sufficient, Succeed
<1>7. ASSUME NEW q \in Request, RequestArrives(q) PROVE TypeInv'
  BY <1>7, TaskRecords, WalletsType
  DEF RequestArrives, TypeOK, Covered, Sufficient, broker, Task
<1>8. ASSUME NEW t \in Task, FindWallet(t) PROVE TypeInv'
  <2>1. UserOf(t) \in User
    BY TaskType
  <2>2. [step |-> "save", balance |-> balance[UserOf(t)],
         version |-> version[UserOf(t)]] \in TaskRecord
    BY <2>1 DEF TypeOK, TaskRecord
  <2> QED
    BY <1>8, <2>1, <2>2, WalletsType
    DEF FindWallet, Refused, TypeOK, Covered, Sufficient, broker
<1>9. ASSUME NEW t \in Task, FindRefused(t) \/ FindError(t) PROVE TypeInv'
  BY <1>9, EndedType, FailType, WalletsType
  DEF FindRefused, FindError, TypeOK, Covered, Sufficient, Fail
<1>10. ASSUME NEW t \in Task, SaveWallet(t) PROVE TypeInv'
  BY <1>10, EndedType, SucceedType, CommitType
  DEF SaveWallet, TypeOK, Covered, Sufficient, Succeed
<1>11. ASSUME NEW t \in Task, SaveError(t) PROVE TypeInv'
  BY <1>11, EndedType, FailType, CommitType, WalletsType
  DEF SaveError, TypeOK, Covered, Sufficient, Fail
<1>12. CASE LinkBreaks \/ BrokerRestarts
  BY <1>12, WalletsType DEF LinkBreaks, BrokerRestarts, TypeOK, Covered, Sufficient
<1>13. ASSUME NEW c \in Copy, LinkBreaksInRetry(c) PROVE TypeInv'
  <2>1. c \in Task /\ <<c[1], c[2] + 1>> \in Copy
    BY <1>13, RetryType DEF LinkBreaksInRetry, Task
  <2>2. /\ balance' \in [User -> Nat]
        /\ applied' \in [Operation -> Nat]
        /\ ledger' \in [User -> Int]
        /\ version' \in [User -> Nat]
        /\ raced' \subseteq User
    BY <1>13, <2>1, CommitType, WalletsType DEF LinkBreaksInRetry
  <2> QED
    BY <1>13, <2>1, <2>2, TaskRecords
    DEF LinkBreaksInRetry, TypeOK, Covered, Sufficient
<1>14. CASE Crash
  BY <1>14, TaskRecords, WalletsType DEF Crash, TypeOK, Covered, Sufficient
<1>15. CASE Start
  BY <1>15, WalletsType DEF Start, TypeOK, Covered, Sufficient, broker
<1>16. CASE UNCHANGED vars
  BY <1>16, WalletsType DEF vars, wallets, TypeOK, Covered, Sufficient
<1> QED
  BY <1>1, <1>2, <1>3, <1>4, <1>5, <1>6, <1>7, <1>8, <1>9, <1>10, <1>11,
     <1>12, <1>13, <1>14, <1>15, <1>16 DEF Next, ClaimStep, WalletStep

\* Whatever is delivered, retried, lost or redelivered, the state stays
\* well-typed; in particular no wallet balance is ever negative.
THEOREM TypeCorrect == Spec => []TypeOK
<1>1. Spec => []TypeInv
  BY TypeInvInit, TypeInvStep, PTL DEF Spec
<1> QED BY <1>1, PTL DEF TypeInv

-----------------------------------------------------------------------------
(* At most once.  A handler that is past its claim works on an event that   *)
(* is claimed and not applied, and it is the only one to do so: the claim   *)
(* excludes later ones, and nothing ever unclaims an event.                 *)

Working(t) == task[t].step \in {"find", "save"}

ClaimInv ==
  /\ \A m \in Message : applied[m] <= 1 /\ (applied[m] > 0 => m \in claimed)
  /\ \A c \in Copy : Working(c) => c[1] \in claimed /\ applied[c[1]] = 0
  /\ \A c, d \in Copy : c[1] = d[1] /\ Working(c) /\ Working(d) => c = d

(* Retries.  A handler can only fail past its claim, so a copy with a retry  *)
(* count is one of a claimed event, and the next handler skips it.           *)
RetryInv ==
  /\ \A c \in Copy :
       /\ c[1] \in WellFormed
       /\ c \in ready \cup unacked \/ task[c].step # "idle"
       => c[2] <= 1 /\ (c[2] = 1 => c[1] \in claimed)
  /\ \A c \in Copy : task[c].step # "idle" => c[1] \in WellFormed
  /\ \A c \in Copy : Working(c) => c[2] = 0
  /\ \A c \in dlq : c[1] \in Malformed

(* Balances.  A handler whose wallet nobody has saved since it was found     *)
(* computes from the balance that is stored.                                 *)
LedgerInv ==
  /\ BalanceMatchesLedger
  /\ \A t \in Task :
       task[t].step = "save" =>
         /\ task[t].version <= version[UserOf(t)]
         /\ task[t].version = version[UserOf(t)] => task[t].balance = balance[UserOf(t)]

-----------------------------------------------------------------------------

\* Ending a handler, as a message or as a request, makes it work no more.
LEMMA EndedWork ==
  ASSUME TypeInv, NEW t \in Task, Ended(t)
  PROVE  \A x \in Task : x # t => task'[x] = task[x]
BY DEF TypeInv, TypeOK, Ended
\* Ending a handler leaves it without work.
LEMMA EndedIdle ==
  ASSUME TypeInv, NEW t \in Task, Ended(t)
  PROVE  /\ task'[t].step \in {"idle", "done"}
         /\ t \in Copy => task'[t].step = "idle"
BY TaskRecords DEF TypeInv, TypeOK, Ended

\* A step that claims, and starts no work and moves no wallet for an event.
LEMMA ClaimFrame ==
  ASSUME ClaimInv, claimed \subseteq claimed', UNCHANGED applied,
         \A c \in Copy : Working(c)' => Working(c)
  PROVE  ClaimInv'
BY DEF ClaimInv

\* A step that commits the save of t and ends the handler of t.
LEMMA ClaimCommit ==
  ASSUME TypeInv, ClaimInv, NEW t \in Task, task[t].step = "save", Commit(t),
         UNCHANGED claimed,
         \A c \in Copy : Working(c)' => Working(c) /\ c # t
  PROVE  ClaimInv'
<1>1. CASE t \in Request
  <2>1. \A m \in Message : applied'[m] = applied[m]
    BY <1>1, TaskOperation DEF Commit, TypeInv, TypeOK, Operation
  <2> QED
    BY <2>1, TaskOperation DEF ClaimInv
<1>2. CASE t \in Copy
  <2>1. /\ Working(t) /\ applied[t[1]] = 0 /\ t[1] \in claimed
        /\ \A c \in Copy : c[1] = t[1] /\ Working(c) => c = t
    BY <1>2 DEF ClaimInv, Working
  <2>2. OperationOf(t) = t[1] /\ t[1] \in Operation
    BY <1>2, TaskOperation DEF Operation
  <2>3. \A m \in Message : applied'[m] = IF m = t[1] THEN 1 ELSE applied[m]
    <3>1. applied \in [Operation -> Nat] /\ Message \subseteq Operation
      BY DEF TypeInv, TypeOK, Operation
    <3>2. applied' = [applied EXCEPT ![t[1]] = applied[t[1]] + 1]
      BY <2>2 DEF Commit
    <3>3. applied[t[1]] + 1 = 1
      BY <2>1
    <3> QED BY <2>2, <3>1, <3>2, <3>3
  <2> QED
    BY <1>2, <2>1, <2>3, TaskOperation DEF ClaimInv
<1> QED BY <1>1, <1>2 DEF Task

\* The initial state satisfies the claim invariant.
LEMMA ClaimInvInit == Init => ClaimInv
BY TaskRecords, TaskOperation DEF Init, ClaimInv, Working, Task, Operation

\* Every step preserves the claim invariant.
LEMMA ClaimInvStep == TypeInv /\ ClaimInv /\ [Next]_vars => ClaimInv'
<1> SUFFICES ASSUME TypeInv, ClaimInv, [Next]_vars PROVE ClaimInv'
  OBVIOUS
<1> Copy \subseteq Task
  BY DEF Task
<1>1. ASSUME NEW m \in Message, Publish(m) PROVE ClaimInv'
  BY <1>1, ClaimFrame DEF Publish, wallets, Working
<1>2. ASSUME NEW c \in Copy, Deliver(c) PROVE ClaimInv'
  <2>1. \A d \in Copy : Working(d)' => Working(d)
    BY <1>2, TaskRecords DEF Deliver, Working, TypeInv, TypeOK
  <2> QED BY <1>2, <2>1, ClaimFrame DEF Deliver, wallets
<1>3. ASSUME NEW c \in Copy, DeliverMalformed(c) PROVE ClaimInv'
  BY <1>3, ClaimFrame DEF DeliverMalformed, wallets, Working
<1>4. ASSUME NEW c \in Copy, ClaimWon(c) PROVE ClaimInv'
  <2>1. CASE Kind[c[1]] = "none"
    <3>1. \A d \in Copy : Working(d)' => Working(d)
      BY <1>4, <2>1, EndedWork, EndedIdle DEF ClaimWon, Succeed, Working
    <3> QED BY <1>4, <2>1, <3>1, ClaimFrame DEF ClaimWon, wallets
  <2>2. CASE Kind[c[1]] # "none"
    <3>1. \A d \in Copy : Working(d)' => Working(d) \/ d = c
      BY <1>4, <2>2 DEF ClaimWon, Working, TypeInv, TypeOK
    <3>2. c[1] \notin claimed /\ c[1] \in Message /\ claimed' = claimed \cup {c[1]}
      BY <1>4, TaskOperation DEF ClaimWon, Claimed
    <3>3. applied[c[1]] = 0
      BY <3>2 DEF ClaimInv, TypeInv, TypeOK, Operation
    <3>4. \A d \in Copy : Working(d) => d[1] # c[1]
      BY <3>2 DEF ClaimInv
    <3>5. applied' = applied
      BY <1>4 DEF ClaimWon, wallets
    <3> QED BY <3>1, <3>2, <3>3, <3>4, <3>5 DEF ClaimInv
  <2> QED BY <2>1, <2>2
<1>5. ASSUME NEW c \in Copy, ClaimLost(c) \/ ClaimError(c) PROVE ClaimInv'
  <2>1. \A d \in Copy : Working(d)' => Working(d)
    BY <1>5, EndedWork, EndedIdle DEF ClaimLost, ClaimError, Succeed, Working
  <2> QED BY <1>5, <2>1, ClaimFrame DEF ClaimLost, ClaimError, wallets
<1>6. ASSUME NEW q \in Request, RequestArrives(q) PROVE ClaimInv'
  <2>1. \A d \in Copy : Working(d)' => Working(d)
    BY <1>6 DEF RequestArrives, Working, TypeInv, TypeOK, Task
  <2> QED BY <1>6, <2>1, ClaimFrame DEF RequestArrives, wallets
<1>7. ASSUME NEW t \in Task, FindWallet(t) PROVE ClaimInv'
  <2>1. \A d \in Copy : Working(d)' => Working(d)
    BY <1>7 DEF FindWallet, Working, TypeInv, TypeOK
  <2> QED BY <1>7, <2>1, ClaimFrame DEF FindWallet, wallets
<1>8. ASSUME NEW t \in Task, FindRefused(t) \/ FindError(t) PROVE ClaimInv'
  <2>1. \A d \in Copy : Working(d)' => Working(d)
    BY <1>8, EndedWork, EndedIdle DEF FindRefused, FindError, Fail, Working
  <2> QED BY <1>8, <2>1, ClaimFrame DEF FindRefused, FindError, wallets
<1>9. ASSUME NEW t \in Task, SaveWallet(t) \/ SaveError(t) PROVE ClaimInv'
  <2>1. \A d \in Copy : Working(d)' => Working(d) /\ d # t
    BY <1>9, EndedWork, EndedIdle DEF SaveWallet, SaveError, Succeed, Fail, Working
  <2>2. CASE Commit(t)
    BY <1>9, <2>1, <2>2, ClaimCommit DEF SaveWallet, SaveError
  <2>3. CASE UNCHANGED wallets
    BY <1>9, <2>1, <2>3, ClaimFrame DEF SaveWallet, SaveError, wallets
  <2> QED BY <1>9, <2>2, <2>3 DEF SaveWallet, SaveError
<1>10. ASSUME NEW c \in Copy, LinkBreaksInRetry(c) PROVE ClaimInv'
  <2>1. \A d \in Copy : Working(d)' => Working(d) /\ d # c
    BY <1>10, TaskRecords DEF LinkBreaksInRetry, Working, TypeInv, TypeOK
  <2>2. CASE task[c].step = "save" /\ Commit(c)
    BY <1>10, <2>1, <2>2, ClaimCommit DEF LinkBreaksInRetry
  <2>3. CASE UNCHANGED wallets
    BY <1>10, <2>1, <2>3, ClaimFrame DEF LinkBreaksInRetry, wallets
  <2> QED BY <1>10, <2>2, <2>3 DEF LinkBreaksInRetry
<1>11. CASE LinkBreaks \/ BrokerRestarts
  BY <1>11, ClaimFrame DEF LinkBreaks, BrokerRestarts, wallets, Working
<1>12. CASE Crash
  <2>1. \A d \in Copy : Working(d)' => Working(d)
    BY <1>12, TaskRecords DEF Crash, Working, TypeInv, TypeOK
  <2> QED BY <1>12, <2>1, ClaimFrame DEF Crash, wallets
<1>13. CASE Start
  BY <1>13, ClaimFrame DEF Start, wallets, Working
<1>14. CASE UNCHANGED vars
  BY <1>14, ClaimFrame DEF vars, Working
<1> QED
  BY <1>1, <1>2, <1>3, <1>4, <1>5, <1>6, <1>7, <1>8, <1>9, <1>10, <1>11, <1>12,
     <1>13, <1>14 DEF Next, ClaimStep, WalletStep

\* "Idempotent consumers", for any number of messages, users and retries: no
\* interleaving of deliveries, redeliveries, retries, lost connections,
\* unanswered saves and restarts makes an event move its wallet twice.
THEOREM AtMostOnce == Spec => []AppliedAtMostOnce
<1>1. Spec => [](TypeInv /\ ClaimInv)
  BY TypeInvInit, TypeInvStep, ClaimInvInit, ClaimInvStep, PTL DEF Spec
<1>2. ClaimInv => AppliedAtMostOnce
  BY DEF ClaimInv, AppliedAtMostOnce
<1> QED BY <1>1, <1>2, PTL

\* ... because an event moves its wallet only after its claim, and the claim
\* lets one handler at a time work on it.
THEOREM ClaimFirst == Spec => []ClaimedBeforeApplied
<1>1. Spec => [](TypeInv /\ ClaimInv)
  BY TypeInvInit, TypeInvStep, ClaimInvInit, ClaimInvStep, PTL DEF Spec
<1>2. ClaimInv => ClaimedBeforeApplied
  BY DEF ClaimInv, ClaimedBeforeApplied, Working
<1> QED BY <1>1, <1>2, PTL

-----------------------------------------------------------------------------

\* A step that puts nothing into a queue, starts no handler and claims.
LEMMA RetryFrame ==
  ASSUME RetryInv, claimed \subseteq claimed', dlq' \subseteq dlq,
         (ready \cup unacked)' \subseteq ready \cup unacked,
         \A c \in Copy : /\ task'[c].step # "idle" => task[c].step # "idle"
                         /\ Working(c)' => Working(c)
  PROVE  RetryInv'
<1>1. ASSUME NEW c \in Copy, c[1] \in WellFormed,
             c \in ready' \cup unacked' \/ task'[c].step # "idle"
      PROVE  c[2] <= 1 /\ (c[2] = 1 => c[1] \in claimed')
  <2>1. c \in ready \cup unacked \/ task[c].step # "idle"
    BY <1>1
  <2> QED BY <1>1, <2>1 DEF RetryInv
<1>2. \A c \in Copy : task'[c].step # "idle" => c[1] \in WellFormed
  BY DEF RetryInv
<1>3. \A c \in Copy : Working(c)' => c[2] = 0
  BY DEF RetryInv
<1>4. \A c \in dlq' : c[1] \in Malformed
  BY DEF RetryInv
<1> QED BY <1>1, <1>2, <1>3, <1>4 DEF RetryInv, WellFormed

\* A working handler fails: its next copy is the first retry of a claimed event.
LEMMA RetryFail ==
  ASSUME TypeInv, ClaimInv, RetryInv, NEW t \in Task, Working(t), Fail(t), UNCHANGED claimed
  PROVE  RetryInv'
<1> Copy \subseteq Task
  BY DEF Task
<1>1. \A c \in Copy : /\ task'[c].step # "idle" => task[c].step # "idle"
                      /\ Working(c)' => Working(c)
  BY EndedWork, EndedIdle DEF Fail, Working
<1>2. CASE t \notin unacked
  BY <1>1, <1>2, RetryFrame DEF Fail
<1>3. CASE t \in unacked
  <2>1. t \in Copy /\ t[1] \in WellFormed /\ t[2] = 0 /\ t[1] \in claimed
    BY <1>3 DEF TypeInv, TypeOK, RetryInv, ClaimInv, Working
  <2>2. /\ unacked' = unacked \ {t} /\ dlq' = dlq
        /\ ready' = ready \cup {<<t[1], 1>>}
    BY <1>3, <2>1 DEF Fail
  <2> QED
    BY <1>1, <2>1, <2>2 DEF RetryInv
<1> QED BY <1>2, <1>3

\* The initial state satisfies the retry invariant.
LEMMA RetryInvInit == Init => RetryInv
BY TaskRecords, TaskOperation DEF Init, RetryInv, Working, Task

\* Every step preserves the retry invariant.
LEMMA RetryInvStep == TypeInv /\ ClaimInv /\ RetryInv /\ [Next]_vars => RetryInv'
<1> SUFFICES ASSUME TypeInv, ClaimInv, RetryInv, [Next]_vars PROVE RetryInv'
  OBVIOUS
<1> Copy \subseteq Task
  BY DEF Task
<1>1. ASSUME NEW m \in Message, Publish(m) PROVE RetryInv'
  <2>1. task' = task /\ claimed' = claimed /\ dlq' = dlq /\ unacked' = unacked
        /\ ready' = ready \cup {<<m, 0>>}
    BY <1>1 DEF Publish
  <2> QED BY <2>1 DEF RetryInv, Working
<1>2. ASSUME NEW c \in Copy, Deliver(c) PROVE RetryInv'
  <2>1. c[1] \in WellFormed
    BY <1>2, TaskOperation DEF Deliver, WellFormed
  <2>2. \A d \in Copy : d # c => task'[d] = task[d]
    BY <1>2 DEF Deliver, TypeInv, TypeOK
  <2>3. task'[c].step = "claim"
    BY <1>2, TaskRecords DEF Deliver, TypeInv, TypeOK
  <2>4. c \in ready /\ (ready \cup unacked)' = ready \cup unacked /\ dlq' = dlq /\ claimed' = claimed
    BY <1>2 DEF Deliver
  <2> QED BY <2>1, <2>2, <2>3, <2>4 DEF RetryInv, Working
<1>3. ASSUME NEW c \in Copy, DeliverMalformed(c) PROVE RetryInv'
  <2>1. /\ task' = task /\ claimed' = claimed /\ unacked' = unacked
        /\ dlq' \subseteq dlq \cup {c} /\ ready' \subseteq ready \cup {<<c[1], c[2] + 1>>}
        /\ c[1] \in Malformed
    BY <1>3 DEF DeliverMalformed
  <2> QED BY <2>1 DEF RetryInv, Working, WellFormed
<1>4. ASSUME NEW c \in Copy, ClaimWon(c) PROVE RetryInv'
  <2>1. CASE Kind[c[1]] = "none"
    <3>1. \A d \in Copy : /\ task'[d].step # "idle" => task[d].step # "idle"
                          /\ Working(d)' => Working(d)
      BY <1>4, <2>1, EndedWork, EndedIdle DEF ClaimWon, Succeed, Working
    <3> QED BY <1>4, <2>1, <3>1, RetryFrame DEF ClaimWon, Succeed
  <2>2. CASE Kind[c[1]] # "none"
    <3>1. c[2] = 0
      <4>1. c[2] \in Nat /\ c[1] \notin claimed /\ task[c].step # "idle"
        BY <1>4, TaskOperation DEF ClaimWon, Claimed
      <4> QED BY <4>1 DEF RetryInv
    <3>2. \A d \in Copy : d # c => task'[d] = task[d]
      BY <1>4, <2>2 DEF ClaimWon, TypeInv, TypeOK
    <3>3. task[c].step # "idle"
      BY <1>4 DEF ClaimWon
    <3>4. UNCHANGED <<ready, unacked, dlq>> /\ claimed \subseteq claimed'
      BY <1>4, <2>2 DEF ClaimWon, broker
    <3> QED BY <3>1, <3>2, <3>3, <3>4 DEF RetryInv, Working
  <2> QED BY <2>1, <2>2
<1>5. ASSUME NEW c \in Copy, ClaimLost(c) \/ ClaimError(c) PROVE RetryInv'
  <2>1. \A d \in Copy : /\ task'[d].step # "idle" => task[d].step # "idle"
                        /\ Working(d)' => Working(d)
    BY <1>5, EndedWork, EndedIdle DEF ClaimLost, ClaimError, Succeed, Working
  <2> QED BY <1>5, <2>1, RetryFrame DEF ClaimLost, ClaimError, Succeed
<1>6. ASSUME NEW q \in Request, RequestArrives(q) PROVE RetryInv'
  <2>1. \A d \in Copy : task'[d] = task[d]
    BY <1>6 DEF RequestArrives, TypeInv, TypeOK, Task
  <2> QED BY <1>6, <2>1, RetryFrame DEF RequestArrives, broker, Working
<1>7. ASSUME NEW t \in Task, FindWallet(t) PROVE RetryInv'
  <2>1. \A d \in Copy : /\ task'[d].step # "idle" => task[d].step # "idle"
                        /\ Working(d)' => Working(d)
    BY <1>7 DEF FindWallet, Working, TypeInv, TypeOK
  <2> QED BY <1>7, <2>1, RetryFrame DEF FindWallet, broker
<1>8. ASSUME NEW t \in Task, FindRefused(t) \/ FindError(t) PROVE RetryInv'
  BY <1>8, RetryFail DEF FindRefused, FindError, Working
<1>9. ASSUME NEW t \in Task, SaveWallet(t) PROVE RetryInv'
  <2>1. \A d \in Copy : /\ task'[d].step # "idle" => task[d].step # "idle"
                        /\ Working(d)' => Working(d)
    BY <1>9, EndedWork, EndedIdle DEF SaveWallet, Succeed, Working
  <2> QED BY <1>9, <2>1, RetryFrame DEF SaveWallet, Succeed
<1>10. ASSUME NEW t \in Task, SaveError(t) PROVE RetryInv'
  BY <1>10, RetryFail DEF SaveError, Working
<1>11. ASSUME NEW c \in Copy, LinkBreaksInRetry(c) PROVE RetryInv'
  <2>1. Working(c) /\ c \in Copy /\ c \in unacked
    BY <1>11 DEF LinkBreaksInRetry, Working
  <2>2. c[1] \in WellFormed /\ c[2] = 0 /\ c[1] \in claimed
    BY <2>1 DEF RetryInv, ClaimInv, Working
  <2>3. /\ claimed' = claimed /\ dlq' = dlq /\ unacked' = {}
        /\ ready' = ready \cup unacked \cup {<<c[1], 1>>}
    BY <1>11, <2>2 DEF LinkBreaksInRetry
  <2>4. \A d \in Copy : /\ task'[d].step # "idle" => task[d].step # "idle"
                        /\ Working(d)' => Working(d)
    BY <1>11, TaskRecords DEF LinkBreaksInRetry, Working, TypeInv, TypeOK
  <2> QED BY <2>2, <2>3, <2>4 DEF RetryInv
<1>12. CASE LinkBreaks \/ BrokerRestarts
  BY <1>12, RetryFrame DEF LinkBreaks, BrokerRestarts, Working
<1>13. CASE Crash
  <2>1. \A d \in Copy : task'[d].step = "idle"
    BY <1>13, TaskRecords DEF Crash
  <2> QED BY <1>13, <2>1, RetryFrame DEF Crash, Working
<1>14. CASE Start
  BY <1>14, RetryFrame DEF Start, broker, Working
<1>15. CASE UNCHANGED vars
  BY <1>15, RetryFrame DEF vars, Working
<1> QED
  BY <1>1, <1>2, <1>3, <1>4, <1>5, <1>6, <1>7, <1>8, <1>9, <1>10, <1>11, <1>12,
     <1>13, <1>14, <1>15 DEF Next, ClaimStep, WalletStep

\* The retries and the dead letter queues never see a well-formed event a
\* second time: whatever MAX_RETRIES is, one failure is all an event gets.
THEOREM DeadLettersAreMalformed == Spec => []OnlyMalformedDeadLetters
<1>1. Spec => [](TypeInv /\ ClaimInv /\ RetryInv)
  BY TypeInvInit, TypeInvStep, ClaimInvInit, ClaimInvStep, RetryInvInit,
     RetryInvStep, PTL DEF Spec
<1>2. TypeInv /\ RetryInv => OnlyMalformedDeadLetters
  <2> SUFFICES ASSUME TypeInv, RetryInv, NEW c \in ready \cup unacked \cup dlq,
                      c[1] \in WellFormed
               PROVE  c[2] <= 1 /\ c \notin dlq
    BY DEF OnlyMalformedDeadLetters
  <2>1. c \in Copy
    BY DEF TypeInv, TypeOK
  <2>2. c \notin dlq
    BY DEF RetryInv, WellFormed
  <2> QED BY <2>1, <2>2 DEF RetryInv
<1> QED BY <1>1, <1>2, PTL

-----------------------------------------------------------------------------

\* A step that commits nothing and finds no wallet.
LEMMA LedgerFrame ==
  ASSUME LedgerInv, UNCHANGED <<balance, ledger, version, raced>>,
         \A t \in Task : task'[t].step = "save" => task'[t] = task[t]
  PROVE  LedgerInv'
BY DEF LedgerInv, BalanceMatchesLedger

\* A step that commits the save of t and ends the handler of t.
LEMMA LedgerCommit ==
  ASSUME TypeInv, LedgerInv, NEW t \in Task, task[t].step = "save", Commit(t),
         \A x \in Task : task'[x].step = "save" => task'[x] = task[x] /\ x # t
  PROVE  LedgerInv'
<1> DEFINE u == UserOf(t)
<1>1. u \in User /\ \A x \in Task : UserOf(x) \in User
  BY TaskType
<1>2. /\ balance' = [balance EXCEPT ![u] = After(t, task[t].balance)]
      /\ ledger' = [ledger EXCEPT ![u] = After(t, ledger[u])]
      /\ version' = [version EXCEPT ![u] = version[u] + 1]
      /\ raced' = IF task[t].version = version[u] THEN raced ELSE raced \cup {u}
  BY DEF Commit
<1>3. /\ balance \in [User -> Nat] /\ ledger \in [User -> Int]
      /\ version \in [User -> Nat]
  BY DEF TypeInv, TypeOK
<1>4. ASSUME NEW v \in User, v \notin raced'
      PROVE  balance'[v] = ledger'[v]
  <2>1. v \notin raced /\ balance[v] = ledger[v]
    BY <1>2, <1>4 DEF LedgerInv, BalanceMatchesLedger
  <2>2. CASE v # u
    BY <1>2, <1>3, <2>1, <2>2
  <2>3. CASE v = u
    <3>1. task[t].version = version[u]
      BY <1>2, <1>4, <2>3
    <3>2. task[t].balance = balance[u]
      BY <3>1 DEF LedgerInv
    <3>3. balance'[u] = After(t, balance[u]) /\ ledger'[u] = After(t, ledger[u])
      BY <1>1, <1>2, <1>3, <3>2
    <3> QED BY <2>1, <2>3, <3>3
  <2> QED BY <2>2, <2>3
<1>5. ASSUME NEW x \in Task, task'[x].step = "save"
      PROVE  /\ task'[x].version <= version'[UserOf(x)]
             /\ task'[x].version = version'[UserOf(x)] => task'[x].balance = balance'[UserOf(x)]
  <2>1. task'[x] = task[x] /\ task[x].step = "save"
    BY <1>5
  <2>2. task[x].version \in Nat
    BY DEF TypeInv, TypeOK, TaskRecord
  <2>3. /\ task[x].version <= version[UserOf(x)]
        /\ task[x].version = version[UserOf(x)] => task[x].balance = balance[UserOf(x)]
    BY <2>1 DEF LedgerInv
  <2>4. CASE UserOf(x) # u
    BY <1>1, <1>2, <1>3, <2>1, <2>3, <2>4
  <2>5. CASE UserOf(x) = u
    <3>1. version'[u] = version[u] + 1 /\ version[u] \in Nat
      BY <1>1, <1>2, <1>3
    <3> QED BY <2>1, <2>2, <2>3, <2>5, <3>1
  <2> QED BY <2>4, <2>5
<1> QED BY <1>4, <1>5 DEF LedgerInv, BalanceMatchesLedger

\* The initial state satisfies the ledger invariant.
LEMMA LedgerInvInit == Init => LedgerInv
BY TaskRecords DEF Init, LedgerInv, BalanceMatchesLedger

\* Every step preserves the ledger invariant.
LEMMA LedgerInvStep == TypeInv /\ LedgerInv /\ [Next]_vars => LedgerInv'
<1> SUFFICES ASSUME TypeInv, LedgerInv, [Next]_vars PROVE LedgerInv'
  OBVIOUS
<1> Copy \subseteq Task /\ Request \subseteq Task
  BY DEF Task
<1>1. ASSUME NEW m \in Message, Publish(m) PROVE LedgerInv'
  BY <1>1, LedgerFrame DEF Publish, wallets
<1>2. ASSUME NEW c \in Copy, Deliver(c) \/ DeliverMalformed(c) PROVE LedgerInv'
  <2>1. \A x \in Task : task'[x].step = "save" => task'[x] = task[x]
    BY <1>2, TaskRecords DEF Deliver, DeliverMalformed, TypeInv, TypeOK
  <2> QED BY <1>2, <2>1, LedgerFrame DEF Deliver, DeliverMalformed, wallets
<1>3. ASSUME NEW c \in Copy, ClaimStep(c) PROVE LedgerInv'
  <2>1. \A x \in Task : task'[x].step = "save" => task'[x] = task[x]
    <3>1. CASE Ended(c)
      BY <3>1, EndedType
    <3>2. CASE task' = [task EXCEPT ![c] = At("find")]
      BY <3>2, TaskRecords DEF TypeInv, TypeOK
    <3> QED BY <1>3, <3>1, <3>2 DEF ClaimStep, ClaimWon, ClaimLost, ClaimError, Succeed
  <2> QED
    BY <1>3, <2>1, LedgerFrame DEF ClaimStep, ClaimWon, ClaimLost, ClaimError, wallets
<1>4. ASSUME NEW q \in Request, RequestArrives(q) PROVE LedgerInv'
  <2>1. \A x \in Task : task'[x].step = "save" => task'[x] = task[x]
    BY <1>4, TaskRecords DEF RequestArrives, TypeInv, TypeOK
  <2> QED BY <1>4, <2>1, LedgerFrame DEF RequestArrives, wallets
<1>5. ASSUME NEW t \in Task, FindWallet(t) PROVE LedgerInv'
  <2>1. \A x \in Task : x # t => task'[x] = task[x]
    BY <1>5 DEF FindWallet, TypeInv, TypeOK
  <2>2. /\ task'[t].version = version[UserOf(t)]
        /\ task'[t].balance = balance[UserOf(t)]
    BY <1>5 DEF FindWallet, TypeInv, TypeOK
  <2>3. UNCHANGED <<balance, ledger, version, raced>>
    BY <1>5 DEF FindWallet, wallets
  <2>4. version[UserOf(t)] \in Nat
    BY TaskType DEF TypeInv, TypeOK
  <2> QED BY <2>1, <2>2, <2>3, <2>4 DEF LedgerInv, BalanceMatchesLedger
<1>6. ASSUME NEW t \in Task, FindRefused(t) \/ FindError(t) PROVE LedgerInv'
  BY <1>6, EndedType, LedgerFrame DEF FindRefused, FindError, Fail, wallets
<1>7. ASSUME NEW t \in Task, SaveWallet(t) \/ SaveError(t) PROVE LedgerInv'
  <2>1. \A x \in Task : task'[x].step = "save" => task'[x] = task[x] /\ x # t
    BY <1>7, EndedType DEF SaveWallet, SaveError, Succeed, Fail
  <2>2. CASE Commit(t)
    BY <1>7, <2>1, <2>2, LedgerCommit DEF SaveWallet, SaveError
  <2>3. CASE UNCHANGED wallets
    BY <2>1, <2>3, LedgerFrame DEF wallets
  <2> QED BY <1>7, <2>2, <2>3 DEF SaveWallet, SaveError
<1>8. ASSUME NEW c \in Copy, LinkBreaksInRetry(c) PROVE LedgerInv'
  <2>1. \A x \in Task : task'[x].step = "save" => task'[x] = task[x] /\ x # c
    BY <1>8, TaskRecords DEF LinkBreaksInRetry, TypeInv, TypeOK
  <2>2. CASE task[c].step = "save" /\ Commit(c)
    BY <2>1, <2>2, LedgerCommit
  <2>3. CASE UNCHANGED wallets
    BY <2>1, <2>3, LedgerFrame DEF wallets
  <2> QED BY <1>8, <2>2, <2>3 DEF LinkBreaksInRetry
<1>9. CASE Crash
  <2>1. \A x \in Task : task'[x].step # "save"
    BY <1>9, TaskRecords DEF Crash
  <2> QED BY <1>9, <2>1, LedgerFrame DEF Crash, wallets
<1>10. CASE LinkBreaks \/ BrokerRestarts \/ Start \/ UNCHANGED vars
  BY <1>10, LedgerFrame DEF LinkBreaks, BrokerRestarts, Start, vars, wallets
<1> QED
  BY <1>1, <1>2, <1>3, <1>4, <1>5, <1>6, <1>7, <1>8, <1>9, <1>10 DEF Next, WalletStep

\* Only an overlap of two operations on one wallet can make a balance wrong:
\* without one it is the initial balance plus every committed operation.
THEOREM LedgerKept == Spec => []BalanceMatchesLedger
<1>1. Spec => [](TypeInv /\ LedgerInv)
  BY TypeInvInit, TypeInvStep, LedgerInvInit, LedgerInvStep, PTL DEF Spec
<1>2. LedgerInv => BalanceMatchesLedger
  BY DEF LedgerInv
<1> QED BY <1>1, <1>2, PTL
-----------------------------------------------------------------------------
(* Where money comes from.  Nothing in a queue, in a handler or in the      *)
(* claims was not published, and only debits and credits get past a claim.  *)

SourceInv ==
  /\ claimed \subseteq published
  /\ \A c \in Copy :
       c \in ready \cup unacked \/ task[c].step # "idle" => c[1] \in published
  /\ \A c \in Copy : Working(c) => Kind[c[1]] # "none"
  /\ \A m \in Message : applied[m] > 0 => m \in published /\ Kind[m] # "none"

\* A step that publishes nothing, starts no handler and moves no wallet.
LEMMA SourceFrame ==
  ASSUME SourceInv, published' = published, applied' = applied, claimed' \subseteq published,
         \A c \in Copy : c \in ready' \cup unacked' => c[1] \in published,
         \A c \in Copy : /\ task'[c].step # "idle" => task[c].step # "idle"
                         /\ Working(c)' => Working(c)
  PROVE  SourceInv'
BY DEF SourceInv

\* The end of a handler, whether the message comes back or not.
LEMMA SourceEnd ==
  ASSUME TypeInv, SourceInv, NEW t \in Task, task[t].step # "idle", Succeed(t) \/ Fail(t)
  PROVE  /\ published' = published
         /\ \A c \in Copy : c \in ready' \cup unacked' => c[1] \in published
         /\ \A c \in Copy : /\ task'[c].step # "idle" => task[c].step # "idle"
                            /\ Working(c)' => Working(c)
<1>1. \A c \in Copy : /\ task'[c].step # "idle" => task[c].step # "idle"
                      /\ Working(c)' => Working(c)
  BY EndedWork, EndedIdle DEF Succeed, Fail, Working, Task
<1>2. CASE Succeed(t) \/ t \notin unacked
  BY <1>1, <1>2 DEF Succeed, Fail, SourceInv
<1>3. CASE Fail(t) /\ t \in unacked
  <2>1. t \in Copy /\ t[1] \in published
    BY <1>3 DEF TypeInv, TypeOK, SourceInv
  <2>2. published' = published /\ unacked' \subseteq unacked
        /\ ready' \subseteq ready \cup {<<t[1], t[2] + 1>>}
    BY <1>3 DEF Fail
  <2> QED BY <1>1, <2>1, <2>2 DEF SourceInv
<1> QED BY <1>2, <1>3

\* A handler saves the wallet for an event of its own.
LEMMA SourceCommit ==
  ASSUME TypeInv, SourceInv, NEW t \in Task, task[t].step = "save", Commit(t)
  PROVE  \A m \in Message : applied'[m] > 0 => m \in published /\ Kind[m] # "none"
<1>1. applied \in [Operation -> Nat] /\ OperationOf(t) \in Operation
  BY TaskType DEF TypeInv, TypeOK
<1>2. \A m \in Message : m # OperationOf(t) => applied'[m] = applied[m]
  BY <1>1 DEF Commit, Operation
<1>3. \A m \in Message : m = OperationOf(t) => t \in Copy /\ t[1] = m
  BY TaskOperation DEF Task
<1>4. t \in Copy => t[1] \in published /\ Kind[t[1]] # "none"
  BY DEF SourceInv, Working
<1> QED BY <1>2, <1>3, <1>4 DEF SourceInv

\* The initial state satisfies the source invariant.
LEMMA SourceInvInit == Init => SourceInv
BY TaskRecords, TaskOperation DEF Init, SourceInv, Working, Task, Operation

\* Every step preserves the source invariant.
LEMMA SourceInvStep == TypeInv /\ SourceInv /\ [Next]_vars => SourceInv'
<1> SUFFICES ASSUME TypeInv, SourceInv, [Next]_vars PROVE SourceInv'
  OBVIOUS
<1> Copy \subseteq Task
  BY DEF Task
<1>1. ASSUME NEW m \in Message, Publish(m) PROVE SourceInv'
  <2>1. /\ published' = published \cup {m} /\ ready' = ready \cup {<<m, 0>>}
        /\ UNCHANGED <<unacked, claimed, task, applied>>
    BY <1>1 DEF Publish, wallets
  <2> QED BY <2>1 DEF SourceInv, Working
<1>2. ASSUME NEW c \in Copy, Deliver(c) PROVE SourceInv'
  <2>1. \A d \in Copy : d # c => task'[d] = task[d]
    BY <1>2 DEF Deliver, TypeInv, TypeOK
  <2>2. task'[c].step = "claim" /\ c[1] \in published
    BY <1>2, TaskRecords DEF Deliver, TypeInv, TypeOK, SourceInv
  <2>3. (ready \cup unacked)' = ready \cup unacked /\ UNCHANGED <<published, claimed, applied>>
    BY <1>2 DEF Deliver, wallets
  <2> QED BY <2>1, <2>2, <2>3 DEF SourceInv, Working
<1>3. ASSUME NEW c \in Copy, DeliverMalformed(c) PROVE SourceInv'
  <2>1. /\ UNCHANGED <<published, unacked, claimed, task, applied>>
        /\ ready' \subseteq ready \cup {<<c[1], c[2] + 1>>} /\ c \in ready
    BY <1>3 DEF DeliverMalformed, wallets
  <2> QED BY <2>1 DEF SourceInv, Working
<1>4. ASSUME NEW c \in Copy, ClaimStep(c) PROVE SourceInv'
  <2>1. c[1] \in published /\ task[c].step # "idle" /\ applied' = applied
    BY <1>4 DEF ClaimStep, ClaimWon, ClaimLost, ClaimError, SourceInv, wallets
  <2>2. claimed' \subseteq published
    BY <1>4, <2>1 DEF ClaimStep, ClaimWon, ClaimLost, ClaimError, SourceInv
  <2>3. CASE Succeed(c)
    BY <2>1, <2>2, <2>3, SourceEnd, SourceFrame
  <2>4. CASE ~ Succeed(c)
    <3>1. /\ Kind[c[1]] # "none" /\ task' = [task EXCEPT ![c] = At("find")]
          /\ UNCHANGED <<published, ready, unacked>>
      BY <1>4, <2>4 DEF ClaimStep, ClaimWon, ClaimLost, ClaimError, broker
    <3>2. \A d \in Copy : d # c => task'[d] = task[d]
      BY <3>1 DEF TypeInv, TypeOK
    <3> QED BY <2>1, <2>2, <3>1, <3>2 DEF SourceInv, Working
  <2> QED BY <2>3, <2>4
<1>5. ASSUME NEW q \in Request, RequestArrives(q) PROVE SourceInv'
  <2>1. \A d \in Copy : task'[d] = task[d]
    BY <1>5 DEF RequestArrives, TypeInv, TypeOK, Task
  <2> QED BY <1>5, <2>1, SourceFrame DEF RequestArrives, broker, wallets, Working, SourceInv
<1>6. ASSUME NEW t \in Task, FindWallet(t) PROVE SourceInv'
  <2>1. \A d \in Copy : /\ task'[d].step # "idle" => task[d].step # "idle"
                        /\ Working(d)' => Working(d)
    BY <1>6 DEF FindWallet, Working, TypeInv, TypeOK
  <2> QED BY <1>6, <2>1, SourceFrame DEF FindWallet, broker, wallets, SourceInv
<1>7. ASSUME NEW t \in Task, task[t].step # "idle", Succeed(t) \/ Fail(t),
             claimed' = claimed, applied' = applied \/ (task[t].step = "save" /\ Commit(t))
      PROVE  SourceInv'
  <2>1. CASE applied' = applied
    BY <1>7, <2>1, SourceEnd, SourceFrame DEF SourceInv
  <2>2. CASE task[t].step = "save" /\ Commit(t)
    <3>1. \A m \in Message : applied'[m] > 0 => m \in published /\ Kind[m] # "none"
      BY <2>2, SourceCommit
    <3> QED BY <1>7, <3>1, SourceEnd DEF SourceInv
  <2> QED BY <1>7, <2>1, <2>2
<1>8. ASSUME NEW t \in Task, FindRefused(t) \/ FindError(t) \/ SaveWallet(t) \/ SaveError(t)
      PROVE  SourceInv'
  BY <1>7, <1>8 DEF FindRefused, FindError, SaveWallet, SaveError, wallets
<1>9. ASSUME NEW c \in Copy, LinkBreaksInRetry(c) PROVE SourceInv'
  <2>1. c \in unacked /\ c[1] \in published
    BY <1>9 DEF LinkBreaksInRetry, SourceInv
  <2>2. /\ UNCHANGED <<published, claimed>> /\ unacked' = {}
        /\ ready' = ready \cup unacked \cup {<<c[1], c[2] + 1>>}
    BY <1>9 DEF LinkBreaksInRetry
  <2>3. \A d \in Copy : /\ task'[d].step # "idle" => task[d].step # "idle"
                        /\ Working(d)' => Working(d)
    BY <1>9, TaskRecords DEF LinkBreaksInRetry, Working, TypeInv, TypeOK
  <2>4. \A m \in Message : applied'[m] > 0 => m \in published /\ Kind[m] # "none"
    BY <1>9, SourceCommit DEF LinkBreaksInRetry, wallets, SourceInv
  <2> QED BY <2>1, <2>2, <2>3, <2>4 DEF SourceInv
<1>10. CASE LinkBreaks \/ BrokerRestarts
  BY <1>10, SourceFrame DEF LinkBreaks, BrokerRestarts, Working, wallets, SourceInv
<1>11. CASE Crash
  <2>1. \A d \in Copy : task'[d].step = "idle"
    BY <1>11, TaskRecords DEF Crash
  <2> QED BY <1>11, <2>1, SourceFrame DEF Crash, Working, wallets, SourceInv
<1>12. CASE Start \/ UNCHANGED vars
  BY <1>12, SourceFrame DEF Start, vars, broker, Working, wallets, SourceInv
<1> QED
  BY <1>1, <1>2, <1>3, <1>4, <1>5, <1>6, <1>8, <1>9, <1>10, <1>11, <1>12
  DEF Next, WalletStep

\* A message moves its wallet only if it has been published and is a bet that
\* was placed or cashed out; a bet.lost is claimed and moves nothing.
THEOREM OnlyPublishedMoves ==
  Spec => [](\A m \in Message : applied[m] > 0 => m \in published /\ Kind[m] # "none")
<1>1. Spec => [](TypeInv /\ SourceInv)
  BY TypeInvInit, TypeInvStep, SourceInvInit, SourceInvStep, PTL DEF Spec
<1>2. SourceInv => \A m \in Message : applied[m] > 0 => m \in published /\ Kind[m] # "none"
  BY DEF SourceInv
<1> QED BY <1>1, <1>2, PTL

\* A step saves the wallet of one operation at most.
LEMMA AppliedSteps ==
  ASSUME TypeInv, [Next]_vars
  PROVE  applied' = applied \/ \E o \in Operation : applied' = [applied EXCEPT ![o] = @ + 1]
<1>1. ASSUME NEW t \in Task, Commit(t)
      PROVE  \E o \in Operation : applied' = [applied EXCEPT ![o] = @ + 1]
  BY <1>1, TaskType DEF Commit
<1>2. ASSUME NEW m \in Message, Publish(m) PROVE applied' = applied
  BY <1>2 DEF Publish, wallets
<1>3. ASSUME NEW c \in Copy, Deliver(c) \/ DeliverMalformed(c) \/ ClaimStep(c)
      PROVE  applied' = applied
  BY <1>3 DEF Deliver, DeliverMalformed, ClaimStep, ClaimWon, ClaimLost, ClaimError, wallets
<1>4. ASSUME NEW q \in Request, RequestArrives(q) PROVE applied' = applied
  BY <1>4 DEF RequestArrives, wallets
<1>5. ASSUME NEW t \in Task, WalletStep(t) PROVE Commit(t) \/ applied' = applied
  BY <1>5 DEF WalletStep, FindWallet, FindRefused, FindError, SaveWallet, SaveError, wallets
<1>6. ASSUME NEW c \in Copy, LinkBreaksInRetry(c) PROVE Commit(c) \/ applied' = applied
  BY <1>6 DEF LinkBreaksInRetry, wallets
<1>7. CASE LinkBreaks \/ BrokerRestarts \/ Crash \/ Start \/ UNCHANGED vars
  BY <1>7 DEF LinkBreaks, BrokerRestarts, Crash, Start, vars, wallets
<1> QED BY <1>1, <1>2, <1>3, <1>4, <1>5, <1>6, <1>7 DEF Next, Task

=============================================================================
