----------------------------- MODULE DemoService -----------------------------
(***************************************************************************)
(* The demo deployment (services/demo): the Games and the Wallets code in  *)
(* one process, without a broker.  DemoRabbitMQPublisherService answers    *)
(* each publish of RoundLifecycle with a direct debit or credit, find then *)
(* save, with no claim and no retry; and a login creates the wallet.       *)
(*                                                                         *)
(* A call of RoundLifecycle that is "publishing" is therefore a transfer   *)
(* here: when its save returns, the publish has succeeded, and when        *)
(* anything in it throws, the publish has failed.  The table is the one    *)
(* TypeORM synchronizes from the entity: unique over (userId,              *)
(* demoSessionId), and as the demo never sets a session and NULLs are      *)
(* distinct, a user may have several rows.                                 *)
(***************************************************************************)
EXTENDS BetOutcome, FiniteSets

CONSTANTS
  Player,
  PlayerOf,        \* PlayerOf[b]: who bets b
  Login,           \* calls of the token endpoint with the right password
  Creation,        \* calls of POST /wallets
  Creator,         \* Creator[k]: the user of login or creation k, DEMO_USER_ID for a login
  OpeningBalance,  \* OpeningBalance[k]: 1000 for a login
  Inexact          \* amounts that lose a centavo when divided and multiplied by 100

Opening == Login \cup Creation

ASSUME PlayerAssumption == PlayerOf \in [Bet -> Player]
ASSUME OpeningAssumption ==
  /\ Login \cap Creation = {}
  /\ Creator \in [Opening -> Player]
  /\ OpeningBalance \in [Opening -> Nat]
  /\ \A k, l \in Login : Creator[k] = Creator[l] /\ OpeningBalance[k] = OpeningBalance[l]
ASSUME InexactAssumption == Inexact \subseteq Nat \ {0, 1}
\* A transfer may be refused, so a publish may fail.
ASSUME RefusalAssumption == PublishMayFail

VARIABLES
  opened,      \* rows of the wallets table, by the call that inserted them
  balance,     \* their balance column
  opening,     \* how far each login or creation is
  found,       \* found[b][way]: the wallet a transfer has found, as it read it
  saves,       \* history: committed saves of each transfer
  raced,       \* history: users with a save based on a stale balance
  overlapped   \* history: {k, l} that looked for a wallet before the other inserted

ledgers == <<saves, raced>>
walletVars == <<opened, balance, opening, found, saves, raced, overlapped>>
demoVars == <<vars, walletVars>>

Way == {"debit", "credit"}
FoundWallet == [row : Opening, balance : Nat]
NotYet == [way \in Way |-> {}]

DemoTypeOK ==
  /\ TypeOK
  /\ opened \subseteq Opening
  /\ balance \in [Opening -> Nat]
  /\ opening \in [Opening -> {"idle", "get", "find", "insert", "done"}]
  /\ \A b \in Bet, way \in Way :
       /\ found[b][way] \subseteq FoundWallet
       /\ Cardinality(found[b][way]) <= 1
  /\ saves \in [Bet -> [Way -> Nat]]
  /\ raced \subseteq Player
  /\ overlapped \subseteq SUBSET Opening

DemoInit ==
  /\ Init
  /\ opened = {}
  /\ balance = [k \in Opening |-> 0]
  /\ opening = [k \in Opening |-> "idle"]
  /\ found = [b \in Bet |-> NotYet]
  /\ saves = [b \in Bet |-> [way \in Way |-> 0]]
  /\ raced = {}
  /\ overlapped = {}

-----------------------------------------------------------------------------
(* The login and CreateWalletUseCase *)

\* findByUserId: any row of the user, whatever its session
WalletsOf(u) == {k \in opened : Creator[k] = u}

Continue(k, step) == opening' = [opening EXCEPT ![k] = step]

OpeningUnchanged == UNCHANGED <<vars, opened, balance, found, ledgers, overlapped>>

\* The login looks for the wallet first; POST /wallets creates at once.
OpeningArrives(k) ==
  /\ process = "up"
  /\ opening[k] = "idle"
  /\ Continue(k, IF k \in Login THEN "get" ELSE "find")
  /\ OpeningUnchanged

GetFinds(k) ==
  /\ opening[k] = "get"
  /\ WalletsOf(Creator[k]) # {}
  /\ Continue(k, "done")
  /\ OpeningUnchanged

\* The catch block takes every error for a missing wallet.
GetThrows(k) ==
  /\ opening[k] = "get"
  /\ WalletsOf(Creator[k]) = {} \/ PublishMayFail
  /\ Continue(k, "find")
  /\ OpeningUnchanged

AlreadyExists_never(k) == FALSE

\* "Wallet already exists for user"
AlreadyExists(k) == WalletsOf(Creator[k]) # {}

CreateRefused(k) ==
  /\ opening[k] = "find"
  /\ AlreadyExists(k)
  /\ Continue(k, "done")
  /\ OpeningUnchanged

CreateFindsNone(k) ==
  /\ opening[k] = "find"
  /\ ~ AlreadyExists(k)
  /\ Continue(k, "insert")
  /\ overlapped' = overlapped \cup
       {{k, l} : l \in {o \in Opening : opening[o] = "insert" /\ Creator[o] = Creator[k]}}
  /\ UNCHANGED <<vars, opened, balance, found, ledgers>>

\* The row is there; its caller is answered, or the answer is lost and it is not.
Inserted(k) ==
  /\ opening[k] = "insert"
  /\ opened' = opened \cup {k}
  /\ balance' = [balance EXCEPT ![k] = OpeningBalance[k]]
  /\ Continue(k, "done")
  /\ UNCHANGED <<vars, found, ledgers, overlapped>>

CreateFails(k) ==
  /\ opening[k] \in {"find", "insert"}
  /\ Continue(k, "done")
  /\ OpeningUnchanged

OpeningStep(k) ==
  \/ OpeningArrives(k) \/ GetFinds(k) \/ GetThrows(k)
  \/ CreateRefused(k) \/ CreateFindsNone(k) \/ Inserted(k) \/ CreateFails(k)

-----------------------------------------------------------------------------
(* publishBetPlaced and publishBetCashedOut: DebitWalletUseCase and        *)
(* CreditWalletUseCase by way of WalletSyncService                         *)

\* Number(centavos) / 100, then floor(amount * 100)
RoundTrip(amount) == IF amount \in Inexact THEN amount - 1 ELSE amount

TransferAmount(b, way) ==
  RoundTrip(IF way = "debit" THEN Amount[b] ELSE bets[b].winnings)

Publishes(b, way) ==
  IF way = "debit" THEN placing[b].step = "publishing" ELSE cashing[b].step = "publishing"

Accepts(way, have, amount) == way = "debit" => have >= amount

Moved(way, have, amount) == IF way = "debit" THEN have - amount ELSE have + amount

TransferFinds(b, way) ==
  /\ Publishes(b, way)
  /\ found[b][way] = {}
  /\ \E row \in WalletsOf(PlayerOf[b]) :
       /\ Accepts(way, balance[row], TransferAmount(b, way))
       /\ found' = [found EXCEPT ![b][way] = {[row |-> row, balance |-> balance[row]]}]
  /\ UNCHANGED <<vars, opened, balance, opening, ledgers, overlapped>>

Commit_savesFound(b, way, wallet) ==
  /\ balance' = [balance EXCEPT ![wallet.row] = wallet.balance]
  /\ saves' = [saves EXCEPT ![b][way] = @ + 1]
  /\ raced' = IF balance[wallet.row] = wallet.balance THEN raced ELSE raced \cup {PlayerOf[b]}

\* save() writes the balance computed from what was found.
Commit(b, way, wallet) ==
  /\ balance' = [balance EXCEPT ![wallet.row] =
                   Moved(way, wallet.balance, TransferAmount(b, way))]
  /\ saves' = [saves EXCEPT ![b][way] = @ + 1]
  /\ raced' = IF balance[wallet.row] = wallet.balance THEN raced ELSE raced \cup {PlayerOf[b]}

\* The publish returns, the request goes on, and forgets the transfer.
Answer(b, way, outcome) ==
  /\ outcome
  /\ found' = [found EXCEPT ![b][way] = {}]
  /\ UNCHANGED <<opened, opening, overlapped>>

PublishSucceeds(b, way) == IF way = "debit" THEN PlacePublished(b) ELSE CashOutPublished(b)

PublishFails_retries(b, way) == UNCHANGED vars

\* A failed debit is only logged and the bet plays unpaid; a failed credit is
\* HTTP 400 although the bet is cashed out.
PublishFails(b, way) == IF way = "debit" THEN PlacePublishFails(b) ELSE CashOutPublishFails(b)

TransferSaved(b, way) ==
  \E wallet \in found[b][way] :
    /\ Commit(b, way, wallet)
    /\ Answer(b, way, PublishSucceeds(b, way))

\* No wallet, too little in it, or the database rejects one of the two calls.
TransferThrows(b, way) ==
  /\ Publishes(b, way)
  /\ Answer(b, way, PublishFails(b, way))
  /\ UNCHANGED <<balance, ledgers>>

\* The save is committed and its answer lost.
TransferSavedSilently(b, way) ==
  \E wallet \in found[b][way] :
    /\ Commit(b, way, wallet)
    /\ Answer(b, way, PublishFails(b, way))

TransferStep(b, way) ==
  \/ TransferFinds(b, way) \/ TransferSaved(b, way)
  \/ TransferThrows(b, way) \/ TransferSavedSilently(b, way)

-----------------------------------------------------------------------------

\* Publishing is left to the transfers.
OtherSteps ==
  /\ \/ Boot \/ CreateRound \/ TimerStep
     \/ \E r \in RoundId : LoopStep(r) \/ SaveStep(r)
     \/ \E b \in Bet :
          \/ PlayerStep(b)
          \/ PlaceSaved(b) \/ PlaceSaveFails(b)
          \/ CashOutSaved(b) \/ CashOutSaveFails(b)
  /\ UNCHANGED walletVars

\* One process: the logins and transfers under way die with the game.
DemoCrash ==
  /\ Crash
  /\ opening' = [k \in Opening |-> IF opening[k] = "idle" THEN "idle" ELSE "done"]
  /\ found' = [b \in Bet |-> NotYet]
  /\ UNCHANGED <<opened, balance, ledgers, overlapped>>

DemoNext ==
  \/ OtherSteps
  \/ \E k \in Opening : OpeningStep(k)
  \/ \E b \in Bet, way \in Way : TransferStep(b, way)
  \/ DemoCrash

DemoSpec == DemoInit /\ [][DemoNext]_demoVars
=============================================================================
