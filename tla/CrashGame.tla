------------------------------ MODULE CrashGame ------------------------------
(***************************************************************************)
(* The Games service (RoundLifecycle) and the Wallets service              *)
(* (WalletService) on the two sides of the broker.                         *)
(*                                                                         *)
(* They share nothing but the queues: a publish of the Games service is    *)
(* the arrival of the message in the Wallets service's broker, or its loss *)
(* in a connection that is about to close.  The publisher's channel is     *)
(* modelled here (infrastructure/rabbitmq/rabbitmq-publisher.service.ts).  *)
(***************************************************************************)
EXTENDS BetOutcome

CONSTANTS
  Player,
  PlayerOf,        \* PlayerOf[b]: who bets b
  Registered,      \* players with a wallet
  InitialBalance,
  RoundTrip,       \* what is left of an amount after the conversions, see WalletService
  MaxRetries,
  DbMayFail, LinkMayBreak, WalletsMayCrash  \* as in WalletService

ASSUME PlayerAssumption == PlayerOf \in [Bet -> Player] /\ Registered \subseteq Player

(* The events as messages of the Wallets service *)

\* amountInCentavos, winningsInCentavos
EventAmount(e) == IF e.type = "bet.cashed-out" THEN e.winnings ELSE Amount[e.bet]

\* the events the service can publish
Payment == {e \in [type : {"bet.placed", "bet.cashed-out", "bet.lost"},
                   bet : Bet, round : RoundId, winnings : {0} \cup UNION {Payout[b] : b \in Bet}] :
              IF e.type = "bet.cashed-out" THEN e.winnings \in Payout[e.bet]
                                           ELSE e.winnings = 0}

PaymentKind(e) ==
  CASE e.type = "bet.placed" -> "debit"
    [] e.type = "bet.cashed-out" -> "credit"
    [] OTHER -> "none"

ASSUME ConversionAssumption ==
  /\ RoundTrip \in [Payment -> Nat \ {0}]
  /\ \A e \in Payment : RoundTrip[e] \in {EventAmount(e), EventAmount(e) - 1}
ASSUME WalletsAssumption ==
  /\ InitialBalance \in [Player -> Nat]
  /\ MaxRetries \in Nat \ {0}
  /\ {DbMayFail, LinkMayBreak, WalletsMayCrash} \subseteq BOOLEAN
\* A publish on a closed channel throws.
ASSUME ClosedChannelAssumption == LinkMayBreak => PublishMayFail

VARIABLES
  channel,   \* the publisher's: "none", "open", or "closed" but kept
  excused,   \* history: <<b, kind>>: a fault struck b's payment where it is not safe
  \* the Wallets service
  consumer, published, ready, unacked, dlq, claimed, balance, task, applied,
  ledger, version, raced

Wallets == INSTANCE WalletService WITH
  User <- Player,
  Message <- Payment,
  Request <- {},
  Owner <- [e \in Payment |-> PlayerOf[e.bet]],
  Kind <- [e \in Payment |-> PaymentKind(e)],
  Amount <- [e \in Payment |-> EventAmount(e)],
  Malformed <- {},
  ProcessMayCrash <- WalletsMayCrash

walletVars == <<consumer, published, ready, unacked, dlq, claimed, balance, task,
                applied, ledger, version, raced>>

gameVars == <<vars, channel, excused, walletVars>>

GameTypeOK ==
  /\ TypeOK
  /\ Wallets!TypeOK
  /\ events \subseteq Payment
  /\ channel \in {"none", "open", "closed"}
  /\ excused \subseteq Bet \X {"debit", "credit"}

GameInit ==
  /\ Init
  /\ Wallets!Init
  /\ channel = "none"
  /\ excused = {}

-----------------------------------------------------------------------------
(* Where a fault costs a payment *)

PaymentsOf(b, kind) == {e \in Payment : e.bet = b /\ PaymentKind(e) = kind}

\* A request that has to publish ends and its event is not in the queue: the
\* save or the publish rejected, the bet was looked up in the next round, the
\* process died, or the event was lost on its way.
EndsUnpublished(b, kind) ==
  /\ IF kind = "debit" THEN placing[b] # Idle /\ placing'[b] = Idle
                       ELSE cashing[b] # Idle /\ cashing'[b] = Idle
  /\ PaymentsOf(b, kind) \cap published' = {}

\* The claim of an event rejects, a claimed event fails before its save is
\* committed, the process dies in between, or with an event the broker has not
\* got any more, or the broker restarts while the event waits.
Struck(e) ==
  \/ \E n \in 0 .. MaxRetries :
       LET c == <<e, n>> IN
         \/ Wallets!ClaimError(c) /\ e \notin claimed
         \/ /\ Wallets!FindRefused(c) \/ Wallets!FindError(c) \/ Wallets!SaveError(c)
                 \/ Wallets!LinkBreaksInRetry(c)
            /\ applied'[e] = 0
         \/ /\ Wallets!Crash
            /\ \/ task[c].step \in {"find", "save"}
               \/ task[c].step = "claim" /\ c \notin ready \cup unacked
  \/ Wallets!BrokerRestarts /\ <<e, 0>> \in ready

ExcuseUnpublished ==
  excused' = excused \cup
    {x \in Bet \X {"debit", "credit"} : EndsUnpublished(x[1], x[2])}

ExcuseStruck ==
  excused' = excused \cup
    {<<e.bet, PaymentKind(e)>> : e \in {m \in published :
                                          PaymentKind(m) # "none" /\ Struck(m)}}

-----------------------------------------------------------------------------
(* RabbitMQPublisherService *)

\* getChannel keeps the channel it has, also a closed one; a new process has none.
KeepChannel == channel' = IF process' = "down" THEN "none" ELSE channel

\* Neither service waits for the broker to confirm.
Send(e) ==
  /\ channel # "closed"
  /\ channel' = "open"
  /\ Wallets!Publish(e)

\* sendToQueue only writes to a buffer, and the connection is gone.
SendLost ==
  /\ LinkMayBreak
  /\ channel # "closed"
  /\ channel' = "closed"
  /\ UNCHANGED walletVars

ChannelCloses ==
  /\ LinkMayBreak
  /\ channel = "open"
  /\ channel' = "closed"
  /\ UNCHANGED <<vars, walletVars, excused>>

-----------------------------------------------------------------------------

GamesStep ==
  /\ Next
  /\ \/ events' = events /\ KeepChannel /\ UNCHANGED walletVars
     \/ events' # events /\ ((\E e \in events' \ events : Send(e)) \/ SendLost)
  /\ ExcuseUnpublished

WalletsStep ==
  /\ \/ \E c \in Wallets!Copy :
          \/ Wallets!Deliver(c)
          \/ Wallets!ClaimStep(c) \/ Wallets!LinkBreaksInRetry(c)
     \/ \E t \in Wallets!Task : Wallets!WalletStep(t)
     \/ Wallets!LinkBreaks \/ Wallets!Crash \/ Wallets!Start
  /\ UNCHANGED <<vars, channel>>
  /\ ExcuseStruck

\* Both services lose their connections.
BrokerRestarts ==
  /\ Wallets!BrokerRestarts
  /\ channel' = IF channel = "open" THEN "closed" ELSE channel
  /\ UNCHANGED vars
  /\ ExcuseStruck

GameNext == GamesStep \/ ChannelCloses \/ WalletsStep \/ BrokerRestarts

GameSpec == GameInit /\ [][GameNext]_gameVars
=============================================================================
