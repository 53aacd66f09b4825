--------------------------- MODULE CrashGame_proof ---------------------------
(***************************************************************************)
(* Proofs about CrashGame, the two services and the broker between them:   *)
(* any number of players, bets, rounds and retries, with every failure,    *)
(* lost connection and crash of either side.                               *)
(*                                                                         *)
(* Each side keeps what is proved of it alone, because the composition     *)
(* takes only steps that it can take; what is left is the link, that what  *)
(* the Wallets service is told is what the Games service has published.    *)
(***************************************************************************)
EXTENDS CrashGameProps, RoundLifecycle_proof

\* The Wallets service of the composition, with what is proved about it.
W == INSTANCE WalletService_proof WITH
  User <- Player,
  Message <- Payment,
  Request <- {},
  Owner <- [e \in Payment |-> PlayerOf[e.bet]],
  Kind <- [e \in Payment |-> PaymentKind(e)],
  Amount <- [e \in Payment |-> EventAmount(e)],
  Malformed <- {},
  ProcessMayCrash <- WalletsMayCrash

-----------------------------------------------------------------------------
(* The Games service *)

\* Publishing, by whatever way the event goes, is left to the broker's side.
LEMMA GamesGoOn == [GameNext]_gameVars => [Next]_vars
BY DEF GameNext, GamesStep, ChannelCloses, WalletsStep, BrokerRestarts, gameVars, vars

\* Rounds and bets know nothing of the wallets: whatever is proved of the Games
\* service alone holds in front of a broker that loses its events.
THEOREM GamesKeepTheirPromises == GameSpec => Spec
<1>1. GameInit => Init
  BY DEF GameInit
<1> QED BY <1>1, GamesGoOn, PTL DEF GameSpec, Spec

-----------------------------------------------------------------------------
(* The Wallets service *)

\* What a bet may win is an amount.
LEMMA PayoutIsNat == \A b \in Bet : Payout[b] \subseteq Nat
BY AmountAssumption, MultiplierAssumption DEF Payout, Winnings

\* So is what an event is about.
LEMMA AmountIsNat == \A e \in Payment : EventAmount(e) \in Nat /\ e.bet \in Bet
BY PayoutIsNat, AmountAssumption DEF Payment, EventAmount

\* The events of the Games service are messages the Wallets service can take,
\* in every respect its proofs assume.
LEMMA EventsAreMessages ==
  /\ W!OperationAssumption /\ W!AmountAssumption /\ W!RetryAssumption
  /\ W!SwitchAssumption /\ W!TaskAssumption
<1>1. W!OperationAssumption
  BY PlayerAssumption, AmountIsNat DEF W!OperationAssumption, W!Operation, PaymentKind
<1>2. W!AmountAssumption
  BY ConversionAssumption, WalletsAssumption, AmountIsNat
  DEF W!AmountAssumption, W!Operation
<1>3. W!RetryAssumption /\ W!SwitchAssumption /\ W!TaskAssumption
  BY WalletsAssumption DEF W!RetryAssumption, W!SwitchAssumption, W!TaskAssumption
<1> QED BY <1>1, <1>2, <1>3

\* A handler of the composition is one of the Wallets service.
LEMMA HandlerSteps ==
  /\ \A c \in Wallets!Copy : Wallets!Deliver(c) => W!Deliver(c)
  /\ \A c \in Wallets!Copy : Wallets!ClaimStep(c) => W!ClaimStep(c)
  /\ \A t \in Wallets!Task : Wallets!WalletStep(t) => W!WalletStep(t)
  /\ \A c \in Wallets!Copy : Wallets!LinkBreaksInRetry(c) => W!LinkBreaksInRetry(c)
<1> USE DEF Wallets!broker, Wallets!wallets, W!broker, W!wallets,
            Wallets!IdleTask, W!IdleTask, Wallets!DoneTask, W!DoneTask,
            Wallets!At, W!At, Wallets!Ended, W!Ended,
            Wallets!Succeed, W!Succeed, Wallets!Fail, W!Fail
<1>1. \A c \in Wallets!Copy : Wallets!Deliver(c) => W!Deliver(c)
  BY DEF Wallets!Deliver, W!Deliver
<1>2. \A c \in Wallets!Copy : Wallets!ClaimStep(c) => W!ClaimStep(c)
  BY DEF Wallets!ClaimStep, W!ClaimStep, Wallets!ClaimWon, W!ClaimWon, Wallets!ClaimLost,
         W!ClaimLost, Wallets!ClaimError, W!ClaimError, Wallets!Claimed, W!Claimed
<1> USE DEF Wallets!Refused, W!Refused, Wallets!UserOf, W!UserOf,
            Wallets!OperationOf, W!OperationOf, Wallets!Sufficient, W!Sufficient,
            Wallets!After, W!After, Wallets!Commit, W!Commit
<1>3. \A t \in Wallets!Task : Wallets!WalletStep(t) => W!WalletStep(t)
  BY DEF Wallets!WalletStep, W!WalletStep, Wallets!FindWallet, W!FindWallet,
         Wallets!FindRefused, W!FindRefused, Wallets!FindError, W!FindError,
         Wallets!SaveWallet, W!SaveWallet, Wallets!SaveError, W!SaveError
<1>4. \A c \in Wallets!Copy : Wallets!LinkBreaksInRetry(c) => W!LinkBreaksInRetry(c)
  BY DEF Wallets!LinkBreaksInRetry, W!LinkBreaksInRetry
<1> QED BY <1>1, <1>2, <1>3, <1>4

\* So are a lost connection, a crash and a start.
LEMMA ProcessSteps ==
  /\ Wallets!LinkBreaks => W!LinkBreaks
  /\ Wallets!BrokerRestarts => W!BrokerRestarts
  /\ Wallets!Crash => W!Crash
  /\ Wallets!Start => W!Start
BY DEF Wallets!broker, Wallets!wallets, W!broker, W!wallets, Wallets!LinkBreaks,
       W!LinkBreaks, Wallets!BrokerRestarts, W!BrokerRestarts, Wallets!Start, W!Start,
       Wallets!Crash, W!Crash, Wallets!Task, W!Task, Wallets!Copy, W!Copy,
       Wallets!IdleTask, W!IdleTask, Wallets!DoneTask, W!DoneTask

\* A publish that reaches the broker is a publish of an event of the game.
LEMMA SendSteps == \A e \in Payment : Send(e) => W!Publish(e)
BY DEF Send, Wallets!Publish, W!Publish, Wallets!wallets, W!wallets

\* As long as what the Games service publishes are events it can publish, the
\* Wallets service of the composition takes its own steps.
LEMMA WalletsGoOn ==
  events' \subseteq Payment /\ [GameNext]_gameVars => [W!Next]_(W!vars)
<1> SUFFICES ASSUME events' \subseteq Payment, [GameNext]_gameVars PROVE [W!Next]_(W!vars)
  OBVIOUS
<1>v. UNCHANGED walletVars => UNCHANGED W!vars
  BY DEF walletVars, W!vars
<1>c. Wallets!Copy = W!Copy /\ Wallets!Task = W!Task
  BY DEF Wallets!Copy, W!Copy, Wallets!Task, W!Task
<1>1. CASE GamesStep
  BY <1>1, <1>v, SendSteps DEF GamesStep, SendLost, W!Next
<1>2. CASE WalletsStep
  BY <1>2, <1>c, HandlerSteps, ProcessSteps DEF WalletsStep, W!Next
<1>3. CASE BrokerRestarts
  BY <1>3, ProcessSteps DEF BrokerRestarts, W!Next
<1>4. CASE ChannelCloses \/ UNCHANGED gameVars
  BY <1>4, <1>v DEF ChannelCloses, gameVars
<1> QED BY <1>1, <1>2, <1>3, <1>4 DEF GameNext

-----------------------------------------------------------------------------
(* The events                                                              *)

\* What a step publishes: nothing, the event of one request, or a loss.
LEMMA EventSteps ==
  ASSUME TypeInv, [Next]_vars
  PROVE  \/ events' = events
         \/ \E b \in Bet :
              /\ placing[b].step = "publishing" /\ placing'[b].step = "idle"
              /\ events' = events \cup {BetEvent("bet.placed", b, placing[b].round, 0)}
         \/ \E b \in Bet :
              /\ cashing[b].step = "publishing" /\ cashing'[b].step = "idle"
              /\ events' = events \cup
                   {BetEvent("bet.cashed-out", b, cashing[b].round, bets[b].winnings)}
         \/ \E r \in RoundId :
              /\ losing[r].bet # {}
              /\ events' = events \cup
                   {BetEvent("bet.lost", b, losing[r].round, 0) : b \in losing[r].bet}
<1>t. placing \in [Bet -> Call] /\ cashing \in [Bet -> Call]
  BY DEF TypeInv, TypeOK
<1>1. CASE Boot \/ CreateRound \/ TimerStep \/ Crash \/ UNCHANGED vars
  BY <1>1
  DEF Boot, CreateRound, TimerStep, PauseTimer, StartRound, LateBettingTimer, Crash, vars
<1>2. ASSUME NEW r \in RoundId, LoopStep(r) \/ SaveStep(r) PROVE events' = events
  BY <1>2
  DEF LoopStep, SaveStep, Tick, TickThrows, InitSaved, InitSaveFails, RunningSaved,
      RunningSaveFails, CrashedSaved, CrashedSaveFails
<1>3. ASSUME NEW r \in RoundId, LossStep(r)
      PROVE  \/ events' = events
             \/ /\ losing[r].bet # {}
                /\ events' = events \cup
                     {BetEvent("bet.lost", b, losing[r].round, 0) : b \in losing[r].bet}
  BY <1>3 DEF LossStep, LossPublished, LossPublishFails
<1>4. ASSUME NEW b \in Bet, PlayerStep(b) PROVE events' = events
  BY <1>4 DEF PlayerStep, PlaceBet, CashOut
<1>5. ASSUME NEW b \in Bet, PlaceStep(b)
      PROVE  \/ events' = events
             \/ /\ placing[b].step = "publishing" /\ placing'[b].step = "idle"
                /\ events' = events \cup {BetEvent("bet.placed", b, placing[b].round, 0)}
  BY <1>t, <1>5
  DEF PlaceStep, PlaceSaved, PlaceSaveFails, PlacePublished, PlacePublishFails, Idle
<1>6. ASSUME NEW b \in Bet, CashOutStep(b)
      PROVE  \/ events' = events
             \/ /\ cashing[b].step = "publishing" /\ cashing'[b].step = "idle"
                /\ events' = events \cup
                     {BetEvent("bet.cashed-out", b, cashing[b].round, bets[b].winnings)}
  BY <1>t, <1>6
  DEF CashOutStep, CashOutSaved, CashOutSaveFails, CashOutPublished, CashOutPublishFails, Idle
<1> QED BY <1>1, <1>2, <1>3, <1>4, <1>5, <1>6 DEF Next

\* Every event is one the service can publish, in particular of a round it had.
ShapeInv ==
  /\ events \subseteq Payment
  /\ \A b \in Bet : placing[b].step = "publishing" => placing[b].round \in RoundId
  /\ \A r \in RoundId : losing[r].bet # {} => losing[r].round \in RoundId

\* A bet is announced, and its payout ordered, by one event: the request that
\* publishes it is the only one there ever is, and it is over.
OnceInv ==
  /\ \A e, f \in events : e.bet = f.bet /\ e.type = f.type /\ e.type # "bet.lost" => e = f
  /\ \A e \in events : /\ e.type = "bet.placed" => placing[e.bet].step = "idle"
                       /\ e.type = "bet.cashed-out" => cashing[e.bet].step = "idle"

\* While there is a bet there is a current round.
LEMMA BetsHaveRounds ==
  ASSUME TypeInv, GameInv, NEW b \in Bet, bets[b].state # "ABSENT"
  PROVE  current \in RoundId /\ bets[b].round \in RoundId
<1>1. bets[b].state \in {"PENDING", "CASHED_OUT", "LOST"} /\ current \in 0 .. MaxRounds
  BY DEF TypeInv, TypeOK, BetRecord
<1>2. bets[b].round \in RoundId /\ rounds[bets[b].round].state # "NONE"
  BY <1>1 DEF GameInv, BetsInRounds, BetsSettleWithRound
<1>3. ~ (bets[b].round > current)
  BY <1>2 DEF GameInv, RoundsInOrder
<1> QED BY <1>1, <1>2, <1>3 DEF RoundId

\* The winnings of a cashed-out bet are a payout.
LEMMA WinningsArePayouts ==
  ASSUME TypeInv, GameInv, NEW b \in Bet, bets[b].state = "CASHED_OUT"
  PROVE  bets[b].winnings \in Payout[b]
<1>1. /\ bets[b].round \in RoundId /\ rounds[bets[b].round] \in RoundRecord
      /\ rounds[bets[b].round].state \in {"RUNNING", "CRASHED"}
      /\ bets[b].cashOutMultiplier \in One .. rounds[bets[b].round].crashPoint - 1
      /\ bets[b].winnings = Winnings(Amount[b], bets[b].cashOutMultiplier)
  BY DEF TypeInv, TypeOK, GameInv, BetsInRounds, BetsSettleWithRound
<1>2. rounds[bets[b].round].crashPoint \in CrashMultiplier
  BY <1>1 DEF GameInv, RoundsInOrder, RoundRecord
<1>3. bets[b].cashOutMultiplier \in One .. MaxCrash - 1
  BY <1>1, <1>2, MultiplierAssumption DEF CrashMultiplier
<1> QED BY <1>1, <1>3 DEF Payout

\* Every step preserves the shape of the events.
LEMMA ShapeInvStep ==
  ASSUME TypeInv, GameInv, EventInv, ShapeInv, [Next]_vars
  PROVE  ShapeInv'
<1>t. /\ placing \in [Bet -> Call] /\ cashing \in [Bet -> Call]
      /\ losing \in [RoundId -> LossLoop]
  BY DEF TypeInv, TypeOK
<1>1. events' \subseteq Payment
  <2>1. ASSUME NEW b \in Bet, placing[b].step = "publishing"
        PROVE  BetEvent("bet.placed", b, placing[b].round, 0) \in Payment
    BY <2>1 DEF ShapeInv, BetEvent, Payment
  <2>2. ASSUME NEW b \in Bet, cashing[b].step = "publishing"
        PROVE  BetEvent("bet.cashed-out", b, cashing[b].round, bets[b].winnings) \in Payment
    <3>1. bets[b].state = "CASHED_OUT" /\ cashing[b].round = bets[b].round
      BY <2>2 DEF EventInv
    <3>2. bets[b].round \in RoundId /\ bets[b].winnings \in Payout[b]
      BY <3>1, BetsHaveRounds, WinningsArePayouts
    <3> QED BY <3>1, <3>2 DEF BetEvent, Payment
  <2>3. ASSUME NEW r \in RoundId, NEW b \in losing[r].bet
        PROVE  BetEvent("bet.lost", b, losing[r].round, 0) \in Payment
    <3>1. b \in Bet /\ losing[r].round \in RoundId
      BY <1>t, <2>3 DEF ShapeInv, LossLoop
    <3> QED BY <3>1 DEF BetEvent, Payment
  <2> QED BY <2>1, <2>2, <2>3, EventSteps DEF ShapeInv
<1>2. ASSUME NEW b \in Bet, placing'[b].step = "publishing"
      PROVE  placing'[b].round \in RoundId
  <2>1. CASE placing'[b] = placing[b]
    BY <1>2, <2>1 DEF ShapeInv
  <2>2. CASE PlaceSaved(b)
    <3>1. current \in RoundId
      BY <1>t, <2>2, BetsHaveRounds DEF PlaceSaved, EventInv
    <3> QED BY <1>t, <2>2, <3>1 DEF PlaceSaved, Publishing
  <2>3. placing'[b] = placing[b] \/ PlaceSaved(b)
    <3>1. ASSUME NEW a \in Bet, PlaceStep(a) \/ PlaceBet(a)
          PROVE  placing'[b] = placing[b] \/ PlaceSaved(b)
      BY <1>t, <1>2, <3>1
      DEF PlaceStep, PlaceSaved, PlaceSaveFails, PlacePublished, PlacePublishFails, PlaceBet,
          Idle, Saving
    <3>2. ASSUME NEW a \in Bet, CashOutStep(a) \/ \E m \in One .. MaxCrash : CashOut(a, m)
          PROVE  placing' = placing
      BY <3>2
      DEF CashOutStep, CashOutSaved, CashOutSaveFails, CashOutPublished, CashOutPublishFails,
          CashOut
    <3>3. ASSUME NEW r \in RoundId, LoopStep(r) \/ SaveStep(r) \/ LossStep(r)
          PROVE  placing' = placing
      BY <3>3
      DEF LoopStep, SaveStep, LossStep, Tick, TickThrows, InitSaved, InitSaveFails,
          RunningSaved, RunningSaveFails, CrashedSaved, CrashedSaveFails, LossPublished,
          LossPublishFails, requests
    <3>4. CASE Boot \/ CreateRound \/ TimerStep \/ UNCHANGED vars
      BY <3>4
      DEF Boot, CreateRound, TimerStep, PauseTimer, StartRound, LateBettingTimer, requests, vars
    <3>5. ~ Crash
      BY <1>2 DEF Crash, Idle
    <3> QED BY <3>1, <3>2, <3>3, <3>4, <3>5 DEF Next, PlayerStep
  <2> QED BY <2>1, <2>2, <2>3
<1>3. ASSUME NEW r \in RoundId, losing'[r].bet # {} PROVE losing'[r].round \in RoundId
  <2>1. CASE losing'[r] = losing[r]
    BY <1>3, <2>1 DEF ShapeInv
  <2>2. ASSUME CrashedSaved(r) \/ LossPublished(r) PROVE losing'[r].round \in RoundId
    <3>1. current # 0
      BY <2>2 DEF CrashedSaved, LossPublished, TypeInv, Unborn
    <3>2. current \in RoundId
      BY <3>1 DEF TypeInv, TypeOK, RoundId
    <3>3. losing'[r] = NoLossLoop \/ losing'[r].round = current
      BY <1>t, <2>2 DEF CrashedSaved, LossPublished, NextLoss
    <3> QED BY <1>3, <3>2, <3>3 DEF NoLossLoop
  <2>3. losing'[r] = losing[r] \/ CrashedSaved(r) \/ LossPublished(r)
    <3>1. ASSUME NEW q \in RoundId, SaveStep(q) \/ LossStep(q)
          PROVE  losing'[r] = losing[r] \/ CrashedSaved(r) \/ LossPublished(r)
      <4>1. CASE CrashedSaved(q) \/ LossPublished(q)
        BY <1>t, <4>1 DEF CrashedSaved, LossPublished, NextLoss
      <4>2. CASE LossPublishFails(q)
        BY <1>t, <1>3, <4>2 DEF LossPublishFails, NoLossLoop
      <4>3. CASE \/ InitSaved(q) \/ InitSaveFails(q) \/ RunningSaved(q) \/ RunningSaveFails(q)
                 \/ CrashedSaveFails(q)
        BY <4>3
        DEF InitSaved, InitSaveFails, RunningSaved, RunningSaveFails, CrashedSaveFails
      <4> QED BY <3>1, <4>1, <4>2, <4>3 DEF SaveStep, LossStep
    <3>2. ASSUME NEW b \in Bet, PlayerStep(b) \/ PlaceStep(b) \/ CashOutStep(b)
          PROVE  losing' = losing
      BY <3>2
      DEF PlayerStep, PlaceBet, CashOut, PlaceStep, PlaceSaved, PlaceSaveFails, PlacePublished,
          PlacePublishFails, CashOutStep, CashOutSaved, CashOutSaveFails, CashOutPublished,
          CashOutPublishFails
    <3>3. ASSUME NEW q \in RoundId, LoopStep(q) PROVE losing' = losing
      BY <3>3 DEF LoopStep, Tick, TickThrows
    <3>4. CASE Boot \/ CreateRound \/ TimerStep \/ UNCHANGED vars
      BY <3>4
      DEF Boot, CreateRound, TimerStep, PauseTimer, StartRound, LateBettingTimer, vars
    <3>5. ~ Crash
      BY <1>3 DEF Crash, NoLossLoop
    <3> QED BY <3>1, <3>2, <3>3, <3>4, <3>5 DEF Next
  <2> QED BY <2>1, <2>2, <2>3
<1> QED BY <1>1, <1>2, <1>3 DEF ShapeInv

\* Every step preserves that there is one event each.
LEMMA OnceInvStep ==
  ASSUME TypeInv, GameInv, EventInv, OnceInv, [Next]_vars
  PROVE  OnceInv'
<1>r. \A b \in Bet :
        /\ placing'[b].step # "idle" => placing[b].step # "idle" \/ bets[b].state = "ABSENT"
        /\ cashing'[b].step # "idle" => cashing[b].step # "idle" \/ bets[b].state = "PENDING"
  BY RequestSteps
<1>b. \A e \in events : e.bet \in Bet
  BY DEF TypeInv, TypeOK, Event
\* The request of an event that is there stays over.
<1>o. \A e \in events : /\ e.type = "bet.placed" => placing'[e.bet].step = "idle"
                        /\ e.type = "bet.cashed-out" => cashing'[e.bet].step = "idle"
  BY <1>r, <1>b DEF OnceInv, EventInv, PaymentEventsAreTrue
<1>1. CASE events' = events
  BY <1>o, <1>1 DEF OnceInv
<1>2. ASSUME NEW new, events' = events \cup {new},
             \A e \in events : e.bet = new.bet => e.type # new.type,
             new.type = "bet.placed" => placing'[new.bet].step = "idle",
             new.type = "bet.cashed-out" => cashing'[new.bet].step = "idle"
      PROVE  OnceInv'
  BY <1>o, <1>2 DEF OnceInv
<1>3. ASSUME NEW b \in Bet,
             placing[b].step = "publishing", placing'[b].step = "idle",
             events' = events \cup {BetEvent("bet.placed", b, placing[b].round, 0)}
      PROVE  OnceInv'
  <2> DEFINE new == BetEvent("bet.placed", b, placing[b].round, 0)
  <2>1. new.type = "bet.placed" /\ new.bet = b
    BY DEF BetEvent
  <2> HIDE DEF new
  <2>2. \A e \in events : e.bet = new.bet => e.type # new.type
    BY <1>3, <2>1 DEF OnceInv
  <2> QED BY <1>2, <1>3, <2>1, <2>2 DEF new
<1>4. ASSUME NEW b \in Bet,
             cashing[b].step = "publishing", cashing'[b].step = "idle",
             events' = events \cup
               {BetEvent("bet.cashed-out", b, cashing[b].round, bets[b].winnings)}
      PROVE  OnceInv'
  <2> DEFINE new == BetEvent("bet.cashed-out", b, cashing[b].round, bets[b].winnings)
  <2>1. new.type = "bet.cashed-out" /\ new.bet = b
    BY DEF BetEvent
  <2> HIDE DEF new
  <2>2. \A e \in events : e.bet = new.bet => e.type # new.type
    BY <1>4, <2>1 DEF OnceInv
  <2> QED BY <1>2, <1>4, <2>1, <2>2 DEF new
<1>5. ASSUME NEW r \in RoundId,
             events' = events \cup
               {BetEvent("bet.lost", b, losing[r].round, 0) : b \in losing[r].bet}
      PROVE  OnceInv'
  <2>1. \A e \in events' : e \in events \/ e.type = "bet.lost"
    BY <1>5 DEF BetEvent
  <2> QED BY <1>o, <2>1 DEF OnceInv
<1> QED BY <1>1, <1>3, <1>4, <1>5, EventSteps

-----------------------------------------------------------------------------
(* The link                                                                *)

\* Whatever reaches the broker is an event the Games service has published.
LinkInv == published \subseteq events

GamesInv ==
  /\ TypeInv /\ GameInv /\ EventInv /\ NothingElseWon
  /\ ShapeInv /\ OnceInv

WalletsInv == W!TypeInv /\ W!ClaimInv /\ W!SourceInv

\* The channel is the publisher's, and nothing is excused but a payment.
ChannelInv ==
  /\ channel \in {"none", "open", "closed"}
  /\ excused \subseteq Bet \X {"debit", "credit"}

BothInv == GamesInv /\ WalletsInv /\ LinkInv /\ ChannelInv

\* A wallet step of the composition leaves the game alone, and a step of the
\* game moves no wallet.
LEMMA SidesApart ==
  [GameNext]_gameVars => UNCHANGED vars \/ applied' = applied
<1>1. CASE GamesStep
  BY <1>1 DEF GamesStep, SendLost, walletVars, Send, Wallets!Publish, Wallets!wallets
<1> QED
  BY <1>1 DEF GameNext, ChannelCloses, WalletsStep, BrokerRestarts, gameVars, vars, walletVars

\* The wallets' side publishes nothing.
LEMMA NothingPublished ==
  /\ \A c \in Wallets!Copy :
       Wallets!Deliver(c) \/ Wallets!ClaimStep(c) \/ Wallets!LinkBreaksInRetry(c) =>
         published' = published
  /\ \A t \in Wallets!Task : Wallets!WalletStep(t) => published' = published
  /\ Wallets!LinkBreaks \/ Wallets!BrokerRestarts \/ Wallets!Crash \/ Wallets!Start =>
       published' = published
<1>1. ASSUME NEW c \in Wallets!Copy,
             Wallets!Deliver(c) \/ Wallets!ClaimStep(c) \/ Wallets!LinkBreaksInRetry(c)
      PROVE  published' = published
  BY <1>1
  DEF Wallets!Deliver, Wallets!ClaimStep, Wallets!ClaimWon, Wallets!ClaimLost,
      Wallets!ClaimError, Wallets!Succeed, Wallets!LinkBreaksInRetry, Wallets!broker
<1>2. ASSUME NEW t \in Wallets!Task, Wallets!WalletStep(t) PROVE published' = published
  BY <1>2
  DEF Wallets!WalletStep, Wallets!FindWallet, Wallets!FindRefused, Wallets!FindError,
      Wallets!SaveWallet, Wallets!SaveError, Wallets!Succeed, Wallets!Fail, Wallets!broker
<1>3. CASE Wallets!LinkBreaks \/ Wallets!BrokerRestarts \/ Wallets!Crash \/ Wallets!Start
  BY <1>3
  DEF Wallets!LinkBreaks, Wallets!BrokerRestarts, Wallets!Crash, Wallets!Start,
      Wallets!broker
<1> QED BY <1>1, <1>2, <1>3

\* So what has arrived grows by the new event of a step of the game, if at all.
LEMMA PublishedSteps ==
  ASSUME [GameNext]_gameVars
  PROVE  published' = published \/ \E e \in events' \ events : published' = published \cup {e}
<1>1. CASE GamesStep
  BY <1>1 DEF GamesStep, SendLost, walletVars, Send, Wallets!Publish
<1>2. CASE WalletsStep \/ BrokerRestarts
  BY <1>2, NothingPublished DEF WalletsStep, BrokerRestarts
<1>3. CASE ChannelCloses \/ UNCHANGED gameVars
  BY <1>3 DEF ChannelCloses, gameVars, walletVars
<1> QED BY <1>1, <1>2, <1>3 DEF GameNext

\* No event is ever taken back.
LEMMA EventsStay == TypeInv /\ [Next]_vars => events \subseteq events'
BY EventSteps

\* Everything holds initially.
LEMMA BothInvInit == GameInit => BothInv
<1> SUFFICES ASSUME GameInit PROVE BothInv
  OBVIOUS
<1>i. Init /\ Wallets!Init
  BY DEF GameInit
<1>1. GamesInv
  <2>1. TypeInv /\ GameInv /\ EventInv /\ NothingElseWon
    BY <1>i, TypeInvInit, GameInvInit, EventInvInit, NothingElseWonKept
  <2>2. ShapeInv /\ OnceInv
    BY <1>i DEF Init, ShapeInv, OnceInv, Idle, NoLossLoop
  <2> QED BY <2>1, <2>2 DEF GamesInv
<1>2. WalletsInv
  <2>1. W!Init
    BY <1>i
    DEF Wallets!Init, W!Init, Wallets!Task, W!Task, Wallets!Copy, W!Copy, Wallets!IdleTask,
        W!IdleTask, Wallets!Operation, W!Operation
  <2> QED
    BY <2>1, EventsAreMessages, W!TypeInvInit, W!ClaimInvInit, W!SourceInvInit
    DEF WalletsInv
<1>3. LinkInv /\ ChannelInv
  BY <1>i DEF GameInit, Wallets!Init, LinkInv, ChannelInv
<1> QED BY <1>1, <1>2, <1>3 DEF BothInv

\* Every step of the composition preserves it.
LEMMA BothInvStep == BothInv /\ [GameNext]_gameVars => BothInv'
<1> SUFFICES ASSUME BothInv, [GameNext]_gameVars PROVE BothInv'
  OBVIOUS
<1>n. [Next]_vars
  BY GamesGoOn
<1>g. TypeInv /\ GameInv /\ EventInv /\ NothingElseWon /\ ShapeInv /\ OnceInv
  BY DEF BothInv, GamesInv
<1>1. GamesInv'
  BY <1>g, <1>n, TypeInvStep, GameInvStep, EventInvStep, NothingElseWonKept, ShapeInvStep,
     OnceInvStep
  DEF GamesInv
<1>2. WalletsInv'
  <2>1. [W!Next]_(W!vars)
    BY <1>1, WalletsGoOn DEF GamesInv, ShapeInv
  <2>2. W!TypeInv /\ W!ClaimInv /\ W!SourceInv
    BY DEF BothInv, WalletsInv
  <2> QED
    BY <2>1, <2>2, EventsAreMessages, W!TypeInvStep, W!ClaimInvStep, W!SourceInvStep
    DEF WalletsInv
<1>3. LinkInv'
  BY <1>g, <1>n, EventsStay, PublishedSteps DEF BothInv, LinkInv
<1>4. ChannelInv'
  <2>1. channel' \in {"none", "open", "closed"}
    BY DEF BothInv, ChannelInv, GameNext, GamesStep, KeepChannel, Send, SendLost,
           ChannelCloses, WalletsStep, BrokerRestarts, gameVars
  <2>2. \A e \in published : e.bet \in Bet /\ PaymentKind(e) \in {"debit", "credit", "none"}
    BY <1>g, AmountIsNat DEF BothInv, LinkInv, ShapeInv, PaymentKind
  <2>3. ExcuseUnpublished => excused' \subseteq Bet \X {"debit", "credit"}
    BY DEF BothInv, ChannelInv, ExcuseUnpublished
  <2>4. ExcuseStruck => excused' \subseteq Bet \X {"debit", "credit"}
    BY <2>2 DEF BothInv, ChannelInv, ExcuseStruck
  <2>5. ExcuseUnpublished \/ ExcuseStruck \/ excused' = excused
    BY DEF GameNext, GamesStep, ChannelCloses, WalletsStep, BrokerRestarts, gameVars
  <2> QED BY <2>1, <2>3, <2>4, <2>5 DEF BothInv, ChannelInv
<1> QED BY <1>1, <1>2, <1>3, <1>4 DEF BothInv

\* The two services and the broker between them stay well typed, and every
\* event has the form the Wallets service takes.
THEOREM GameTypeCorrect == GameSpec => []GameTypeOK
<1>1. BothInv => GameTypeOK
  <2> SUFFICES ASSUME BothInv PROVE GameTypeOK
    OBVIOUS
  <2>1. TypeOK /\ events \subseteq Payment
    BY DEF BothInv, GamesInv, TypeInv, ShapeInv
  <2>2. Wallets!TypeOK
    <3>1. W!TypeOK
      BY DEF BothInv, WalletsInv, W!TypeInv
    <3> QED
      BY <3>1
      DEF Wallets!TypeOK, W!TypeOK, Wallets!Task, W!Task, Wallets!Copy, W!Copy,
          Wallets!TaskRecord, W!TaskRecord, Wallets!Operation, W!Operation
  <2> QED BY <2>1, <2>2 DEF BothInv, ChannelInv, GameTypeOK
<1> QED BY <1>1, BothInvInit, BothInvStep, PTL DEF GameSpec

-----------------------------------------------------------------------------
(* The promise about money                                                 *)

\* What has moved a wallet did so once, is published, and is a debit or credit.
AppliedInv ==
  \A e \in Payment :
    /\ applied[e] \in {0, 1}
    /\ applied[e] > 0 => e \in events /\ PaymentKind(e) \in {"debit", "credit"}

\* It follows from what each side keeps and the link between them.
LEMMA AppliedOnce == BothInv => AppliedInv
<1> SUFFICES ASSUME BothInv, NEW e \in Payment
             PROVE  /\ applied[e] \in {0, 1}
                    /\ applied[e] > 0 =>
                         e \in events /\ PaymentKind(e) \in {"debit", "credit"}
  BY DEF AppliedInv
<1>1. W!TypeOK /\ W!ClaimInv /\ W!SourceInv
  BY DEF BothInv, WalletsInv, W!TypeInv
<1>2. applied[e] \in Nat
  BY <1>1 DEF W!TypeOK, W!Operation
<1>3. applied[e] <= 1
  BY <1>1 DEF W!ClaimInv
<1>4. applied[e] > 0 => e \in published /\ PaymentKind(e) # "none"
  BY <1>1 DEF W!SourceInv
<1> QED BY <1>2, <1>3, <1>4 DEF BothInv, LinkInv, PaymentKind

\* The kinds of the events.
LEMMA KindFacts ==
  ASSUME NEW e \in Payment
  PROVE  /\ PaymentKind(e) = "debit" <=> e.type = "bet.placed"
         /\ PaymentKind(e) = "credit" <=> e.type = "bet.cashed-out"
         /\ e.bet \in Bet
         /\ e.type # "bet.cashed-out" => e.winnings = 0
BY AmountIsNat DEF PaymentKind, Payment

\* What has moved, event by event.
LEMMA MovesFacts ==
  \A move :
    move \in Moves <=>
      \E e \in Payment : applied[e] > 0 /\ move = <<e.bet, PaymentKind(e), e.winnings, applied[e]>>
BY DEF Moves

\* A save is the one debit or the one credit of its bet, and the game waits.
LEMMA MovesAsPromised ==
  ASSUME BothInv, AppliedInv, AppliedInv', [GameNext]_gameVars
  PROVE  \/ Moves' = Moves
         \/ /\ outcomes' = outcomes
            /\ \E b \in Bet : Payments!Debit(b) \/ Payments!Credit(b)
<1>t. W!TypeInv /\ applied \in [Payment -> Nat] /\ events \subseteq Payment
  BY DEF BothInv, GamesInv, ShapeInv, WalletsInv, W!TypeInv, W!TypeOK, W!Operation
<1>1. CASE applied' = applied
  BY <1>1 DEF Moves
<1>2. ASSUME NEW e \in Payment, applied' = [applied EXCEPT ![e] = @ + 1]
      PROVE  /\ outcomes' = outcomes
             /\ \E b \in Bet : Payments!Debit(b) \/ Payments!Credit(b)
  <2>1. applied[e] = 0 /\ applied'[e] = 1
    BY <1>t, <1>2 DEF AppliedInv
  <2>2. \A f \in Payment : f # e => applied'[f] = applied[f]
    BY <1>t, <1>2
  <2>3. UNCHANGED vars
    BY <2>1, SidesApart
  <2>4. e \in events /\ PaymentKind(e) \in {"debit", "credit"}
    BY <2>1, <2>3 DEF AppliedInv, vars
  <2>5. Moves' = Moves \cup {<<e.bet, PaymentKind(e), e.winnings, 1>>}
    BY <2>1, <2>2 DEF Moves
  <2>6. ~ Payments!Moved(e.bet, PaymentKind(e))
    <3> SUFFICES ASSUME NEW f \in Payment, applied[f] > 0, f.bet = e.bet,
                        PaymentKind(f) = PaymentKind(e)
                 PROVE  FALSE
      BY MovesFacts DEF Payments!Moved
    <3>1. f \in events /\ f.type = e.type /\ e.type # "bet.lost"
      BY <2>4, KindFacts DEF AppliedInv
    <3>2. f = e
      BY <2>4, <3>1 DEF BothInv, GamesInv, OnceInv
    <3> QED BY <2>1, <3>2
  <2>7. outcomes' = outcomes /\ outcomes = [b \in Bet |-> OutcomeOf(bets[b])]
    BY <2>3 DEF outcomes, vars
  <2>8. bets \in [Bet -> BetRecord] /\ e.bet \in Bet
    BY KindFacts DEF BothInv, GamesInv, TypeInv, TypeOK
  <2>9. CASE PaymentKind(e) = "debit"
    <3>1. e.type = "bet.placed" /\ e.winnings = 0
      BY <2>9, KindFacts
    <3>2. outcomes[e.bet] # Payments!NoOutcome
      <4>1. bets[e.bet].state # "ABSENT"
        BY <2>4, <3>1 DEF BothInv, GamesInv, EventInv, PaymentEventsAreTrue
      <4> QED BY <2>8, <4>1 DEF outcomes, OutcomeOf, Payments!NoOutcome, BetRecord
    <3>3. Payments!Debit(e.bet)
      BY <2>5, <2>6, <2>7, <2>9, <3>1, <3>2 DEF Payments!Debit, outcomes
    <3> QED BY <2>7, <2>8, <3>3
  <2>10. CASE PaymentKind(e) = "credit"
    <3>1. e.type = "bet.cashed-out"
      BY <2>10, KindFacts
    <3>2. bets[e.bet].state = "CASHED_OUT" /\ e.winnings = bets[e.bet].winnings
      BY <2>4, <3>1 DEF BothInv, GamesInv, EventInv, PaymentEventsAreTrue
    <3>3. outcomes[e.bet].result = "won" /\ outcomes[e.bet].payout = e.winnings
      BY <2>8, <3>2 DEF outcomes, OutcomeOf
    <3>4. Payments!Credit(e.bet)
      BY <2>5, <2>6, <2>7, <2>10, <3>3 DEF Payments!Credit, outcomes
    <3> QED BY <2>7, <2>8, <3>4
  <2> QED BY <2>4, <2>9, <2>10
<1>3. applied' = applied \/ \E e \in Payment : applied' = [applied EXCEPT ![e] = @ + 1]
  <2>1. events' \subseteq Payment
    BY GamesGoOn, ShapeInvStep DEF BothInv, GamesInv, ShapeInv
  <2> QED
    BY <1>t, <2>1, WalletsGoOn, EventsAreMessages, W!AppliedSteps DEF W!Operation
<1> QED BY <1>1, <1>2, <1>3

\* A step of the composition is one of the promise or changes nothing it speaks of.
LEMMA PaymentStep ==
  BothInv /\ AppliedInv /\ AppliedInv' /\ [GameNext]_gameVars =>
    [Payments!PaymentNext]_(Payments!payments)
<1> SUFFICES ASSUME BothInv, AppliedInv, AppliedInv', [GameNext]_gameVars
             PROVE  Payments!PaymentNext \/ UNCHANGED <<outcomes, Moves>>
  BY DEF Payments!payments, outcomes
<1>1. CASE Moves' = Moves
  BY <1>1, GamesGoOn, OutcomesAsPromised
  DEF BothInv, GamesInv, Payments!PaymentNext, Payments!Place, Payments!Win, Payments!Lose,
      outcomes, Payments!NoOutcome, Payments!OpenOutcome, Payments!LostOutcome,
      NoOutcome, OpenOutcome, LostOutcome
<1>2. CASE \E b \in Bet : Payments!Debit(b) \/ Payments!Credit(b)
  BY <1>2 DEF Payments!PaymentNext
<1> QED BY <1>1, <1>2, MovesAsPromised

\* The promise about money holds end to end, for any number of players, bets,
\* rounds and retries: whatever is lost, redelivered, restarted or fails between
\* a request and the wallet, a stake is taken at most once and only for a bet
\* that was placed, and a payout is given at most once, only for a bet that was
\* cashed out, and is what it won.
THEOREM GamePays == GameSpec => ImplementsPayments
<1>1. GameInit => Payments!PaymentInit
  <2> SUFFICES ASSUME GameInit PROVE Payments!PaymentInit
    OBVIOUS
  <2>1. \A e \in Payment : applied[e] = 0
    BY DEF GameInit, Wallets!Init, Wallets!Operation
  <2>2. Moves = {}
    BY <2>1 DEF Moves
  <2>3. [b \in Bet |-> OutcomeOf(bets[b])] = [b \in Bet |-> Payments!NoOutcome]
    BY DEF GameInit, Init, OutcomeOf, AbsentBet, Payments!NoOutcome
  <2> QED BY <2>2, <2>3 DEF Payments!PaymentInit
<1>2. GameSpec => [](BothInv /\ AppliedInv)
  BY BothInvInit, BothInvStep, AppliedOnce, PTL DEF GameSpec
<1> QED
  BY <1>1, <1>2, PaymentStep, PTL
  DEF GameSpec, ImplementsPayments, Payments!PaymentSpec

-----------------------------------------------------------------------------
(* Nobody is forgotten.  A payment that is published and was not struck has  *)
(* been made, or is alive: its event waits unclaimed for a handler, or a     *)
(* handler works on it.                                                      *)

Working(c) == task[c].step \in {"find", "save"}

Alive(e) ==
  \E c \in Wallets!Copy :
    /\ c[1] = e
    /\ \/ Working(c)
       \/ e \notin claimed /\ (c \in ready \cup unacked \/ task[c].step = "claim")

Kept(e) == applied[e] = 1 \/ Alive(e)

\* A copy is delivered to a handler, and stays with it until it is acked; no
\* handler of a copy has an answer to give.
HandledInv ==
  /\ \A c \in unacked : task[c].step # "idle"
  /\ \A c \in Wallets!Copy : task[c].step # "done"

KeptInv ==
  \A e \in published :
    PaymentKind(e) # "none" /\ <<e.bet, PaymentKind(e)>> \notin excused => Kept(e)

\* A bet whose request is over has its event, unless the request was struck.
RequestInv ==
  \A b \in Bet :
    /\ bets[b].state # "ABSENT" /\ placing[b] = Idle /\ <<b, "debit">> \notin excused
         => PaymentsOf(b, "debit") \cap published # {}
    /\ bets[b].state = "CASHED_OUT" /\ cashing[b] = Idle /\ <<b, "credit">> \notin excused
         => PaymentsOf(b, "credit") \cap published # {}

\* There are no handlers but those of copies, and each is about its event.
LEMMA CopyFacts ==
  /\ Wallets!Task = Wallets!Copy
  /\ \A c \in Wallets!Copy :
       /\ c[1] \in Payment /\ c[2] \in 0 .. MaxRetries /\ c = <<c[1], c[2]>>
       /\ Wallets!OperationOf(c) = c[1]
  /\ \A e \in Payment : <<e, 0>> \in Wallets!Copy
BY WalletsAssumption DEF Wallets!Task, Wallets!Copy, Wallets!OperationOf

WalletTypes ==
  /\ task \in [Wallets!Copy -> Wallets!TaskRecord]
  /\ applied \in [Payment -> Nat]
  /\ unacked \subseteq Wallets!Copy /\ ready \subseteq Wallets!Copy
  /\ \A c \in Wallets!Copy : Working(c) => c[1] \in claimed /\ applied[c[1]] = 0
  /\ HandledInv

\* A step that unclaims nothing, and neither ends a handler of e nor drops a
\* copy of it.
LEMMA KeptFrame ==
  ASSUME NEW e \in Payment, Kept(e), applied'[e] = applied[e],
         e \in claimed' => e \in claimed,
         \A c \in Wallets!Copy :
           c[1] = e =>
             /\ Working(c) => Working(c)'
             /\ task[c].step = "claim" => task'[c].step = "claim"
             /\ c \in ready \cup unacked => c \in ready' \cup unacked'
  PROVE  Kept(e)'
BY DEF Kept, Alive, Working

\* The end of the handler of another event is such a step.
LEMMA KeptEnd ==
  ASSUME WalletTypes, NEW e \in Payment, Kept(e), applied'[e] = applied[e],
         e \in claimed' => e \in claimed,
         NEW d \in Wallets!Copy, d[1] # e,
         Wallets!Succeed(d) \/ Wallets!Fail(d)
  PROVE  Kept(e)'
<1>1. \A c \in Wallets!Copy : c[1] = e => task'[c] = task[c]
  BY CopyFacts DEF WalletTypes, Wallets!Succeed, Wallets!Fail, Wallets!Ended
<1>2. \A c \in Wallets!Copy : c[1] = e /\ c \in ready \cup unacked => c \in ready' \cup unacked'
  BY DEF Wallets!Succeed, Wallets!Fail
<1> QED BY <1>1, <1>2, KeptFrame DEF Working

\* The steps of a claim keep a payment, or strike it.
LEMMA KeptByClaim ==
  ASSUME WalletTypes, NEW e \in Payment, PaymentKind(e) # "none", Kept(e),
         NEW d \in Wallets!Copy, Wallets!ClaimStep(d) \/ Wallets!Deliver(d),
         ~ Struck(e)
  PROVE  Kept(e)'
<1>t. task \in [Wallets!Copy -> Wallets!TaskRecord] /\ applied' = applied
  BY DEF WalletTypes, Wallets!ClaimStep, Wallets!ClaimWon, Wallets!ClaimLost,
         Wallets!ClaimError, Wallets!Deliver, Wallets!wallets
<1>1. CASE Wallets!Deliver(d)
  <2>1. /\ task[d].step = "idle" /\ task' = [task EXCEPT ![d] = Wallets!At("claim")]
        /\ ready' \cup unacked' = ready \cup unacked /\ claimed' = claimed
    BY <1>1 DEF Wallets!Deliver
  <2> QED BY <1>t, <2>1, KeptFrame DEF Working
<1>2. CASE Wallets!ClaimStep(d) /\ d[1] # e
  <2>1. CASE Wallets!ClaimWon(d) /\ task' = [task EXCEPT ![d] = Wallets!At("find")]
             /\ UNCHANGED Wallets!broker
    <3>1. e \in claimed' => e \in claimed
      BY <1>2, <2>1 DEF Wallets!ClaimWon
    <3>2. \A c \in Wallets!Copy : c[1] = e => task'[c] = task[c]
      BY <1>t, <1>2, <2>1
    <3> QED BY <1>t, <2>1, <3>1, <3>2, KeptFrame DEF Working, Wallets!broker
  <2>2. CASE Wallets!Succeed(d) /\ claimed' \in {claimed, claimed \cup {d[1]}}
    BY <1>t, <1>2, <2>2, KeptEnd
  <2> QED
    BY <1>2, <2>1, <2>2
    DEF Wallets!ClaimStep, Wallets!ClaimWon, Wallets!ClaimLost, Wallets!ClaimError
<1>3. CASE Wallets!ClaimWon(d) /\ d[1] = e
  <2>1. task' = [task EXCEPT ![d] = Wallets!At("find")]
    BY <1>3 DEF Wallets!ClaimWon
  <2>2. task'[d].step = "find"
    BY <1>t, <2>1 DEF Wallets!At, Wallets!IdleTask
  <2> QED BY <1>3, <2>2 DEF Kept, Alive, Working
<1>4. CASE (Wallets!ClaimLost(d) \/ Wallets!ClaimError(d)) /\ d[1] = e
  <2>1. e \in claimed
    <3>1. CASE Wallets!ClaimLost(d)
      BY <1>4, <3>1 DEF Wallets!ClaimLost, Wallets!Claimed
    <3>2. CASE Wallets!ClaimError(d)
      <4>1. d = <<e, d[2]>> /\ d[2] \in 0 .. MaxRetries
        BY <1>4, CopyFacts
      <4>2. Wallets!ClaimError(<<e, d[2]>>)
        BY <3>2, <4>1 DEF Wallets!ClaimError, Wallets!Succeed, Wallets!Ended, Wallets!wallets
      <4> QED BY <4>1, <4>2 DEF Struck
    <3> QED BY <1>4, <3>1, <3>2
  <2>2. task[d].step = "claim" /\ \A c \in Wallets!Copy : c # d => task'[c] = task[c]
    BY <1>t, <1>4
    DEF Wallets!ClaimLost, Wallets!ClaimError, Wallets!Succeed, Wallets!Ended
  <2> QED BY <1>t, <2>1, <2>2 DEF Kept, Alive, Working
<1> QED BY <1>1, <1>2, <1>3, <1>4 DEF Wallets!ClaimStep

\* A save commits one operation, or none.
LEMMA CommitFacts ==
  ASSUME WalletTypes, NEW d \in Wallets!Copy, Wallets!Commit(d)
  PROVE  /\ applied'[d[1]] = applied[d[1]] + 1
         /\ \A e \in Payment : e # d[1] => applied'[e] = applied[e]
BY CopyFacts DEF WalletTypes, Wallets!Commit

\* The steps of the use cases keep a payment, make it, or strike it.
LEMMA KeptByHandler ==
  ASSUME WalletTypes, NEW e \in Payment, Kept(e), applied'[e] \in {0, 1},
         NEW d \in Wallets!Copy,
         Wallets!WalletStep(d) \/ Wallets!LinkBreaksInRetry(d),
         ~ Struck(e)
  PROVE  Kept(e)'
<1>t. task \in [Wallets!Copy -> Wallets!TaskRecord] /\ applied \in [Payment -> Nat]
      /\ unacked \subseteq Wallets!Copy
  BY DEF WalletTypes
<1>u. claimed' = claimed
  BY DEF Wallets!WalletStep, Wallets!FindWallet, Wallets!FindRefused, Wallets!FindError,
         Wallets!SaveWallet, Wallets!SaveError, Wallets!LinkBreaksInRetry
<1>d. d[1] \in Payment /\ d = <<d[1], d[2]>> /\ d[2] \in 0 .. MaxRetries
  BY CopyFacts
<1>w. d[1] = e => applied[e] = 0
  BY DEF WalletTypes, Working, Wallets!WalletStep, Wallets!FindWallet, Wallets!FindRefused,
         Wallets!FindError, Wallets!SaveWallet, Wallets!SaveError, Wallets!LinkBreaksInRetry
<1>1. CASE Wallets!FindWallet(d)
  <2>1. /\ Working(d) /\ Working(d)'
        /\ \A c \in Wallets!Copy : c # d => task'[c] = task[c]
        /\ UNCHANGED <<applied, ready, unacked>>
    BY <1>t, <1>1 DEF Wallets!FindWallet, Working, Wallets!broker, Wallets!wallets
  <2> QED BY <1>u, <2>1, KeptFrame DEF Working
<1>2. CASE Wallets!FindRefused(d) \/ Wallets!FindError(d) \/ Wallets!SaveError(d)
  <2>c. Wallets!Fail(d) /\ (Wallets!Commit(d) \/ applied' = applied)
    BY <1>2 DEF Wallets!FindRefused, Wallets!FindError, Wallets!SaveError, Wallets!wallets
  <2>1. CASE d[1] # e
    BY <1>u, <2>c, <2>1, CommitFacts, KeptEnd
  <2>2. CASE d[1] = e
    <3>1. applied'[e] # 0
      <4> SUFFICES ASSUME applied'[e] = 0 PROVE FALSE
        OBVIOUS
      <4> DEFINE n == d[2]
      <4>1. d = <<e, n>> /\ n \in 0 .. MaxRetries
        BY <1>d, <2>2
      <4> HIDE DEF n
      <4>2. \/ Wallets!FindRefused(<<e, n>>) \/ Wallets!FindError(<<e, n>>)
            \/ Wallets!SaveError(<<e, n>>)
        BY <1>2, <4>1
        DEF Wallets!FindRefused, Wallets!FindError, Wallets!SaveError, Wallets!Fail,
            Wallets!Ended, Wallets!Commit, Wallets!wallets, Wallets!Refused, Wallets!UserOf,
            Wallets!OperationOf, Wallets!Sufficient, Wallets!After
      <4>3. Struck(e)
        BY <4>1, <4>2 DEF Struck
      <4> QED BY <4>3
    <3> QED BY <3>1 DEF Kept
  <2> QED BY <2>1, <2>2
<1>3. CASE Wallets!SaveWallet(d)
  <2>1. Wallets!Commit(d) /\ Wallets!Succeed(d)
    BY <1>3 DEF Wallets!SaveWallet
  <2>2. CASE d[1] # e
    BY <1>u, <2>1, <2>2, CommitFacts, KeptEnd
  <2>3. CASE d[1] = e
    BY <1>t, <1>w, <2>1, <2>3, CommitFacts DEF Kept
  <2> QED BY <2>2, <2>3
<1>4. CASE Wallets!LinkBreaksInRetry(d)
  <2>c. Wallets!Commit(d) \/ applied' = applied
    BY <1>4 DEF Wallets!LinkBreaksInRetry, Wallets!wallets
  <2>1. CASE d[1] # e
    <3>1. \A c \in Wallets!Copy : c[1] = e => task'[c] = task[c]
      BY <1>t, <1>4, <2>1 DEF Wallets!LinkBreaksInRetry
    <3>2. ready \cup unacked \subseteq ready' \cup unacked'
      BY <1>4 DEF Wallets!LinkBreaksInRetry
    <3>3. applied'[e] = applied[e]
      BY <2>c, <2>1, CommitFacts
    <3> QED BY <1>u, <3>1, <3>2, <3>3, KeptFrame DEF Working
  <2>2. CASE d[1] = e
    <3>1. applied'[e] # 0
      <4> SUFFICES ASSUME applied'[e] = 0 PROVE FALSE
        OBVIOUS
      <4> DEFINE n == d[2]
      <4>1. d = <<e, n>> /\ n \in 0 .. MaxRetries
        BY <1>d, <2>2
      <4> HIDE DEF n
      <4>2. Wallets!LinkBreaksInRetry(<<e, n>>)
        BY <1>4, <4>1
        DEF Wallets!LinkBreaksInRetry, Wallets!Commit, Wallets!wallets, Wallets!Refused,
            Wallets!UserOf, Wallets!OperationOf, Wallets!Sufficient, Wallets!After
      <4>3. Struck(e)
        BY <4>1, <4>2 DEF Struck
      <4> QED BY <4>3
    <3> QED BY <3>1 DEF Kept
  <2> QED BY <2>1, <2>2
<1> QED BY <1>1, <1>2, <1>3, <1>4 DEF Wallets!WalletStep

\* A lost connection, a restarted broker and a dead process keep a payment or
\* strike it.
LEMMA KeptByProcess ==
  ASSUME WalletTypes, NEW e \in Payment, Kept(e),
         \/ Wallets!LinkBreaks \/ Wallets!BrokerRestarts \/ Wallets!Crash \/ Wallets!Start,
         ~ Struck(e)
  PROVE  Kept(e)'
<1>t. task \in [Wallets!Copy -> Wallets!TaskRecord]
      /\ ready \subseteq Wallets!Copy /\ unacked \subseteq Wallets!Copy
  BY DEF WalletTypes
<1>u. UNCHANGED <<claimed, applied>>
  BY DEF Wallets!LinkBreaks, Wallets!BrokerRestarts, Wallets!Crash, Wallets!Start,
         Wallets!wallets
<1>1. CASE Wallets!LinkBreaks \/ Wallets!Start
  <2>1. task' = task /\ ready \cup unacked \subseteq ready' \cup unacked'
    BY <1>1 DEF Wallets!LinkBreaks, Wallets!Start, Wallets!broker
  <2> QED BY <1>u, <2>1, KeptFrame DEF Working
<1>2. CASE applied[e] = 1
  BY <1>u, <1>2 DEF Kept
<1>3. ASSUME NEW c \in Wallets!Copy, c[1] = e, Wallets!BrokerRestarts,
             Working(c) \/ (e \notin claimed /\ (c \in ready \cup unacked
                                                 \/ task[c].step = "claim"))
      PROVE  Kept(e)'
  <2>1. task' = task /\ ready' = {d \in ready \cup unacked : d[2] > 0} /\ unacked' = {}
    BY <1>3 DEF Wallets!BrokerRestarts
  <2>2. CASE Working(c) \/ (e \notin claimed /\ task[c].step = "claim")
    BY <1>3, <1>u, <2>1, <2>2 DEF Kept, Alive, Working
  <2>3. CASE e \notin claimed /\ c \in ready
    <3>1. c[2] # 0
      BY <1>3, <2>3, CopyFacts DEF Struck
    <3>2. c \in ready'
      BY <2>1, <2>3, <3>1, CopyFacts
    <3> QED BY <1>3, <1>u, <2>3, <3>2 DEF Kept, Alive
  <2>4. CASE e \notin claimed /\ c \in unacked
    <3>1. task[c].step \in {"claim", "find", "save"}
      BY <1>t, <2>4 DEF WalletTypes, HandledInv, Wallets!TaskRecord
    <3> QED BY <2>2, <2>4, <3>1 DEF Working
  <2> QED BY <1>3, <2>2, <2>3, <2>4
<1>4. ASSUME NEW c \in Wallets!Copy, c[1] = e, Wallets!Crash,
             Working(c) \/ (e \notin claimed /\ (c \in ready \cup unacked
                                                 \/ task[c].step = "claim"))
      PROVE  Kept(e)'
  <2>1. ready' = ready \cup unacked
    BY <1>4 DEF Wallets!Crash
  <2>2. c = <<e, c[2]>> /\ c[2] \in 0 .. MaxRetries
    BY <1>4, CopyFacts
  <2>3. ~ Working(c) /\ (task[c].step = "claim" => c \in ready \cup unacked)
    BY <1>4, <2>2 DEF Struck, Working
  <2> QED BY <1>4, <1>u, <2>1, <2>3 DEF Kept, Alive
<1> QED BY <1>1, <1>2, <1>3, <1>4 DEF Kept, Alive

\* The services' own invariants say as much of the handlers.
LEMMA WalletTypesHold == BothInv /\ HandledInv => WalletTypes
<1> SUFFICES ASSUME BothInv, HandledInv PROVE WalletTypes
  OBVIOUS
<1>1. W!TypeOK /\ W!ClaimInv
  BY DEF BothInv, WalletsInv, W!TypeInv
<1>2. W!Copy = Wallets!Copy /\ W!Task = Wallets!Copy /\ W!Operation = Payment
      /\ W!TaskRecord = Wallets!TaskRecord
  BY DEF W!Copy, Wallets!Copy, W!Task, W!Operation, W!TaskRecord, Wallets!TaskRecord
<1>3. /\ task \in [Wallets!Copy -> Wallets!TaskRecord] /\ applied \in [Payment -> Nat]
      /\ unacked \subseteq Wallets!Copy /\ ready \subseteq Wallets!Copy
  BY <1>1, <1>2 DEF W!TypeOK
<1>4. ASSUME NEW c \in Wallets!Copy, Working(c)
      PROVE  c[1] \in claimed /\ applied[c[1]] = 0
  BY <1>1, <1>2, <1>3, <1>4, CopyFacts DEF W!ClaimInv, W!Working, Working
<1> QED BY <1>3, <1>4 DEF WalletTypes

\* What a step of the composition does in the Wallets service: a publish or
\* nothing, with the game; a handler's or the process's step, without it.
LEMMA WalletSteps ==
  ASSUME [GameNext]_gameVars
  PROVE  \/ UNCHANGED walletVars /\ excused \subseteq excused'
         \/ \E e \in events' \ events :
              Wallets!Publish(e) /\ excused \subseteq excused'
         \/ /\ ExcuseStruck /\ published' = published
            /\ \/ \E c \in Wallets!Copy :
                    \/ Wallets!Deliver(c) \/ Wallets!ClaimStep(c)
                    \/ Wallets!WalletStep(c) \/ Wallets!LinkBreaksInRetry(c)
               \/ Wallets!LinkBreaks \/ Wallets!BrokerRestarts \/ Wallets!Crash \/ Wallets!Start
<1>1. CASE GamesStep
  BY <1>1 DEF GamesStep, SendLost, Send, ExcuseUnpublished
<1>2. CASE WalletsStep
  <2>1. ExcuseStruck /\ published' = published
    BY <1>2, NothingPublished DEF WalletsStep
  <2> QED BY <1>2, <2>1, CopyFacts DEF WalletsStep
<1>3. CASE BrokerRestarts
  BY <1>3, NothingPublished DEF BrokerRestarts
<1>4. CASE ChannelCloses \/ UNCHANGED gameVars
  BY <1>4 DEF ChannelCloses, gameVars
<1> QED BY <1>1, <1>2, <1>3, <1>4 DEF GameNext

\* Every step preserves that a copy is with its handler.
LEMMA HandledInvStep ==
  ASSUME WalletTypes, [GameNext]_gameVars
  PROVE  HandledInv'
<1>t. /\ task \in [Wallets!Copy -> Wallets!TaskRecord] /\ HandledInv
      /\ unacked \subseteq Wallets!Copy
  BY DEF WalletTypes
<1>i. /\ Wallets!IdleTask.step = "idle" /\ Wallets!At("claim").step = "claim"
      /\ Wallets!At("find").step = "find"
  BY DEF Wallets!IdleTask, Wallets!At
<1>1. CASE UNCHANGED <<unacked, task>>
  BY <1>t, <1>1 DEF HandledInv
<1>2. ASSUME NEW c \in Wallets!Copy, Wallets!Succeed(c) \/ Wallets!Fail(c) PROVE HandledInv'
  <2>1. task' = [task EXCEPT ![c] = Wallets!IdleTask] /\ unacked' = unacked \ {c}
    BY <1>2 DEF Wallets!Succeed, Wallets!Fail, Wallets!Ended
  <2> QED BY <1>t, <1>i, <2>1 DEF HandledInv
<1>3. ASSUME NEW c \in Wallets!Copy, NEW record, record.step \in {"claim", "find", "save"},
             task' = [task EXCEPT ![c] = record], unacked' \subseteq unacked \cup {c}
      PROVE  HandledInv'
  BY <1>t, <1>3 DEF HandledInv
<1>4. ASSUME NEW c \in Wallets!Copy, Wallets!Deliver(c) PROVE HandledInv'
  <2> DEFINE record == Wallets!At("claim")
  <2>1. task' = [task EXCEPT ![c] = record] /\ unacked' = unacked \cup {c}
    BY <1>4 DEF Wallets!Deliver
  <2>2. record.step = "claim"
    BY <1>i
  <2> HIDE DEF record
  <2> QED BY <1>t, <2>1, <2>2 DEF HandledInv
<1>5. ASSUME NEW c \in Wallets!Copy, Wallets!ClaimStep(c) PROVE HandledInv'
  BY <1>i, <1>2, <1>3, <1>5
  DEF Wallets!ClaimStep, Wallets!ClaimWon, Wallets!ClaimLost, Wallets!ClaimError,
      Wallets!broker
<1>6. ASSUME NEW c \in Wallets!Copy, Wallets!WalletStep(c) PROVE HandledInv'
  BY <1>2, <1>3, <1>6
  DEF Wallets!WalletStep, Wallets!FindWallet, Wallets!FindRefused, Wallets!FindError,
      Wallets!SaveWallet, Wallets!SaveError, Wallets!broker
<1>7. ASSUME NEW c \in Wallets!Copy, Wallets!LinkBreaksInRetry(c) PROVE HandledInv'
  BY <1>t, <1>i, <1>7 DEF Wallets!LinkBreaksInRetry, HandledInv
<1>8. CASE Wallets!LinkBreaks \/ Wallets!BrokerRestarts \/ Wallets!Start
  BY <1>t, <1>8
  DEF Wallets!LinkBreaks, Wallets!BrokerRestarts, Wallets!Start, Wallets!broker, HandledInv
<1>9. CASE Wallets!Crash
  BY <1>i, <1>9, CopyFacts DEF Wallets!Crash, HandledInv
<1>10. ASSUME NEW e, Wallets!Publish(e) PROVE HandledInv'
  BY <1>1, <1>10 DEF Wallets!Publish
<1>11. CASE UNCHANGED walletVars
  BY <1>1, <1>11 DEF walletVars
<1> QED BY <1>4, <1>5, <1>6, <1>7, <1>8, <1>9, <1>10, <1>11, WalletSteps

\* Every step keeps the payments that are published, and starts those it
\* publishes.
LEMMA KeptInvStep ==
  ASSUME BothInv, AppliedInv', WalletTypes, KeptInv, [GameNext]_gameVars
  PROVE  KeptInv'
<1>p. published \subseteq Payment /\ claimed \subseteq published
  BY DEF BothInv, LinkInv, GamesInv, ShapeInv, WalletsInv, W!SourceInv
<1>1. CASE UNCHANGED walletVars /\ excused \subseteq excused'
  BY <1>1 DEF KeptInv, Kept, Alive, Working, walletVars
<1>2. ASSUME NEW e \in events' \ events, Wallets!Publish(e), excused \subseteq excused'
      PROVE  KeptInv'
  <2>0. /\ published' = published \cup {e} /\ e \notin published
        /\ ready' = ready \cup {<<e, 0>>}
        /\ UNCHANGED <<unacked, claimed, task, applied>>
    BY <1>2 DEF Wallets!Publish, Wallets!wallets
  <2>1. e \in Payment
    BY GamesGoOn, ShapeInvStep DEF BothInv, GamesInv, ShapeInv
  <2>2. Kept(e)'
    <3>1. <<e, 0>> \in Wallets!Copy /\ <<e, 0>>[1] = e
      BY <2>1, CopyFacts
    <3> QED BY <1>p, <2>0, <3>1 DEF Kept, Alive
  <2>3. \A f \in published : Kept(f) => Kept(f)'
    BY <1>p, <2>0, KeptFrame DEF Working
  <2> QED BY <1>2, <2>0, <2>2, <2>3 DEF KeptInv
<1>3. ASSUME ExcuseStruck, published' = published,
             \A e \in Payment : PaymentKind(e) # "none" /\ Kept(e) => Struck(e) \/ Kept(e)'
      PROVE  KeptInv'
  <2> SUFFICES ASSUME NEW e \in published, PaymentKind(e) # "none",
                      <<e.bet, PaymentKind(e)>> \notin excused'
               PROVE  Kept(e)'
    BY <1>3 DEF KeptInv
  <2>1. ~ Struck(e) /\ <<e.bet, PaymentKind(e)>> \notin excused
    BY <1>3 DEF ExcuseStruck
  <2> QED BY <1>p, <1>3, <2>1 DEF KeptInv
<1>a. \A e \in Payment : applied'[e] \in {0, 1}
  BY DEF AppliedInv
<1>4. ASSUME NEW c \in Wallets!Copy, ExcuseStruck, published' = published,
             \/ Wallets!Deliver(c) \/ Wallets!ClaimStep(c)
             \/ Wallets!WalletStep(c) \/ Wallets!LinkBreaksInRetry(c)
      PROVE  KeptInv'
  BY <1>a, <1>3, <1>4, KeptByClaim, KeptByHandler
<1>5. ASSUME ExcuseStruck, published' = published,
             \/ Wallets!LinkBreaks \/ Wallets!BrokerRestarts \/ Wallets!Crash \/ Wallets!Start
      PROVE  KeptInv'
  BY <1>3, <1>5, KeptByProcess
<1> QED BY <1>1, <1>2, <1>4, <1>5, WalletSteps

\* A bet comes with the request that places it, a win with the one that cashes out.
LEMMA RequestsOfBets ==
  ASSUME TypeInv, [Next]_vars, NEW b \in Bet
  PROVE  /\ bets[b].state = "ABSENT" /\ bets'[b].state # "ABSENT" => placing'[b] # Idle
         /\ bets[b].state # "CASHED_OUT" /\ bets'[b].state = "CASHED_OUT" =>
              cashing'[b] # Idle
<1>t. /\ bets \in [Bet -> BetRecord]
      /\ placing \in [Bet -> Call] /\ cashing \in [Bet -> Call]
  BY DEF TypeInv, TypeOK
<1>i. Saving # Idle
  BY DEF Saving, Idle
<1>1. ASSUME NEW c \in CrashMultiplier, StartRound(c)
      PROVE  bets'[b].state = bets[b].state
  BY <1>t, <1>1 DEF StartRound, RoundSetBetCrashPoints, BetSetCrashPoint, BetRecord
<1>2. ASSUME NEW r \in RoundId, Tick(r)
      PROVE  /\ bets[b].state = "ABSENT" => bets'[b].state = "ABSENT"
             /\ bets'[b].state = "CASHED_OUT" => bets[b].state = "CASHED_OUT"
  BY <1>t, <1>2
  DEF Tick, RoundUpdateBets, RoundCrashBets, BetLose, PendingIn, BetsOf, BetRecord
<1>3. ASSUME NEW a \in Bet, PlaceBet(a)
      PROVE  IF a = b THEN bets'[b].state = "PENDING" /\ placing'[b] = Saving
                      ELSE bets'[b] = bets[b]
  BY <1>t, <1>3 DEF PlaceBet, RoundPlaceBet, BetCreate, AbsentBet
<1>4. ASSUME NEW a \in Bet, NEW m \in One .. MaxCrash, CashOut(a, m)
      PROVE  IF a = b THEN bets[b].state # "ABSENT" /\ cashing'[b] = Saving
                      ELSE bets'[b] = bets[b]
  BY <1>t, <1>4 DEF CashOut, RoundCanCashOut, BetCanCashOut, RoundCashOut
<1> QED BY <1>i, <1>1, <1>2, <1>3, <1>4, GameSteps

\* Every step preserves that a request that is over has published, or is excused.
LEMMA RequestInvStep ==
  ASSUME BothInv, RequestInv, [GameNext]_gameVars
  PROVE  RequestInv'
<1>n. [Next]_vars /\ TypeInv
  BY GamesGoOn DEF BothInv, GamesInv
<1>p. published \subseteq published'
  BY PublishedSteps
<1>1. CASE GamesStep
  <2>e. excused' = excused \cup {x \in Bet \X {"debit", "credit"} : EndsUnpublished(x[1], x[2])}
    BY <1>1 DEF GamesStep, ExcuseUnpublished
  <2> SUFFICES ASSUME NEW b \in Bet
      PROVE  /\ bets'[b].state # "ABSENT" /\ placing'[b] = Idle /\ <<b, "debit">> \notin excused'
                  => PaymentsOf(b, "debit") \cap published' # {}
             /\ bets'[b].state = "CASHED_OUT" /\ cashing'[b] = Idle
                  /\ <<b, "credit">> \notin excused'
                  => PaymentsOf(b, "credit") \cap published' # {}
    BY DEF RequestInv, PaymentsOf
  <2>1. \A kind \in {"debit", "credit"} :
          <<b, kind>> \notin excused' => <<b, kind>> \notin excused /\ ~ EndsUnpublished(b, kind)
    BY <2>e
  <2>2. ASSUME bets'[b].state # "ABSENT", placing'[b] = Idle, <<b, "debit">> \notin excused'
        PROVE  PaymentsOf(b, "debit") \cap published' # {}
    <3>1. CASE placing[b] = Idle
      <4>1. bets[b].state # "ABSENT"
        BY <1>n, <2>2, RequestsOfBets
      <4> QED BY <1>p, <2>1, <2>2, <3>1, <4>1 DEF RequestInv
    <3>2. CASE placing[b] # Idle
      BY <2>1, <2>2, <3>2 DEF EndsUnpublished
    <3> QED BY <3>1, <3>2
  <2>3. ASSUME bets'[b].state = "CASHED_OUT", cashing'[b] = Idle, <<b, "credit">> \notin excused'
        PROVE  PaymentsOf(b, "credit") \cap published' # {}
    <3>1. CASE cashing[b] = Idle
      <4>1. bets[b].state = "CASHED_OUT"
        BY <1>n, <2>3, <3>1, RequestsOfBets
      <4> QED BY <1>p, <2>1, <2>3, <3>1, <4>1 DEF RequestInv
    <3>2. CASE cashing[b] # Idle
      BY <2>1, <2>3, <3>2 DEF EndsUnpublished
    <3> QED BY <3>1, <3>2
  <2> QED BY <2>2, <2>3
<1>2. CASE UNCHANGED vars /\ excused \subseteq excused'
  BY <1>p, <1>2 DEF RequestInv, PaymentsOf, vars
<1>3. GamesStep \/ (UNCHANGED vars /\ excused \subseteq excused')
  BY DEF GameNext, ChannelCloses, WalletsStep, BrokerRestarts, ExcuseStruck, gameVars, vars
<1> QED BY <1>1, <1>2, <1>3

\* "placeBet -> RabbitMQ event -> wallet debit", "cashOut -> RabbitMQ event ->
\* wallet credit", for any number of players, bets, rounds and retries: once the
\* wallets have nothing left to do, every bet has been paid for and every win
\* paid out, unless a fault struck in one of the windows that CrashGame names.
\* Those are all there are: whatever else is lost, redelivered, restarted or
\* fails costs nobody anything.
THEOREM NobodyForgotten == GameSpec => []PaidUnlessStruck
<1>1. GameInit => HandledInv /\ KeptInv /\ RequestInv
  <2> SUFFICES ASSUME GameInit PROVE HandledInv /\ KeptInv /\ RequestInv
    OBVIOUS
  <2>1. HandledInv /\ KeptInv
    BY CopyFacts DEF GameInit, Wallets!Init, HandledInv, KeptInv, Wallets!IdleTask
  <2>2. RequestInv
    BY DEF GameInit, Init, AbsentBet, RequestInv
  <2> QED BY <2>1, <2>2
<1>2. /\ BothInv /\ HandledInv /\ KeptInv /\ RequestInv /\ AppliedInv' /\ [GameNext]_gameVars
      => HandledInv' /\ KeptInv' /\ RequestInv'
  BY WalletTypesHold, HandledInvStep, KeptInvStep, RequestInvStep
<1>3. BothInv /\ KeptInv /\ RequestInv => PaidUnlessStruck
  <2> SUFFICES ASSUME BothInv, KeptInv, RequestInv, WalletsIdle, NEW b \in Bet
      PROVE  /\ bets[b].state # "ABSENT" /\ placing[b] = Idle /\ <<b, "debit">> \notin excused
                  => Applied(b, "debit")
             /\ bets[b].state = "CASHED_OUT" /\ cashing[b] = Idle
                  /\ <<b, "credit">> \notin excused
                  => Applied(b, "credit")
    BY DEF PaidUnlessStruck
  <2>1. ASSUME NEW kind \in {"debit", "credit"}, <<b, kind>> \notin excused,
               PaymentsOf(b, kind) \cap published # {}
        PROVE  Applied(b, kind)
    <3>1. PICK e \in Payment : e \in published /\ e.bet = b /\ PaymentKind(e) = kind
      BY <2>1 DEF PaymentsOf
    <3>2. Kept(e)
      BY <2>1, <3>1 DEF KeptInv
    <3>3. ~ Alive(e)
      BY CopyFacts DEF WalletsIdle, Alive, Working
    <3> QED BY <3>1, <3>2, <3>3 DEF Kept, Applied, PaymentsOf
  <2> QED BY <2>1 DEF RequestInv
<1>4. GameSpec => [](BothInv /\ AppliedInv)
  BY BothInvInit, BothInvStep, AppliedOnce, PTL DEF GameSpec
<1> QED BY <1>1, <1>2, <1>3, <1>4, PTL DEF GameSpec

=============================================================================
