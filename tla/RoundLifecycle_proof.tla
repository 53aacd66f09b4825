------------------------ MODULE RoundLifecycle_proof ------------------------
(***************************************************************************)
(* Proofs about RoundLifecycle for every value of its constants: any       *)
(* number of bets and rounds, with or without manual rounds, failures and  *)
(* crashes.                                                                *)
(***************************************************************************)
EXTENDS RoundLifecycleProps, BetOutcome, RoundAggregate_proof, TLAPS

USE AmountAssumption, MultiplierAssumption, BoundAssumption, SwitchAssumption

-----------------------------------------------------------------------------
(* Helpers *)

\* Fresh rounds, absent bets, calls and loss loops are well typed.
LEMMA InitialRecords ==
  /\ NoRound \in RoundRecord /\ RoundCreate \in RoundRecord
  /\ AbsentBet \in BetRecord
  /\ Idle \in Call /\ Saving \in Call /\ \A r \in Nat : Publishing(r) \in Call
  /\ NoLossLoop \in LossLoop
BY FreshRecords DEF Idle, Saving, Publishing, Call, NoLossLoop, LossLoop

\* Arming a timer and firing the first one keep the timer queue well typed.
LEMMA SeqTypes ==
  ASSUME NEW q \in Seq({"betting", "pause"})
  PROVE  /\ \A t \in {"betting", "pause"} : Append(q, t) \in Seq({"betting", "pause"})
         /\ q # << >> => Tail(q) \in Seq({"betting", "pause"})
OBVIOUS

-----------------------------------------------------------------------------
(* Type correctness.  Before the first round has been created nothing runs   *)
(* that would look for it.                                                   *)

Unborn ==
  current = 0 => /\ process = "down" /\ timers = << >> /\ saving = {}
                 /\ \A r \in RoundId : loops[r] = 0 /\ losing[r].bet = {}

TypeInv == TypeOK /\ Unborn

\* The initial state satisfies the type invariant.
LEMMA TypeInvInit == Init => TypeInv
BY InitialRecords DEF Init, TypeInv, TypeOK, Unborn, RoundId, NoLossLoop

\* Opening a round keeps the round table well typed.
LEMMA NewRoundType ==
  ASSUME TypeInv, NewRound
  PROVE  /\ current' \in RoundId /\ current' = current + 1
         /\ rounds' \in [RoundId -> RoundRecord]
         /\ saving' \subseteq Steps \X RoundId
BY InitialRecords DEF TypeInv, TypeOK, NewRound, RoundId, Steps

\* One iteration of the loss loop keeps the loop and the timers well typed.
LEMMA NextLossType ==
  ASSUME TypeInv, NEW r \in RoundId, NEW todo \in SUBSET Bet, NextLoss(r, todo)
  PROVE  /\ losing' \in [RoundId -> LossLoop]
         /\ timers' \in Seq({"betting", "pause"})
<1> DEFINE pending == {b \in todo : bets[b].state = "PENDING"}
<1>1. CASE losing' = [losing EXCEPT ![r] = NoLossLoop] /\ timers' = Append(timers, "pause")
  BY <1>1, InitialRecords, SeqTypes DEF TypeInv, TypeOK
<1>2. ASSUME NEW b \in pending,
             losing' = [losing EXCEPT ![r] = [bet |-> {b}, round |-> current, rest |-> todo \ {b}]],
             UNCHANGED timers
      PROVE  losing' \in [RoundId -> LossLoop] /\ timers' \in Seq({"betting", "pause"})
  <2>1. [bet |-> {b}, round |-> current, rest |-> todo \ {b}] \in LossLoop
    BY DEF TypeInv, TypeOK, LossLoop
  <2> QED BY <1>2, <2>1 DEF TypeInv, TypeOK
<1> QED BY <1>1, <1>2 DEF NextLoss

\* Every step preserves the type invariant.
LEMMA TypeInvStep == TypeInv /\ [Next]_vars => TypeInv'
<1> SUFFICES ASSUME TypeInv, [Next]_vars PROVE TypeInv'
  OBVIOUS
<1> RoundId \subseteq Nat \ {0} /\ RoundId \subseteq 0 .. MaxRounds /\ 0 \notin RoundId
  BY DEF RoundId
<1> current \in Nat /\ (current # 0 => current \in RoundId)
  BY DEF TypeInv, TypeOK, RoundId
<1>1. CASE Boot
  BY <1>1, NewRoundType DEF Boot, TypeInv, TypeOK, Unborn, requests
<1>2. CASE CreateRound
  BY <1>2, NewRoundType DEF CreateRound, TypeInv, TypeOK, Unborn, requests
<1>3. CASE PauseTimer
  BY <1>3, NewRoundType, SeqTypes DEF PauseTimer, TypeInv, TypeOK, Unborn, requests
<1>4. ASSUME NEW c \in CrashMultiplier, StartRound(c) PROVE TypeInv'
  <2>1. current \in RoundId
    BY <1>4 DEF StartRound, BettingTimerFires, TypeInv, Unborn
  <2>2. rounds' \in [RoundId -> RoundRecord]
    BY <1>4, <2>1, RoundTypes DEF StartRound, TypeInv, TypeOK
  <2>3. bets' \in [Bet -> BetRecord]
    BY <1>4, BetsTypes DEF StartRound, TypeInv, TypeOK
  <2>4. /\ timers' \in Seq({"betting", "pause"}) /\ nonce' \in Nat
        /\ saving' \subseteq Steps \X RoundId
    BY <1>4, <2>1, SeqTypes DEF StartRound, BettingTimerFires, TypeInv, TypeOK, Steps
  <2> QED
    BY <1>4, <2>1, <2>2, <2>3, <2>4 DEF StartRound, TypeInv, TypeOK, Unborn, requests
<1>5. CASE LateBettingTimer
  <2>1. timers' \in Seq({"betting", "pause"}) /\ nonce' \in Nat /\ current # 0
    BY <1>5, SeqTypes DEF LateBettingTimer, BettingTimerFires, TypeInv, TypeOK, Unborn
  <2> QED
    BY <1>5, <2>1 DEF LateBettingTimer, TypeInv, TypeOK, Unborn, requests, game
<1>6. ASSUME NEW r \in RoundId, Tick(r) PROVE TypeInv'
  <2> DEFINE m == loops[r] + 1
             round == RoundUpdateMultiplier(rounds[current], m)
  <2>1. current \in RoundId /\ loops[r] \in Nat
    BY <1>6 DEF Tick, TypeInv, TypeOK, Unborn
  <2>2. round \in RoundRecord
    BY <2>1, RoundTypes DEF TypeInv, TypeOK
  <2>3. bets' \in [Bet -> BetRecord]
    BY <1>6, <2>1, BetsTypes DEF Tick, RoundUpdateBets, TypeInv, TypeOK
  <2>4. saving' \subseteq Steps \X RoundId
    BY <1>6, <2>1 DEF Tick, CrashStep, TypeInv, TypeOK, Steps
  <2>5. loops' \in [RoundId -> Nat]
    BY <1>6, <2>1 DEF Tick, IntervalAfter, TypeInv, TypeOK
  <2> QED
    BY <1>6, <2>1, <2>2, <2>3, <2>4, <2>5 DEF Tick, TypeInv, TypeOK, Unborn, requests
<1>7. ASSUME NEW r \in RoundId, TickThrows(r) PROVE TypeInv'
  BY <1>7 DEF TickThrows, TypeInv, TypeOK, Unborn, requests, game
<1>8. ASSUME NEW r \in RoundId, InitSaved(r) PROVE TypeInv'
  <2>1. current \in RoundId
    BY <1>8 DEF InitSaved, TypeInv, Unborn
  <2>2. [event |-> "round:state-changed", round |-> current,
         state |-> rounds[current].state, crashPoint |-> NoCrashPoint] \in Notice
    BY <2>1 DEF TypeInv, TypeOK, Notice, RoundRecord
  <2>3. timers' \in Seq({"betting", "pause"})
    BY <1>8, SeqTypes DEF InitSaved, TypeInv, TypeOK
  <2> QED
    BY <1>8, <2>1, <2>2, <2>3 DEF InitSaved, TypeInv, TypeOK, Unborn, requests, game
<1>9. ASSUME NEW r \in RoundId, InitSaveFails(r) PROVE TypeInv'
  BY <1>9 DEF InitSaveFails, TypeInv, TypeOK, Unborn, requests, game
<1>10. ASSUME NEW r \in RoundId, RunningSaved(r) PROVE TypeInv'
  <2>1. current \in RoundId
    BY <1>10 DEF RunningSaved, TypeInv, Unborn
  <2>2. [event |-> "round:state-changed", round |-> current,
         state |-> rounds[current].state, crashPoint |-> rounds[r].crashPoint] \in Notice
    BY <2>1 DEF TypeInv, TypeOK, Notice, RoundRecord
  <2> QED
    BY <1>10, <2>1, <2>2 DEF RunningSaved, TypeInv, TypeOK, Unborn, requests, game
<1>11. ASSUME NEW r \in RoundId, RunningSaveFails(r) PROVE TypeInv'
  BY <1>11 DEF RunningSaveFails, TypeInv, TypeOK, Unborn, requests, game
<1>12. ASSUME NEW r \in RoundId, CrashedSaved(r) PROVE TypeInv'
  <2>1. current \in RoundId
    BY <1>12 DEF CrashedSaved, TypeInv, Unborn
  <2>2. [event |-> "round:crashed", round |-> current,
         state |-> rounds[current].state, crashPoint |-> NoCrashPoint] \in Notice
    BY <2>1 DEF TypeInv, TypeOK, Notice, RoundRecord
  <2>3. losing' \in [RoundId -> LossLoop] /\ timers' \in Seq({"betting", "pause"})
    BY <1>12, NextLossType DEF CrashedSaved, BetsOf
  <2> QED
    BY <1>12, <2>1, <2>2, <2>3 DEF CrashedSaved, TypeInv, TypeOK, Unborn, requests, game
<1>13. ASSUME NEW r \in RoundId, CrashedSaveFails(r) PROVE TypeInv'
  BY <1>13 DEF CrashedSaveFails, TypeInv, TypeOK, Unborn, requests, game
<1>14. ASSUME NEW r \in RoundId, LossPublished(r) PROVE TypeInv'
  <2>1. losing[r] \in LossLoop /\ current # 0
    BY <1>14 DEF LossPublished, TypeInv, TypeOK, Unborn
  <2>2. losing' \in [RoundId -> LossLoop] /\ timers' \in Seq({"betting", "pause"})
    BY <1>14, <2>1, NextLossType DEF LossPublished, LossLoop
  <2>3. {BetEvent("bet.lost", b, losing[r].round, 0) : b \in losing[r].bet} \subseteq Event
    BY <2>1 DEF LossLoop, BetEvent, Event
  <2> QED
    BY <1>14, <2>1, <2>2, <2>3 DEF LossPublished, TypeInv, TypeOK, Unborn, requests, game
<1>15. ASSUME NEW r \in RoundId, LossPublishFails(r) PROVE TypeInv'
  BY <1>15, InitialRecords DEF LossPublishFails, TypeInv, TypeOK, Unborn, requests, game
<1>16. ASSUME NEW b \in Bet, PlaceBet(b) PROVE TypeInv'
  BY <1>16, BetsTypes, InitialRecords DEF PlaceBet, TypeInv, TypeOK, Unborn
<1>17. ASSUME NEW b \in Bet, NEW m \in One .. MaxCrash, CashOut(b, m) PROVE TypeInv'
  <2>1. m \in Nat /\ m >= One
    OBVIOUS
  <2> QED
    BY <1>17, <2>1, BetsTypes, InitialRecords DEF CashOut, TypeInv, TypeOK, Unborn
<1>18. ASSUME NEW b \in Bet, PlaceStep(b) PROVE TypeInv'
  <2>1. placing' \in [Bet -> Call]
    BY <1>18, InitialRecords
    DEF PlaceStep, PlaceSaved, PlaceSaveFails, PlacePublished, PlacePublishFails, TypeInv, TypeOK
  <2>2. BetEvent("bet.placed", b, placing[b].round, 0) \in Event
    BY DEF TypeInv, TypeOK, BetEvent, Event, Call
  <2> QED
    BY <1>18, <2>1, <2>2
    DEF PlaceStep, PlaceSaved, PlaceSaveFails, PlacePublished, PlacePublishFails,
        TypeInv, TypeOK, Unborn, game
<1>19. ASSUME NEW b \in Bet, CashOutStep(b) PROVE TypeInv'
  <2>1. cashing' \in [Bet -> Call]
    BY <1>19, InitialRecords
    DEF CashOutStep, CashOutSaved, CashOutSaveFails, CashOutPublished, CashOutPublishFails,
        TypeInv, TypeOK
  <2>2. BetEvent("bet.cashed-out", b, cashing[b].round, bets[b].winnings) \in Event
    BY DEF TypeInv, TypeOK, BetEvent, Event, Call, BetRecord
  <2> QED
    BY <1>19, <2>1, <2>2
    DEF CashOutStep, CashOutSaved, CashOutSaveFails, CashOutPublished, CashOutPublishFails,
        TypeInv, TypeOK, Unborn, game
<1>20. CASE Crash
  BY <1>20, InitialRecords DEF Crash, TypeInv, TypeOK, Unborn, game, NoLossLoop
<1>21. CASE UNCHANGED vars
  BY <1>21 DEF vars, TypeInv, TypeOK, Unborn, requests
<1> QED
  BY <1>1, <1>2, <1>3, <1>4, <1>5, <1>6, <1>7, <1>8, <1>9, <1>10, <1>11, <1>12,
     <1>13, <1>14, <1>15, <1>16, <1>17, <1>18, <1>19, <1>20, <1>21
  DEF Next, TimerStep, LoopStep, SaveStep, LossStep, PlayerStep

\* Whatever fires, fails or overlaps, the state stays well-typed: no
\* continuation ever runs without a current round.
THEOREM TypeCorrect == Spec => []TypeOK
<1>1. Spec => []TypeInv
  BY TypeInvInit, TypeInvStep, PTL DEF Spec
<1> QED BY <1>1, PTL DEF TypeInv

-----------------------------------------------------------------------------
(* The five ways the game, that is the rounds and the bets, can move.  All   *)
(* timers, saves and publications, late or not, leave it alone.              *)

\* Every step makes one of five moves of the game or leaves rounds and bets alone.
LEMMA GameSteps ==
  ASSUME [Next]_vars
  PROVE  \/ NewRound /\ UNCHANGED bets
         \/ \E c \in CrashMultiplier : StartRound(c)
         \/ \E r \in RoundId : Tick(r)
         \/ \E b \in Bet : PlaceBet(b)
         \/ \E b \in Bet, m \in One .. MaxCrash : CashOut(b, m)
         \/ UNCHANGED <<current, rounds, bets>>
<1>1. CASE Boot \/ CreateRound \/ PauseTimer
  BY <1>1 DEF Boot, CreateRound, PauseTimer
<1>2. CASE LateBettingTimer
  BY <1>2 DEF LateBettingTimer, game
<1>3. ASSUME NEW r \in RoundId, TickThrows(r) \/ SaveStep(r) \/ LossStep(r)
      PROVE  UNCHANGED <<current, rounds, bets>>
  BY <1>3
  DEF TickThrows, SaveStep, LossStep, InitSaved, InitSaveFails, RunningSaved, RunningSaveFails,
      CrashedSaved, CrashedSaveFails, LossPublished, LossPublishFails, game
<1>4. ASSUME NEW b \in Bet, PlaceStep(b) \/ CashOutStep(b)
      PROVE  UNCHANGED <<current, rounds, bets>>
  BY <1>4
  DEF PlaceStep, CashOutStep, PlaceSaved, PlaceSaveFails, PlacePublished, PlacePublishFails,
      CashOutSaved, CashOutSaveFails, CashOutPublished, CashOutPublishFails, game
<1>5. CASE Crash \/ UNCHANGED vars
  BY <1>5 DEF Crash, vars, game
<1> QED
  BY <1>1, <1>2, <1>3, <1>4, <1>5 DEF Next, TimerStep, LoopStep, PlayerStep

\* Which round a step that needs the current one works on.
LEMMA CurrentRound ==
  ASSUME TypeInv
  PROVE  /\ \A c \in CrashMultiplier : StartRound(c) => current \in RoundId
         /\ \A r \in RoundId : Tick(r) => current \in RoundId
         /\ process = "up" => current \in RoundId
BY DEF TypeInv, TypeOK, Unborn, RoundId, StartRound, BettingTimerFires, Tick

-----------------------------------------------------------------------------
(* Settlement.  BetsSettleWithRound is inductive once it is known which      *)
(* rounds have a crash point, and that no bet is in a round to come.         *)

RoundsInOrder ==
  \A r \in RoundId :
    /\ rounds[r].crashPoint # NoCrashPoint <=> rounds[r].state \in {"RUNNING", "CRASHED"}
    /\ r > current => rounds[r].state = "NONE"

BetsInRounds ==
  \A b \in Bet : bets[b].state # "ABSENT" => bets[b].round \in RoundId

GameInv == RoundsInOrder /\ BetsInRounds /\ BetsSettleWithRound

\* The initial state satisfies the game invariant.
LEMMA GameInvInit == Init => GameInv
BY DEF Init, GameInv, RoundsInOrder, BetsInRounds, BetsSettleWithRound, NoRound, AbsentBet

\* Every step preserves the game invariant.
LEMMA GameInvStep == TypeInv /\ GameInv /\ [Next]_vars => GameInv'
<1> SUFFICES ASSUME TypeInv, GameInv, [Next]_vars PROVE GameInv'
  OBVIOUS
<1> USE DEF NoCrashPoint
<1>t. /\ rounds \in [RoundId -> RoundRecord] /\ bets \in [Bet -> BetRecord]
      /\ current \in Nat /\ \A r \in RoundId : loops[r] \in Nat
  BY DEF TypeInv, TypeOK
<1>1. CASE NewRound /\ UNCHANGED bets
  <2>1. /\ current + 1 \in RoundId /\ current' = current + 1
        /\ rounds' = [rounds EXCEPT ![current + 1] = RoundCreate]
        /\ bets' = bets
    BY <1>1, NewRoundType DEF NewRound
  <2>2. rounds[current + 1].state = "NONE"
    BY <1>t, <2>1 DEF GameInv, RoundsInOrder
  <2>3. RoundsInOrder'
    BY <1>t, <2>1, <2>2 DEF GameInv, RoundsInOrder, RoundCreate, NoRound, RoundId
  <2>4. \A b \in Bet : bets[b].state # "ABSENT" => rounds'[bets[b].round] = rounds[bets[b].round]
    BY <1>t, <2>1, <2>2 DEF GameInv, BetsInRounds, BetsSettleWithRound, BetRecord
  <2>5. BetsInRounds' /\ BetsSettleWithRound'
    BY <1>t, <2>1, <2>4 DEF GameInv, BetsInRounds, BetsSettleWithRound
  <2> QED BY <2>3, <2>5 DEF GameInv
<1>2. ASSUME NEW c \in CrashMultiplier, StartRound(c) PROVE GameInv'
  <2>1. current \in RoundId /\ current' = current /\ c \in Nat \ {0}
    <3>1. current \in RoundId
      BY <1>2, CurrentRound
    <3> QED BY <1>2, <3>1 DEF StartRound, CrashMultiplier
  <2> DEFINE started == RoundStart(RoundSetCrashPoint(rounds[current], c, nonce))
  <2>2. /\ rounds[current].state = "BETTING" /\ rounds[current].crashPoint = 0
        /\ rounds' = [rounds EXCEPT ![current] = started]
        /\ bets' = RoundSetBetCrashPoints(bets, current, c)
    BY <1>2 DEF StartRound, RoundCanSetCrashPoint
  <2>3. started.state = "RUNNING" /\ started.crashPoint = c
    BY <1>t, <2>1 DEF RoundStart, RoundSetCrashPoint, RoundRecord
  <2>4. RoundsInOrder'
    BY <1>t, <2>1, <2>2, <2>3 DEF GameInv, RoundsInOrder
  <2>5. ASSUME NEW b \in Bet, b \in PendingIn(bets, current)
        PROVE  bets'[b] = [bets[b] EXCEPT !.crashPoint = c] /\ bets[b].state = "PENDING"
    BY <2>2, <2>5 DEF RoundSetBetCrashPoints, BetSetCrashPoint, PendingIn
  <2>6. ASSUME NEW b \in Bet, b \notin PendingIn(bets, current)
        PROVE  /\ bets'[b] = bets[b]
               /\ bets[b].state # "ABSENT" => bets[b].round # current
    BY <1>t, <2>2, <2>6
    DEF RoundSetBetCrashPoints, PendingIn, BetsOf, GameInv, BetsSettleWithRound, BetRecord
  <2>7. \A b \in PendingIn(bets, current) : bets[b].round = current
    BY DEF PendingIn, BetsOf
  <2>8. BetsInRounds'
    BY <1>t, <2>5, <2>6 DEF GameInv, BetsInRounds, BetRecord
  <2> HIDE DEF started
  <2>9. BetsSettleWithRound'
    <3>1. \A r \in RoundId : r # current => rounds'[r] = rounds[r]
      BY <1>t, <2>2
    <3>2. rounds'[current].state = "RUNNING" /\ rounds'[current].crashPoint = c
      BY <1>t, <2>1, <2>2, <2>3
    <3>3. \A b \in PendingIn(bets, current) :
            LET bet == bets'[b] IN
              bet.state = "PENDING" /\ bet.round = current /\ bet.crashPoint = c
      <4> SUFFICES ASSUME NEW b \in PendingIn(bets, current)
                   PROVE  LET bet == bets'[b] IN
                            bet.state = "PENDING" /\ bet.round = current /\ bet.crashPoint = c
        OBVIOUS
      <4>1. b \in Bet
        BY DEF PendingIn, BetsOf
      <4>2. bets'[b] = [bets[b] EXCEPT !.crashPoint = c] /\ bets[b].state = "PENDING"
        BY <2>5, <4>1
      <4>3. bets[b] \in BetRecord
        BY <1>t, <4>1
      <4> QED BY <2>7, <4>2, <4>3 DEF BetRecord
    <3>4. \A b \in Bet : b \notin PendingIn(bets, current) /\ bets[b].state # "ABSENT" =>
            bets'[b] = bets[b] /\ rounds'[bets[b].round] = rounds[bets[b].round]
      BY <2>6, <3>1 DEF GameInv, BetsInRounds
    <3>5. \A b \in Bet : bets[b].state = "ABSENT" => bets'[b].state = "ABSENT"
      BY <2>6 DEF PendingIn
    <3> QED
      BY <3>2, <3>3, <3>4, <3>5 DEF GameInv, BetsSettleWithRound
  <2> QED BY <2>4, <2>8, <2>9 DEF GameInv
<1>3. ASSUME NEW r \in RoundId, Tick(r) PROVE GameInv'
  <2> DEFINE m == loops[r] + 1
             moved == RoundUpdateMultiplier(rounds[current], m)
  <2>1. current \in RoundId /\ current' = current /\ m \in Nat
    <3>1. current \in RoundId
      BY <1>3, CurrentRound
    <3> QED BY <1>t, <1>3, <3>1 DEF Tick
  <2>2. /\ rounds[current].state = "RUNNING" /\ rounds[current].crashPoint # 0
        /\ rounds' = [rounds EXCEPT ![current] = moved]
    BY <1>3, <2>1 DEF Tick, RoundCanUpdateMultiplier, GameInv, RoundsInOrder
  <2>3. moved.crashPoint = rounds[current].crashPoint
    BY <1>t, <2>1 DEF RoundUpdateMultiplier, RoundCrash, RoundRecord
  <2>4. CASE HasCrashed(rounds[current].crashPoint, m)
    <3>1. moved.state = "CRASHED" /\ bets' = RoundCrashBets(bets, current)
      BY <1>t, <1>3, <2>1, <2>4
      DEF Tick, RoundUpdateMultiplier, RoundUpdateBets, RoundCrash, RoundRecord
    <3>2. \A b \in Bet : bets'[b] = IF bets[b].state = "PENDING" /\ bets[b].round = current
                                      THEN BetLose(bets[b]) ELSE bets[b]
      BY <3>1 DEF RoundCrashBets, PendingIn, BetsOf
    <3>3. \A b \in Bet : LET lost == BetLose(bets[b]) IN
            lost.state = "LOST" /\ lost.winnings = 0 /\ lost.round = bets[b].round
      BY <1>t DEF BetLose, BetRecord
    <3> HIDE DEF moved
    <3>4. RoundsInOrder'
      BY <1>t, <2>1, <2>2, <2>3, <3>1 DEF GameInv, RoundsInOrder
    <3>5. BetsInRounds'
      BY <3>2, <3>3 DEF GameInv, BetsInRounds
    <3>6. BetsSettleWithRound'
      BY <1>t, <2>1, <2>2, <2>3, <3>1, <3>2, <3>3
      DEF GameInv, BetsSettleWithRound, BetsInRounds
    <3> QED BY <3>4, <3>5, <3>6 DEF GameInv
  <2>5. CASE ~ HasCrashed(rounds[current].crashPoint, m)
    <3>1. moved.state = "RUNNING" /\ bets' = bets
      BY <1>t, <1>3, <2>1, <2>2, <2>5
      DEF Tick, RoundUpdateMultiplier, RoundUpdateBets, RoundRecord
    <3> HIDE DEF moved
    <3> QED
      BY <1>t, <2>1, <2>2, <2>3, <3>1
      DEF GameInv, RoundsInOrder, BetsInRounds, BetsSettleWithRound
  <2> QED BY <2>4, <2>5
<1>4. ASSUME NEW b \in Bet, PlaceBet(b) PROVE GameInv'
  <2>1. /\ current \in RoundId /\ UNCHANGED <<current, rounds>>
        /\ rounds[current].state = "BETTING"
        /\ bets' = [bets EXCEPT ![b] = BetCreate(current)]
    BY <1>4, CurrentRound DEF PlaceBet, RoundCanPlaceBet, RoundPlaceBet
  <2>2. LET bet == BetCreate(current) IN
          bet.state = "PENDING" /\ bet.round = current /\ bet.crashPoint = 0
    BY DEF BetCreate, AbsentBet
  <2> QED
    BY <1>t, <2>1, <2>2 DEF GameInv, RoundsInOrder, BetsInRounds, BetsSettleWithRound
<1>5. ASSUME NEW b \in Bet, NEW m \in One .. MaxCrash, CashOut(b, m) PROVE GameInv'
  <2> DEFINE paid == BetCashOut(bets[b], Amount[b], m)
  <2>1. /\ UNCHANGED <<current, rounds>>
        /\ rounds[current].state = "RUNNING" /\ bets[b].state = "PENDING"
        /\ bets[b].round = current /\ ~ HasCrashed(bets[b].crashPoint, m)
        /\ bets' = [bets EXCEPT ![b] = paid]
    BY <1>5 DEF CashOut, RoundCanCashOut, BetCanCashOut, RoundCashOut, BetsOf
  <2>2. /\ paid.state = "CASHED_OUT" /\ paid.round = current /\ paid.cashOutMultiplier = m
        /\ paid.winnings = Winnings(Amount[b], m)
    BY <1>t, <2>1 DEF BetCashOut, BetRecord
  <2>3. current \in RoundId /\ bets[b].crashPoint = rounds[current].crashPoint
    BY <1>5, <2>1, CurrentRound DEF CashOut, GameInv, BetsSettleWithRound
  <2>4. m \in One .. rounds[current].crashPoint - 1
    <3>1. rounds[current].crashPoint \in Nat
      BY <1>t, <2>3 DEF RoundRecord, CrashMultiplier
    <3>2. bets[b].crashPoint # 0
      BY <2>1, <2>3 DEF GameInv, RoundsInOrder
    <3> QED BY <2>1, <2>3, <3>1, <3>2 DEF HasCrashed
  <2>5. Winnings(Amount[b], m) >= Amount[b]
    BY WinningsCoverStake
  <2> HIDE DEF paid
  <2> QED
    BY <1>t, <2>1, <2>2, <2>3, <2>4, <2>5
    DEF GameInv, RoundsInOrder, BetsInRounds, BetsSettleWithRound
<1>6. CASE UNCHANGED <<current, rounds, bets>>
  BY <1>6 DEF GameInv, RoundsInOrder, BetsInRounds, BetsSettleWithRound
<1> QED BY <1>1, <1>2, <1>3, <1>4, <1>5, <1>6, GameSteps

\* Whatever overlaps, fails or crashes: a pending bet carries the crash point
\* of its round, a crashed round has settled all its bets, and every paid bet
\* was paid at a multiplier below the crash point and at least its stake.
THEOREM BetsSettle == Spec => []BetsSettleWithRound
<1>1. Spec => [](TypeInv /\ GameInv)
  BY TypeInvInit, TypeInvStep, GameInvInit, GameInvStep, PTL DEF Spec
<1> QED BY <1>1, PTL DEF GameInv

-----------------------------------------------------------------------------
(* Refinement.  Each of the five moves of the game is one of the contract,   *)
(* everything else is a stutter.                                             *)

phaseOf == [r \in RoundId |-> rounds[r].state]
outcomeOf == [b \in Bet |-> [state |-> bets[b].state, round |-> bets[b].round]]

\* The initial state maps to an initial state of the contract.
LEMMA ContractInitial == Init => Contract!ContractInit
BY DEF Init, Contract!ContractInit, NoRound, AbsentBet

\* Every step maps to a step of the contract or to a stutter.
LEMMA ContractStep ==
  TypeInv /\ GameInv /\ [Next]_vars => [Contract!ContractNext]_(Contract!contractVars)
<1> SUFFICES ASSUME TypeInv, GameInv, [Next]_vars
             PROVE  Contract!ContractNext \/ UNCHANGED <<phaseOf, outcomeOf>>
  BY DEF Contract!contractVars, phaseOf, outcomeOf
<1>t. /\ rounds \in [RoundId -> RoundRecord] /\ bets \in [Bet -> BetRecord]
      /\ current \in Nat /\ \A r \in RoundId : loops[r] \in Nat
  BY DEF TypeInv, TypeOK
<1>1. CASE NewRound /\ UNCHANGED bets
  <2>1. /\ current + 1 \in RoundId /\ current' = current + 1
        /\ rounds' = [rounds EXCEPT ![current + 1] = RoundCreate]
        /\ bets' = bets
    BY <1>1, NewRoundType DEF NewRound
  <2>2. rounds[current + 1].state = "NONE"
    BY <1>t, <2>1 DEF GameInv, RoundsInOrder
  <2>3. [r \in RoundId |-> rounds'[r].state] =
          [[r \in RoundId |-> rounds[r].state] EXCEPT ![current + 1] = "BETTING"]
    BY <1>t, <2>1 DEF RoundCreate, NoRound
  <2>4. Contract!Open(current + 1)
    BY <2>1, <2>2, <2>3 DEF Contract!Open
  <2> QED BY <2>1, <2>4 DEF Contract!ContractNext, Contract!Open
<1>2. ASSUME NEW c \in CrashMultiplier, StartRound(c)
      PROVE  Contract!ContractNext
  <2>1. current \in RoundId
    BY <1>2, CurrentRound
  <2> DEFINE started == RoundStart(RoundSetCrashPoint(rounds[current], c, nonce))
  <2>2. /\ rounds[current].state = "BETTING"
        /\ rounds' = [rounds EXCEPT ![current] = started]
        /\ bets' = RoundSetBetCrashPoints(bets, current, c)
    BY <1>2 DEF StartRound, RoundCanSetCrashPoint
  <2>3. started.state = "RUNNING"
    BY <1>t, <2>1 DEF RoundStart, RoundSetCrashPoint, RoundRecord
  <2> HIDE DEF started
  <2>4. [r \in RoundId |-> rounds'[r].state] =
          [[r \in RoundId |-> rounds[r].state] EXCEPT ![current] = "RUNNING"]
    BY <1>t, <2>1, <2>2, <2>3
  <2>5. \A b \in Bet : bets'[b].state = bets[b].state /\ bets'[b].round = bets[b].round
    BY <1>t, <2>2 DEF RoundSetBetCrashPoints, BetSetCrashPoint, BetRecord
  <2>6. Contract!Run(current)
    BY <2>1, <2>2, <2>4, <2>5 DEF Contract!Run
  <2> QED BY <2>1, <2>6 DEF Contract!ContractNext, Contract!Run
<1>3. ASSUME NEW r \in RoundId, Tick(r)
      PROVE  Contract!ContractNext \/ UNCHANGED <<phaseOf, outcomeOf>>
  <2> DEFINE m == loops[r] + 1
             moved == RoundUpdateMultiplier(rounds[current], m)
  <2>1. current \in RoundId
    BY <1>3, CurrentRound
  <2>2. /\ rounds[current].state = "RUNNING"
        /\ rounds' = [rounds EXCEPT ![current] = moved]
    BY <1>3 DEF Tick, RoundCanUpdateMultiplier
  <2>3. CASE HasCrashed(rounds[current].crashPoint, m)
    <3>1. moved.state = "CRASHED" /\ bets' = RoundCrashBets(bets, current)
      BY <1>t, <1>3, <2>1, <2>3
      DEF Tick, RoundUpdateMultiplier, RoundUpdateBets, RoundCrash, RoundRecord
    <3> HIDE DEF moved
    <3>2. [q \in RoundId |-> rounds'[q].state] =
            [[q \in RoundId |-> rounds[q].state] EXCEPT ![current] = "CRASHED"]
      BY <1>t, <2>1, <2>2, <3>1
    <3>3. \A b \in Bet : b \in Contract!PendingOf(current) <=> b \in PendingIn(bets, current)
      BY DEF Contract!PendingOf, PendingIn, BetsOf
    <3>4. \A b \in Bet : LET lost == BetLose(bets[b]) IN
            lost.state = "LOST" /\ lost.round = bets[b].round
      BY <1>t DEF BetLose, BetRecord
    <3>5. \A b \in PendingIn(bets, current) : b \in Bet /\ bets[b].round = current
      BY DEF PendingIn, BetsOf
    <3>6. \A b \in Bet : [state |-> bets'[b].state, round |-> bets'[b].round] =
            IF b \in PendingIn(bets, current) THEN [state |-> "LOST", round |-> current]
            ELSE [state |-> bets[b].state, round |-> bets[b].round]
      BY <3>1, <3>4, <3>5 DEF RoundCrashBets
    <3>7. Contract!End(current)
      BY <2>1, <2>2, <3>2, <3>3, <3>6 DEF Contract!End
    <3> QED BY <2>1, <3>7 DEF Contract!ContractNext, Contract!End
  <2>4. CASE ~ HasCrashed(rounds[current].crashPoint, m)
    <3>1. moved.state = "RUNNING" /\ bets' = bets
      BY <1>t, <1>3, <2>1, <2>2, <2>4
      DEF Tick, RoundUpdateMultiplier, RoundUpdateBets, RoundRecord
    <3> HIDE DEF moved
    <3>2. \A q \in RoundId : rounds'[q].state = rounds[q].state
      BY <1>t, <2>1, <2>2, <3>1
    <3> QED BY <3>1, <3>2 DEF phaseOf, outcomeOf
  <2> QED BY <2>3, <2>4
<1>4. ASSUME NEW b \in Bet, PlaceBet(b)
      PROVE  Contract!ContractNext
  <2>1. /\ UNCHANGED rounds
        /\ rounds[current].state = "BETTING" /\ bets[b].state = "ABSENT"
        /\ bets' = [bets EXCEPT ![b] = BetCreate(current)] /\ process = "up"
    BY <1>4 DEF PlaceBet, RoundCanPlaceBet, RoundPlaceBet
  <2>2. current \in RoundId
    BY <2>1, CurrentRound
  <2>3. outcomeOf' = [outcomeOf EXCEPT ![b] = [state |-> "PENDING", round |-> current]]
    BY <1>t, <2>1 DEF outcomeOf, BetCreate, AbsentBet
  <2>4. Contract!Enter(b, current)
    BY <2>1, <2>2, <2>3 DEF Contract!Enter, outcomeOf
  <2> QED BY <2>2, <2>4 DEF Contract!ContractNext, Contract!Enter
<1>5. ASSUME NEW b \in Bet, NEW m \in One .. MaxCrash, CashOut(b, m)
      PROVE  Contract!ContractNext
  <2> DEFINE paid == BetCashOut(bets[b], Amount[b], m)
  <2>1. /\ UNCHANGED rounds /\ process = "up"
        /\ rounds[current].state = "RUNNING" /\ bets[b].state = "PENDING"
        /\ bets[b].round = current /\ bets' = [bets EXCEPT ![b] = paid]
    BY <1>5 DEF CashOut, RoundCanCashOut, BetCanCashOut, RoundCashOut, BetsOf
  <2>2. current \in RoundId
    BY <2>1, CurrentRound
  <2>3. paid.state = "CASHED_OUT" /\ paid.round = current
    BY <1>t, <2>1 DEF BetCashOut, BetRecord
  <2> HIDE DEF paid
  <2>4. outcomeOf' = [outcomeOf EXCEPT ![b] = [state |-> "CASHED_OUT", round |-> current]]
    BY <1>t, <2>1, <2>3 DEF outcomeOf
  <2>5. Contract!Win(b, current)
    BY <2>1, <2>2, <2>4 DEF Contract!Win, Contract!PendingOf, outcomeOf
  <2> QED BY <2>2, <2>5 DEF Contract!ContractNext, Contract!Win
<1>6. CASE UNCHANGED <<current, rounds, bets>>
  BY <1>6 DEF phaseOf, outcomeOf
<1> QED BY <1>1, <1>2, <1>3, <1>4, <1>5, <1>6, GameSteps

\* The service implements the contract of RoundContract: no interleaving of
\* timers, saves, requests, failures and restarts moves a round backwards, lets
\* a bet in or out at the wrong time, settles one twice or loses one early.
THEOREM Refinement == Spec => ImplementsContract
<1>1. Spec => [](TypeInv /\ GameInv)
  BY TypeInvInit, TypeInvStep, GameInvInit, GameInvStep, PTL DEF Spec
<1> QED
  BY <1>1, ContractInitial, ContractStep, PTL DEF Spec, ImplementsContract, Contract!ContractSpec

-----------------------------------------------------------------------------
(* Nonces. *)

NonceInv == NoncesDistinct /\ firstRound <= current

\* The initial state satisfies the nonce invariant.
LEMMA NonceInvInit == Init => NonceInv
BY DEF Init, NonceInv, NoncesDistinct, NoRound

\* What a step does to the nonce, the rounds and which of them this process opened.
LEMMA NonceSteps ==
  ASSUME [Next]_vars
  PROVE  \/ NewRound /\ firstRound' = current + 1
         \/ NewRound /\ UNCHANGED <<firstRound, nonce>>
         \/ \E c \in CrashMultiplier : StartRound(c)
         \/ LateBettingTimer
         \/ \E r \in RoundId : Tick(r)
         \/ UNCHANGED <<current, firstRound, nonce, rounds>>
<1>1. CASE Boot \/ CreateRound \/ PauseTimer
  BY <1>1 DEF Boot, CreateRound, PauseTimer
<1>2. ASSUME NEW r \in RoundId, TickThrows(r) \/ SaveStep(r) \/ LossStep(r)
      PROVE  UNCHANGED <<current, firstRound, nonce, rounds>>
  BY <1>2
  DEF TickThrows, SaveStep, LossStep, InitSaved, InitSaveFails, RunningSaved, RunningSaveFails,
      CrashedSaved, CrashedSaveFails, LossPublished, LossPublishFails, game
<1>3. ASSUME NEW b \in Bet,
             PlayerStep(b) \/ PlaceStep(b) \/ CashOutStep(b)
      PROVE  UNCHANGED <<current, firstRound, nonce, rounds>>
  BY <1>3
  DEF PlayerStep, PlaceBet, CashOut,
      PlaceStep, CashOutStep, PlaceSaved, PlaceSaveFails, PlacePublished, PlacePublishFails,
      CashOutSaved, CashOutSaveFails, CashOutPublished, CashOutPublishFails, game
<1>4. CASE Crash \/ UNCHANGED vars
  BY <1>4 DEF Crash, vars, game
<1> QED
  BY <1>1, <1>2, <1>3, <1>4 DEF Next, TimerStep, LoopStep

\* Every step preserves the nonce invariant.
LEMMA NonceInvStep == TypeInv /\ NonceInv /\ [Next]_vars => NonceInv'
<1> SUFFICES ASSUME TypeInv, NonceInv, [Next]_vars PROVE NonceInv'
  OBVIOUS
<1> DEFINE Drawn(r) == r \in firstRound .. current /\ rounds[r].crashPoint # NoCrashPoint
<1>t. /\ rounds \in [RoundId -> RoundRecord] /\ nonce \in Nat
      /\ current \in Nat /\ firstRound \in Nat /\ \A r \in RoundId : loops[r] \in Nat
      /\ RoundId \subseteq Nat /\ \A r \in RoundId : rounds[r].nonce \in Nat
  BY DEF TypeInv, TypeOK, RoundId, RoundRecord
<1>d. \A r \in RoundId : Drawn(r) => rounds[r].nonce < nonce
  BY DEF NonceInv, NoncesDistinct
<1>e. \A r, s \in RoundId : Drawn(r) /\ Drawn(s) /\ r # s => rounds[r].nonce # rounds[s].nonce
  BY DEF NonceInv, NoncesDistinct
<1>f. firstRound <= current
  BY DEF NonceInv
<1>n. ASSUME NewRound
      PROVE  /\ current + 1 \in RoundId /\ current' = current + 1
             /\ rounds' = [rounds EXCEPT ![current + 1] = RoundCreate]
             /\ RoundCreate.crashPoint = NoCrashPoint
  BY <1>n, NewRoundType DEF NewRound, RoundCreate, NoRound
<1>1. CASE NewRound /\ firstRound' = current + 1
  BY <1>t, <1>n, <1>1 DEF NonceInv, NoncesDistinct
<1>2. CASE NewRound /\ UNCHANGED <<firstRound, nonce>>
  <2>1. \A r \in RoundId : Drawn(r)' => Drawn(r) /\ rounds'[r] = rounds[r]
    BY <1>t, <1>n, <1>2
  <2> QED
    BY <1>t, <1>d, <1>e, <1>f, <1>n, <1>2, <2>1 DEF NonceInv, NoncesDistinct
<1>3. ASSUME NEW c \in CrashMultiplier, StartRound(c) PROVE NonceInv'
  <2>1. current \in RoundId
    BY <1>3, CurrentRound
  <2> DEFINE started == RoundStart(RoundSetCrashPoint(rounds[current], c, nonce))
  <2>2. /\ rounds[current].crashPoint = NoCrashPoint /\ nonce' = nonce + 1
        /\ rounds' = [rounds EXCEPT ![current] = started]
        /\ UNCHANGED <<current, firstRound>>
    BY <1>3 DEF StartRound, BettingTimerFires, RoundCanSetCrashPoint
  <2>3. started.nonce = nonce
    BY <1>t, <2>1 DEF RoundStart, RoundSetCrashPoint, RoundRecord
  <2> HIDE DEF started
  <2>4. \A r \in RoundId : r # current => rounds'[r] = rounds[r]
    BY <1>t, <2>2
  <2>5. rounds'[current].nonce = nonce /\ ~ Drawn(current)
    BY <1>t, <2>1, <2>2, <2>3
  <2>6. \A r \in RoundId : Drawn(r)' => r = current \/ (Drawn(r) /\ rounds'[r] = rounds[r])
    BY <2>2, <2>4
  <2> QED
    BY <1>t, <1>d, <1>e, <1>f, <2>1, <2>2, <2>5, <2>6 DEF NonceInv, NoncesDistinct
<1>4. CASE LateBettingTimer
  BY <1>t, <1>d, <1>e, <1>f, <1>4
  DEF LateBettingTimer, BettingTimerFires, game, NonceInv, NoncesDistinct
<1>5. ASSUME NEW r \in RoundId, Tick(r) PROVE NonceInv'
  <2> DEFINE moved == RoundUpdateMultiplier(rounds[current], loops[r] + 1)
  <2>1. current \in RoundId
    BY <1>5, CurrentRound
  <2>2. /\ rounds' = [rounds EXCEPT ![current] = moved]
        /\ UNCHANGED <<current, firstRound, nonce>>
    BY <1>5 DEF Tick
  <2>3. moved.nonce = rounds[current].nonce /\ moved.crashPoint = rounds[current].crashPoint
    BY <1>t, <2>1 DEF RoundUpdateMultiplier, RoundCrash, RoundRecord
  <2> HIDE DEF moved
  <2>4. \A q \in RoundId : /\ rounds'[q].nonce = rounds[q].nonce
                           /\ rounds'[q].crashPoint = rounds[q].crashPoint
    BY <1>t, <2>1, <2>2, <2>3
  <2> QED
    BY <1>d, <1>e, <1>f, <2>2, <2>4 DEF NonceInv, NoncesDistinct
<1>6. CASE UNCHANGED <<current, firstRound, nonce, rounds>>
  BY <1>6 DEF NonceInv, NoncesDistinct
<1> QED BY <1>1, <1>2, <1>3, <1>4, <1>5, <1>6, NonceSteps

\* Within one process no two rounds are drawn with the same nonce, however
\* many betting timers overlap or fire too late.
THEOREM Nonces == Spec => []NoncesDistinct
<1>1. Spec => [](TypeInv /\ NonceInv)
  BY TypeInvInit, TypeInvStep, NonceInvInit, NonceInvStep, PTL DEF Spec
<1> QED BY <1>1, PTL DEF NonceInv

-----------------------------------------------------------------------------
(* What a step does to the rounds and bets it is not about. *)

\* What a step does to the rounds: only the current one changes.
LEMMA RoundsStep ==
  ASSUME TypeInv, GameInv, [Next]_vars
  PROVE  /\ \A r \in RoundId : r < current => rounds'[r] = rounds[r]
         /\ \A r \in RoundId : rounds[r].state \in {"RUNNING", "CRASHED"} =>
                                 rounds'[r].multiplier >= rounds[r].multiplier
<1>t. /\ rounds \in [RoundId -> RoundRecord] /\ current \in Nat
      /\ \A r \in RoundId : loops[r] \in Nat /\ r \in Nat /\ rounds[r].multiplier \in Nat
  <2>1. /\ rounds \in [RoundId -> RoundRecord] /\ current \in Nat
        /\ loops \in [RoundId -> Nat] /\ RoundId \subseteq Nat
    BY DEF TypeInv, TypeOK, RoundId
  <2>2. \A round \in RoundRecord : round.multiplier \in Nat
    BY DEF RoundRecord
  <2> QED BY <2>1, <2>2
<1>1. CASE NewRound
  <2>1. /\ current + 1 \in RoundId
        /\ rounds' = [rounds EXCEPT ![current + 1] = RoundCreate]
    BY <1>1, NewRoundType DEF NewRound
  <2>2. rounds[current + 1].state = "NONE"
    BY <1>t, <2>1 DEF GameInv, RoundsInOrder
  <2> QED BY <1>t, <2>1, <2>2
<1>2. ASSUME NEW c \in CrashMultiplier, StartRound(c)
      PROVE  \A r \in RoundId : r # current => rounds'[r] = rounds[r]
  BY <1>t, <1>2 DEF StartRound
<1>3. ASSUME NEW c \in CrashMultiplier, StartRound(c)
      PROVE  rounds[current].state = "BETTING"
  BY <1>3 DEF StartRound, RoundCanSetCrashPoint
<1>4. ASSUME NEW q \in RoundId, Tick(q)
      PROVE  \A r \in RoundId : r # current => rounds'[r] = rounds[r]
  BY <1>t, <1>4 DEF Tick
<1>5. ASSUME NEW q \in RoundId, Tick(q)
      PROVE  rounds'[current].multiplier >= rounds[current].multiplier
  <2> DEFINE moved == RoundUpdateMultiplier(rounds[current], loops[q] + 1)
  <2>1. current \in RoundId
    BY <1>5, CurrentRound
  <2>2. rounds' = [rounds EXCEPT ![current] = moved] /\ loops[q] + 1 >= rounds[current].multiplier
    BY <1>5 DEF Tick, RoundCanUpdateMultiplier
  <2>3. moved.multiplier = loops[q] + 1
    BY <1>t, <2>1 DEF RoundUpdateMultiplier, RoundCrash, RoundRecord
  <2> HIDE DEF moved
  <2> QED BY <1>t, <2>1, <2>2, <2>3
<1>6. ASSUME NEW b \in Bet, PlaceBet(b) PROVE rounds' = rounds
  BY <1>6 DEF PlaceBet
<1>7. ASSUME NEW b \in Bet, NEW m \in One .. MaxCrash, CashOut(b, m) PROVE rounds' = rounds
  BY <1>7 DEF CashOut
<1> QED
  BY <1>t, <1>1, <1>2, <1>3, <1>4, <1>5, <1>6, <1>7, GameSteps

\* What a step does to the bets: only those of the current round change.
LEMMA BetsStep ==
  ASSUME TypeInv, [Next]_vars
  PROVE  \A b \in Bet :
           /\ bets[b].state \in {"CASHED_OUT", "LOST"} => bets'[b] = bets[b]
           /\ bets[b].state # "ABSENT" /\ bets[b].round # current => bets'[b] = bets[b]
           /\ bets[b].state # "ABSENT" => bets'[b].state # "ABSENT"
<1>t. bets \in [Bet -> BetRecord]
  BY DEF TypeInv, TypeOK
<1>1. ASSUME NEW c \in CrashMultiplier, StartRound(c)
      PROVE  \A b \in Bet : bets'[b] = IF b \in PendingIn(bets, current)
                              THEN [bets[b] EXCEPT !.crashPoint = c] ELSE bets[b]
  BY <1>1 DEF StartRound, RoundSetBetCrashPoints, BetSetCrashPoint
<1>2. ASSUME NEW r \in RoundId, Tick(r)
      PROVE  \/ bets' = bets
             \/ \A b \in Bet : bets'[b] = IF b \in PendingIn(bets, current)
                                 THEN BetLose(bets[b]) ELSE bets[b]
  BY <1>2 DEF Tick, RoundUpdateBets, RoundCrashBets
<1>3. ASSUME NEW b \in Bet, PlaceBet(b)
      PROVE  /\ bets[b].state = "ABSENT"
             /\ \A a \in Bet : a # b => bets'[a] = bets[a]
  BY <1>t, <1>3 DEF PlaceBet, RoundCanPlaceBet, RoundPlaceBet
<1>4. ASSUME NEW b \in Bet, NEW m \in One .. MaxCrash, CashOut(b, m)
      PROVE  /\ bets[b].state = "PENDING" /\ bets[b].round = current
             /\ bets'[b].state = "CASHED_OUT"
             /\ \A a \in Bet : a # b => bets'[a] = bets[a]
  BY <1>t, <1>4
  DEF CashOut, RoundCanCashOut, BetCanCashOut, RoundCashOut, BetCashOut, BetsOf, BetRecord
<1>5. \A b \in PendingIn(bets, current) : bets[b].state = "PENDING" /\ bets[b].round = current
  BY DEF PendingIn, BetsOf
<1>6. \A b \in Bet : /\ BetLose(bets[b]).state = "LOST"
                     /\ \A c \in CrashMultiplier :
                          [bets[b] EXCEPT !.crashPoint = c].state = bets[b].state
  BY <1>t DEF BetLose, BetRecord
<1> QED
  BY <1>1, <1>2, <1>3, <1>4, <1>5, <1>6, GameSteps

\* A round that has been replaced is out of reach, and so are its bets.
THEOREM ReplacedRoundsRest == Spec => OnlyCurrentRoundMoves
<1>1. Spec => [](TypeInv /\ GameInv)
  BY TypeInvInit, TypeInvStep, GameInvInit, GameInvStep, PTL DEF Spec
<1>2. TypeInv /\ GameInv /\ [Next]_vars =>
        [\A r \in RoundId :
           r < current => /\ rounds'[r] = rounds[r]
                          /\ \A b \in BetsOf(bets, r) : bets'[b] = bets[b]]_vars
  <2> SUFFICES ASSUME TypeInv, GameInv, [Next]_vars, NEW r \in RoundId, r < current
               PROVE  /\ rounds'[r] = rounds[r]
                      /\ \A b \in BetsOf(bets, r) : bets'[b] = bets[b]
    OBVIOUS
  <2>1. rounds'[r] = rounds[r]
    BY RoundsStep
  <2>2. r # current
    BY DEF RoundId, TypeInv, TypeOK
  <2>3. \A b \in BetsOf(bets, r) : b \in Bet /\ bets[b].state # "ABSENT" /\ bets[b].round # current
    BY <2>2 DEF BetsOf
  <2> QED BY <2>1, <2>3, BetsStep
<1> QED BY <1>1, <1>2, PTL DEF Spec, OnlyCurrentRoundMoves

\* No loop, not even one meant for another round, makes a multiplier fall.
THEOREM MultipliersRise == Spec => MultiplierNeverDrops
<1>1. Spec => [](TypeInv /\ GameInv)
  BY TypeInvInit, TypeInvStep, GameInvInit, GameInvStep, PTL DEF Spec
<1>2. TypeInv /\ GameInv /\ [Next]_vars =>
        [\A r \in RoundId :
           rounds[r].state \in {"RUNNING", "CRASHED"} =>
             rounds'[r].multiplier >= rounds[r].multiplier]_vars
  BY RoundsStep
<1> QED BY <1>1, <1>2, PTL DEF Spec, MultiplierNeverDrops

-----------------------------------------------------------------------------
(* Events.  A request that waits is about a bet that exists, and one that    *)
(* waits to publish a win knows the round of its bet, because it has looked  *)
(* the bet up again after the save.                                          *)

EventInv ==
  /\ PaymentEventsAreTrue
  /\ \A b \in Bet :
       /\ placing[b].step # "idle" => bets[b].state # "ABSENT"
       /\ cashing[b].step # "idle" => bets[b].state = "CASHED_OUT"
       /\ cashing[b].step = "publishing" => cashing[b].round = bets[b].round

\* The initial state satisfies the event invariant.
LEMMA EventInvInit == Init => EventInv
BY DEF Init, EventInv, PaymentEventsAreTrue, Idle

\* Every step preserves the event invariant.
LEMMA EventInvStep == TypeInv /\ EventInv /\ [Next]_vars => EventInv'
<1> SUFFICES ASSUME TypeInv, EventInv, [Next]_vars PROVE EventInv'
  OBVIOUS
<1>t. /\ placing \in [Bet -> Call] /\ cashing \in [Bet -> Call] /\ bets \in [Bet -> BetRecord]
      /\ events \subseteq Event /\ \A e \in events : e.bet \in Bet
  BY DEF TypeInv, TypeOK, Event
<1>b. \A b \in Bet : /\ bets[b].state = "CASHED_OUT" => bets'[b] = bets[b]
                     /\ bets[b].state # "ABSENT" => bets'[b].state # "ABSENT"
  BY BetsStep
<1>i. Idle.step = "idle" /\ Saving.step = "saving"
      /\ \A r \in Nat : Publishing(r).step = "publishing" /\ Publishing(r).round = r
  BY DEF Idle, Saving, Publishing
\* A step that publishes nothing and moves no request.
<1>f. ASSUME UNCHANGED <<placing, cashing>>,
             \A e \in events' : e \in events \/ e.type = "bet.lost"
      PROVE  EventInv'
  <2>1. PaymentEventsAreTrue'
    BY <1>t, <1>b, <1>f DEF EventInv, PaymentEventsAreTrue
  <2> QED BY <1>t, <1>b, <1>f, <2>1 DEF EventInv
<1>1. CASE Boot \/ CreateRound \/ TimerStep
  BY <1>1, <1>f
  DEF Boot, CreateRound, TimerStep, PauseTimer, StartRound, LateBettingTimer, requests
<1>2. ASSUME NEW r \in RoundId, LoopStep(r) \/ SaveStep(r) PROVE EventInv'
  BY <1>2, <1>f
  DEF LoopStep, SaveStep, Tick, TickThrows, InitSaved, InitSaveFails, RunningSaved,
      RunningSaveFails, CrashedSaved, CrashedSaveFails, requests
<1>3. ASSUME NEW r \in RoundId, LossStep(r) PROVE EventInv'
  BY <1>3, <1>f DEF LossStep, LossPublished, LossPublishFails, requests, BetEvent
<1>4. ASSUME NEW b \in Bet, PlaceBet(b) PROVE EventInv'
  <2>1. /\ UNCHANGED <<cashing, events>> /\ bets'[b].state # "ABSENT"
        /\ placing' = [placing EXCEPT ![b] = Saving]
    BY <1>t, <1>4 DEF PlaceBet, RoundPlaceBet, BetCreate, AbsentBet
  <2> QED BY <1>t, <1>b, <2>1 DEF EventInv, PaymentEventsAreTrue
<1>5. ASSUME NEW b \in Bet, NEW m \in One .. MaxCrash, CashOut(b, m) PROVE EventInv'
  <2>1. /\ UNCHANGED <<placing, events>> /\ bets'[b].state = "CASHED_OUT"
        /\ cashing' = [cashing EXCEPT ![b] = Saving]
    BY <1>t, <1>5 DEF CashOut, RoundCashOut, BetCashOut, BetRecord
  <2> QED BY <1>t, <1>b, <1>i, <2>1 DEF EventInv, PaymentEventsAreTrue
<1>6. ASSUME NEW b \in Bet, PlaceStep(b) PROVE EventInv'
  <2>1. /\ cashing' = cashing /\ bets' = bets
        /\ \A a \in Bet : placing'[a].step # "idle" => placing[a].step # "idle"
    BY <1>t, <1>6, <1>i
    DEF PlaceStep, PlaceSaved, PlaceSaveFails, PlacePublished, PlacePublishFails, game
  <2>2. \A e \in events' : e \in events \/ (e.type = "bet.placed" /\ e.bet = b
                                             /\ placing[b].step # "idle")
    BY <1>6
    DEF PlaceStep, PlaceSaved, PlaceSaveFails, PlacePublished, PlacePublishFails, BetEvent
  <2> QED BY <2>1, <2>2 DEF EventInv, PaymentEventsAreTrue
<1>7. ASSUME NEW b \in Bet, CashOutStep(b) PROVE EventInv'
  <2>1. /\ placing' = placing /\ bets' = bets
        /\ \A a \in Bet :
             /\ cashing'[a].step # "idle" => cashing[a].step # "idle"
             /\ cashing'[a].step = "publishing" =>
                  \/ cashing'[a] = cashing[a]
                  \/ cashing'[a].round = bets[a].round
    <3>1. CASE CashOutSaved(b)
      <4>1. b \in BetsOf(bets, current) => bets[b].round = current
        BY DEF BetsOf
      <4>2. current \in Nat
        BY DEF TypeInv, TypeOK
      <4> QED BY <1>t, <1>i, <3>1, <4>1, <4>2 DEF CashOutSaved, game
    <3>2. CASE CashOutSaveFails(b) \/ CashOutPublished(b) \/ CashOutPublishFails(b)
      BY <1>t, <1>i, <3>2 DEF CashOutSaveFails, CashOutPublished, CashOutPublishFails, game
    <3> QED BY <1>7, <3>1, <3>2 DEF CashOutStep
  <2>2. \A e \in events' :
          \/ e \in events
          \/ /\ e.type = "bet.cashed-out" /\ e.bet = b /\ cashing[b].step = "publishing"
             /\ e.round = cashing[b].round /\ e.winnings = bets[b].winnings
    BY <1>7
    DEF CashOutStep, CashOutSaved, CashOutSaveFails, CashOutPublished, CashOutPublishFails,
        BetEvent
  <2> QED BY <2>1, <2>2 DEF EventInv, PaymentEventsAreTrue
<1>8. CASE Crash
  BY <1>t, <1>i, <1>8 DEF Crash, game, EventInv, PaymentEventsAreTrue
<1>9. CASE UNCHANGED vars
  BY <1>9, <1>f DEF vars
<1> QED
  BY <1>1, <1>2, <1>3, <1>4, <1>5, <1>6, <1>7, <1>8, <1>9 DEF Next, PlayerStep

\* What the wallets are told to pay is what the bet won, in the round it was
\* in, although the event is put together after the save from whatever round
\* is current by then.
THEOREM PaymentEvents == Spec => []PaymentEventsAreTrue
<1>1. Spec => [](TypeInv /\ EventInv)
  BY TypeInvInit, TypeInvStep, EventInvInit, EventInvStep, PTL DEF Spec
<1> QED BY <1>1, PTL DEF EventInv
-----------------------------------------------------------------------------
(* State and winnings of the bets, which is all that a payment depends on. *)

\* What a step does to state and winnings: one bet is placed, one is cashed out
\* below the largest crash point, some pending ones lose, or nothing happens.
LEMMA OutcomeSteps ==
  ASSUME TypeInv, GameInv, [Next]_vars
  PROVE  \/ \A b \in Bet : /\ bets'[b].state = bets[b].state
                           /\ bets'[b].winnings = bets[b].winnings
         \/ \E b \in Bet :
              /\ bets[b].state = "ABSENT"
              /\ bets'[b].state = "PENDING" /\ bets'[b].winnings = 0
              /\ \A a \in Bet : a # b => bets'[a] = bets[a]
         \/ \E b \in Bet, m \in One .. MaxCrash - 1 :
              /\ bets[b].state = "PENDING"
              /\ bets'[b].state = "CASHED_OUT"
              /\ bets'[b].winnings = Winnings(Amount[b], m)
              /\ \A a \in Bet : a # b => bets'[a] = bets[a]
         \/ \E losers \in SUBSET {b \in Bet : bets[b].state = "PENDING"} :
              \A b \in Bet : IF b \in losers
                              THEN bets'[b].state = "LOST" /\ bets'[b].winnings = 0
                              ELSE bets'[b] = bets[b]
<1>t. bets \in [Bet -> BetRecord] /\ rounds \in [RoundId -> RoundRecord]
  BY DEF TypeInv, TypeOK
<1>1. ASSUME NEW c \in CrashMultiplier, StartRound(c)
      PROVE  \A b \in Bet : bets'[b].state = bets[b].state /\ bets'[b].winnings = bets[b].winnings
  BY <1>t, <1>1 DEF StartRound, RoundSetBetCrashPoints, BetSetCrashPoint, BetRecord
<1>2. ASSUME NEW r \in RoundId, Tick(r)
      PROVE  \/ bets' = bets
             \/ \A b \in Bet : IF b \in PendingIn(bets, current)
                                THEN bets'[b].state = "LOST" /\ bets'[b].winnings = 0
                                ELSE bets'[b] = bets[b]
  <2>1. \A b \in Bet : LET lost == BetLose(bets[b]) IN lost.state = "LOST" /\ lost.winnings = 0
    BY <1>t DEF BetLose, BetRecord
  <2> QED BY <1>2, <2>1 DEF Tick, RoundUpdateBets, RoundCrashBets
<1>3. ASSUME NEW b \in Bet, PlaceBet(b)
      PROVE  /\ bets[b].state = "ABSENT"
             /\ bets'[b].state = "PENDING" /\ bets'[b].winnings = 0
             /\ \A a \in Bet : a # b => bets'[a] = bets[a]
  BY <1>t, <1>3 DEF PlaceBet, RoundCanPlaceBet, RoundPlaceBet, BetCreate, AbsentBet
<1>4. ASSUME NEW b \in Bet, NEW m \in One .. MaxCrash, CashOut(b, m)
      PROVE  /\ m \in One .. MaxCrash - 1
             /\ bets[b].state = "PENDING"
             /\ bets'[b].state = "CASHED_OUT"
             /\ bets'[b].winnings = Winnings(Amount[b], m)
             /\ \A a \in Bet : a # b => bets'[a] = bets[a]
  <2> DEFINE paid == BetCashOut(bets[b], Amount[b], m)
  <2>1. /\ rounds[current].state = "RUNNING" /\ bets[b].state = "PENDING"
        /\ bets[b].round = current /\ ~ HasCrashed(bets[b].crashPoint, m)
        /\ bets' = [bets EXCEPT ![b] = paid]
    BY <1>4 DEF CashOut, RoundCanCashOut, BetCanCashOut, RoundCashOut, BetsOf
  <2>2. paid.state = "CASHED_OUT" /\ paid.winnings = Winnings(Amount[b], m)
    BY <1>t, <2>1 DEF BetCashOut, BetRecord
  <2>3. current \in RoundId /\ bets[b].crashPoint = rounds[current].crashPoint
    BY <1>4, <2>1, CurrentRound DEF CashOut, GameInv, BetsSettleWithRound
  <2>4. m < rounds[current].crashPoint /\ rounds[current].crashPoint \in CrashMultiplier
    <3>1. rounds[current].crashPoint \in CrashMultiplier
      BY <1>t, <2>1, <2>3 DEF GameInv, RoundsInOrder, RoundRecord
    <3>2. rounds[current].crashPoint # NoCrashPoint
      BY <2>1, <2>3 DEF GameInv, RoundsInOrder
    <3> QED
      BY <2>1, <2>3, <3>1, <3>2, MultiplierAssumption DEF HasCrashed, CrashMultiplier
  <2>5. m \in One .. MaxCrash - 1
    BY <2>4, MultiplierAssumption DEF CrashMultiplier
  <2> HIDE DEF paid
  <2> QED BY <1>t, <2>1, <2>2, <2>5
<1>5. PendingIn(bets, current) \in SUBSET {b \in Bet : bets[b].state = "PENDING"}
  BY DEF PendingIn, BetsOf
<1>6. CASE NewRound /\ UNCHANGED bets
  BY <1>6
<1>7. CASE UNCHANGED <<current, rounds, bets>>
  BY <1>7
<1> QED
  BY <1>1, <1>2, <1>3, <1>4, <1>5, <1>6, <1>7, GameSteps

NothingElseWon == \A b \in Bet : bets[b].state # "CASHED_OUT" => bets[b].winnings = 0

\* Only a cashed-out bet ever has winnings.
LEMMA NothingElseWonKept ==
  /\ Init => NothingElseWon
  /\ TypeInv /\ GameInv /\ NothingElseWon /\ [Next]_vars => NothingElseWon'
<1>1. Init => NothingElseWon
  BY DEF Init, NothingElseWon, AbsentBet
<1>2. ASSUME TypeInv, GameInv, NothingElseWon, [Next]_vars PROVE NothingElseWon'
  BY <1>2, OutcomeSteps DEF NothingElseWon
<1> QED BY <1>1, <1>2

\* How a step changes the requests under way.
LEMMA RequestSteps ==
  ASSUME TypeInv, [Next]_vars
  PROVE  \A b \in Bet :
           /\ placing'[b].step # "idle" =>
                placing[b].step # "idle" \/ bets[b].state = "ABSENT"
           /\ cashing'[b].step # "idle" =>
                cashing[b].step # "idle" \/ bets[b].state = "PENDING"
<1>t. placing \in [Bet -> Call] /\ cashing \in [Bet -> Call]
  BY DEF TypeInv, TypeOK
<1>i. Idle.step = "idle"
  BY DEF Idle
<1>1. CASE UNCHANGED <<placing, cashing>>
  BY <1>1
<1>2. CASE Boot \/ CreateRound \/ TimerStep
  BY <1>1, <1>2
  DEF Boot, CreateRound, TimerStep, PauseTimer, StartRound, LateBettingTimer, requests
<1>3. ASSUME NEW r \in RoundId, LoopStep(r) \/ SaveStep(r) \/ LossStep(r)
      PROVE  UNCHANGED <<placing, cashing>>
  BY <1>3
  DEF LoopStep, SaveStep, LossStep, Tick, TickThrows, InitSaved, InitSaveFails,
      RunningSaved, RunningSaveFails, CrashedSaved, CrashedSaveFails, LossPublished,
      LossPublishFails, requests
<1>4. ASSUME NEW b \in Bet, PlaceBet(b)
      PROVE  /\ cashing' = cashing /\ bets[b].state = "ABSENT"
             /\ \A a \in Bet : a # b => placing'[a] = placing[a]
  BY <1>t, <1>4 DEF PlaceBet, RoundCanPlaceBet
<1>5. ASSUME NEW b \in Bet, NEW m \in One .. MaxCrash, CashOut(b, m)
      PROVE  /\ placing' = placing /\ bets[b].state = "PENDING"
             /\ \A a \in Bet : a # b => cashing'[a] = cashing[a]
  BY <1>t, <1>5 DEF CashOut, RoundCanCashOut, BetCanCashOut
<1>6. ASSUME NEW b \in Bet, PlaceStep(b)
      PROVE  /\ cashing' = cashing
             /\ \A a \in Bet : placing'[a].step # "idle" => placing[a].step # "idle"
  BY <1>t, <1>i, <1>6
  DEF PlaceStep, PlaceSaved, PlaceSaveFails, PlacePublished, PlacePublishFails
<1>7. ASSUME NEW b \in Bet, CashOutStep(b)
      PROVE  /\ placing' = placing
             /\ \A a \in Bet : cashing'[a].step # "idle" => cashing[a].step # "idle"
  BY <1>t, <1>i, <1>7
  DEF CashOutStep, CashOutSaved, CashOutSaveFails, CashOutPublished, CashOutPublishFails
<1>8. CASE Crash
  BY <1>i, <1>8 DEF Crash
<1>9. CASE UNCHANGED vars
  BY <1>1, <1>9 DEF vars
<1> QED
  BY <1>1, <1>2, <1>3, <1>4, <1>5, <1>6, <1>7, <1>8, <1>9 DEF Next, PlayerStep

-----------------------------------------------------------------------------
(* Outcomes: what the promise about money (PaymentContract) knows of a bet. *)

outcomes == [b \in Bet |-> OutcomeOf(bets[b])]

NoOutcome == [result |-> "none", payout |-> 0]
OpenOutcome == [result |-> "open", payout |-> 0]
LostOutcome == [result |-> "lost", payout |-> 0]

\* The outcome of a bet is its state and its winnings.
LEMMA OutcomeFacts ==
  /\ \A bet, other : bet.state = other.state /\ bet.winnings = other.winnings =>
       OutcomeOf(bet) = OutcomeOf(other)
  /\ \A bet : /\ bet.state = "ABSENT" /\ bet.winnings = 0 => OutcomeOf(bet) = NoOutcome
              /\ bet.state = "PENDING" /\ bet.winnings = 0 => OutcomeOf(bet) = OpenOutcome
              /\ bet.state = "LOST" /\ bet.winnings = 0 => OutcomeOf(bet) = LostOutcome
              /\ bet.state = "CASHED_OUT" =>
                   OutcomeOf(bet) = [result |-> "won", payout |-> bet.winnings]
BY DEF OutcomeOf, NoOutcome, OpenOutcome, LostOutcome

\* The game places, wins and loses as promised.
LEMMA OutcomesAsPromised ==
  ASSUME TypeInv, GameInv, NothingElseWon, [Next]_vars
  PROVE  \/ outcomes' = outcomes
         \/ \E b \in Bet : /\ outcomes[b] = NoOutcome
                           /\ outcomes' = [outcomes EXCEPT ![b] = OpenOutcome]
         \/ \E b \in Bet : \E payout \in Payout[b] :
              /\ outcomes[b] = OpenOutcome
              /\ outcomes' = [outcomes EXCEPT ![b] = [result |-> "won", payout |-> payout]]
         \/ \E losers \in SUBSET {b \in Bet : outcomes[b] = OpenOutcome} :
              outcomes' = [b \in Bet |-> IF b \in losers THEN LostOutcome
                                                         ELSE outcomes[b]]
<1>t. \A b \in Bet : /\ outcomes[b] = OutcomeOf(bets[b]) /\ outcomes'[b] = OutcomeOf(bets'[b])
                     /\ bets[b].state # "CASHED_OUT" => bets[b].winnings = 0
  BY DEF outcomes, NothingElseWon
<1>d. outcomes = [b \in Bet |-> outcomes[b]] /\ outcomes' = [b \in Bet |-> outcomes'[b]]
  BY DEF outcomes
<1>1. CASE \A b \in Bet : bets'[b].state = bets[b].state /\ bets'[b].winnings = bets[b].winnings
  <2>1. \A b \in Bet : outcomes'[b] = outcomes[b]
    BY <1>t, <1>1, OutcomeFacts
  <2> QED BY <1>d, <2>1
<1>2. ASSUME NEW b \in Bet,
             bets[b].state = "ABSENT", bets'[b].state = "PENDING", bets'[b].winnings = 0,
             \A a \in Bet : a # b => bets'[a] = bets[a]
      PROVE  /\ outcomes[b] = NoOutcome
             /\ outcomes' = [outcomes EXCEPT ![b] = OpenOutcome]
  <2>1. outcomes[b] = NoOutcome /\ outcomes'[b] = OpenOutcome
    BY <1>t, <1>2, OutcomeFacts
  <2>2. \A a \in Bet : a # b => outcomes'[a] = outcomes[a]
    BY <1>t, <1>2
  <2> QED BY <1>d, <2>1, <2>2
<1>3. ASSUME NEW b \in Bet, NEW m \in One .. MaxCrash - 1,
             bets[b].state = "PENDING", bets'[b].state = "CASHED_OUT",
             bets'[b].winnings = Winnings(Amount[b], m),
             \A a \in Bet : a # b => bets'[a] = bets[a]
      PROVE  \E payout \in Payout[b] :
               /\ outcomes[b] = OpenOutcome
               /\ outcomes' = [outcomes EXCEPT ![b] = [result |-> "won", payout |-> payout]]
  <2> DEFINE payout == Winnings(Amount[b], m)
  <2>1. payout \in Payout[b]
    BY DEF Payout
  <2> HIDE DEF payout
  <2>2. /\ outcomes[b] = OpenOutcome
        /\ outcomes'[b] = [result |-> "won", payout |-> payout]
    BY <1>t, <1>3, OutcomeFacts DEF payout
  <2>3. \A a \in Bet : a # b => outcomes'[a] = outcomes[a]
    BY <1>t, <1>3
  <2>4. outcomes' = [outcomes EXCEPT ![b] = [result |-> "won", payout |-> payout]]
    BY <1>d, <2>2, <2>3
  <2> QED BY <2>1, <2>2, <2>4
<1>4. ASSUME NEW losers \in SUBSET {b \in Bet : bets[b].state = "PENDING"},
             \A b \in Bet : IF b \in losers
                            THEN bets'[b].state = "LOST" /\ bets'[b].winnings = 0
                            ELSE bets'[b] = bets[b]
      PROVE  \E lost \in SUBSET {b \in Bet : outcomes[b] = OpenOutcome} :
               outcomes' = [b \in Bet |-> IF b \in lost THEN LostOutcome
                                                        ELSE outcomes[b]]
  <2>1. losers \in SUBSET {b \in Bet : outcomes[b] = OpenOutcome}
    BY <1>t, OutcomeFacts
  <2>2. \A b \in Bet : outcomes'[b] = IF b \in losers THEN LostOutcome ELSE outcomes[b]
    BY <1>t, <1>4, OutcomeFacts
  <2>3. outcomes' = [b \in Bet |-> IF b \in losers THEN LostOutcome ELSE outcomes[b]]
    BY <1>d, <2>2
  <2> QED BY <2>1, <2>3
<1> QED BY <1>1, <1>2, <1>3, <1>4, OutcomeSteps

-----------------------------------------------------------------------------
(* The baton.  What follows is about the game as it runs by itself, that is, *)
(* when no client opens rounds: timer, loop and save hand the round on like  *)
(* a baton, and everything else follows from there being one baton.          *)

LoopsOff == \A r \in RoundId : loops[r] = 0

Rest == timers = << >> /\ saving = {} /\ LoopsOff

Betting ==
  /\ timers = <<"betting">> /\ saving = {} /\ LoopsOff
  /\ rounds[current].state = "BETTING"

Pause ==
  /\ timers = <<"pause">> /\ saving = {} /\ LoopsOff
  /\ rounds[current].state = "CRASHED"

OpeningRound ==
  /\ timers = << >> /\ saving = {<<"init", current>>} /\ LoopsOff
  /\ rounds[current].state = "BETTING"

Starting ==
  /\ timers = << >> /\ saving = {<<"running", current>>} /\ LoopsOff
  /\ rounds[current].state = "RUNNING" /\ rounds[current].multiplier = One

Ending ==
  /\ timers = << >> /\ saving = {<<"crashed", current>>} /\ LoopsOff
  /\ rounds[current].state = "CRASHED"

Looping ==
  /\ timers = << >> /\ saving = {}
  /\ rounds[current].state = "RUNNING"
  /\ loops[current] = rounds[current].multiplier
  /\ \A r \in RoundId : r # current => loops[r] = 0

Baton ==
  \/ Rest
  \/ /\ process # "down" /\ current \in RoundId
     /\ Betting \/ Pause \/ OpeningRound \/ Starting \/ Ending \/ Looping

LossesOff == \A r \in RoundId : losing[r].bet = {}

Relay == Baton /\ LossesOff /\ CrashesAtItsPoint

\* Arming the only timer and firing it.
LEMMA OneTimer ==
  \A t \in {"betting", "pause"} :
    /\ Append(<< >>, t) = <<t>>
    /\ Tail(<<t>>) = << >> /\ Head(<<t>>) = t
OBVIOUS

\* In the initial state nobody has the baton.
LEMMA RelayInit == Init => Relay
BY DEF Init, Relay, Baton, Rest, LoopsOff, LossesOff, CrashesAtItsPoint, NoRound, NoLossLoop

\* A step that touches neither the baton nor the rounds.
LEMMA RelayStutter ==
  ASSUME Relay, UNCHANGED <<process, current, rounds, timers, loops, saving, losing>>
  PROVE  Relay'
BY DEF Relay, Baton, Rest, Betting, Pause, OpeningRound, Starting, Ending, Looping,
       LoopsOff, LossesOff, CrashesAtItsPoint

\* Whoever acts has the baton.
LEMMA Holder ==
  ASSUME TypeInv, Baton
  PROVE  /\ process = "down" => Rest
         /\ timers # << >> => current \in RoundId /\ process # "down"
         /\ timers # << >> /\ Head(timers) = "pause" => Pause
         /\ timers # << >> /\ Head(timers) = "betting" => Betting
         /\ \A r \in RoundId :
              /\ <<"init", r>> \in saving => OpeningRound /\ r = current /\ process # "down"
              /\ <<"running", r>> \in saving => Starting /\ r = current /\ process # "down"
              /\ <<"crashed", r>> \in saving => Ending /\ r = current /\ process # "down"
              /\ loops[r] # 0 => Looping /\ r = current /\ process # "down"
<1>1. CASE Rest
  BY <1>1 DEF Rest, LoopsOff
<1>2. CASE process # "down" /\ current \in RoundId /\ Betting
  BY <1>2, OneTimer DEF Betting, LoopsOff
<1>3. CASE process # "down" /\ current \in RoundId /\ Pause
  BY <1>3, OneTimer DEF Pause, LoopsOff
<1>4. CASE process # "down" /\ current \in RoundId /\ (OpeningRound \/ Starting \/ Ending)
  BY <1>4 DEF OpeningRound, Starting, Ending, LoopsOff
<1>5. CASE process # "down" /\ current \in RoundId /\ Looping
  BY <1>5 DEF Looping
<1> QED BY <1>1, <1>2, <1>3, <1>4, <1>5 DEF Baton

\* A fresh round takes the baton to its first save.
LEMMA NewRoundRelay ==
  ASSUME TypeInv, Relay, NewRound, saving = {}, LoopsOff, timers' = << >>,
         process' # "down", UNCHANGED <<loops, losing>>
  PROVE  Relay'
<1>t. /\ rounds \in [RoundId -> RoundRecord] /\ current \in Nat
  BY DEF TypeInv, TypeOK
<1>1. /\ current + 1 \in RoundId /\ current' = current + 1
      /\ rounds' = [rounds EXCEPT ![current + 1] = RoundCreate]
  BY NewRoundType DEF NewRound
<1>2. RoundCreate.state = "BETTING" /\ RoundCreate.crashPoint = NoCrashPoint
  BY DEF RoundCreate, NoRound
<1>3. rounds'[current'].state = "BETTING"
  BY <1>t, <1>1, <1>2
<1>4. CrashesAtItsPoint'
  BY <1>t, <1>1, <1>2 DEF Relay, CrashesAtItsPoint
<1>5. saving' = {<<"init", current'>>}
  BY <1>1 DEF NewRound
<1>6. LoopsOff' /\ LossesOff'
  BY DEF Relay, LoopsOff, LossesOff
<1>7. OpeningRound'
  BY <1>3, <1>5, <1>6 DEF OpeningRound
<1> QED BY <1>1, <1>4, <1>6, <1>7 DEF Relay, Baton

\* Timers: the pause ends with a fresh round, the betting phase with a running one.
LEMMA TimerRelay ==
  ASSUME TypeInv, GameInv, Relay, TimerStep
  PROVE  Relay'
<1>t. /\ rounds \in [RoundId -> RoundRecord] /\ current \in Nat /\ loops \in [RoundId -> Nat]
  BY DEF TypeInv, TypeOK
<1>1. CASE PauseTimer
  <2>1. Pause /\ process' # "down"
    BY <1>1, Holder DEF PauseTimer, Relay
  <2>2. timers' = << >>
    BY <1>1, <2>1, OneTimer DEF PauseTimer, Pause
  <2> QED BY <1>1, <2>1, <2>2, NewRoundRelay DEF PauseTimer, Pause
<1>2. ASSUME NEW c \in CrashMultiplier, StartRound(c) PROVE Relay'
  <2>1. Betting /\ current \in RoundId /\ process' # "down" /\ current' = current
    BY <1>2, Holder DEF StartRound, BettingTimerFires, Relay
  <2> DEFINE started == RoundStart(RoundSetCrashPoint(rounds[current], c, nonce))
  <2>2. /\ rounds' = [rounds EXCEPT ![current] = started]
        /\ timers' = << >> /\ saving' = {<<"running", current>>}
        /\ UNCHANGED <<loops, losing>>
    BY <1>2, <2>1, OneTimer DEF StartRound, BettingTimerFires, Betting
  <2>3. /\ started.state = "RUNNING" /\ started.crashPoint = c /\ started.multiplier = One
        /\ c # NoCrashPoint /\ One < c
    BY <1>t, <2>1, MultiplierAssumption
    DEF RoundStart, RoundSetCrashPoint, RoundRecord, CrashMultiplier, NoCrashPoint
  <2> HIDE DEF started
  <2>4. CrashesAtItsPoint'
    BY <1>t, <2>1, <2>2, <2>3 DEF Relay, CrashesAtItsPoint
  <2>5. LoopsOff' /\ LossesOff'
    BY <2>1, <2>2 DEF Betting, Relay, LoopsOff, LossesOff
  <2>6. Starting'
    BY <1>t, <2>1, <2>2, <2>3, <2>5 DEF Starting
  <2> QED BY <2>1, <2>4, <2>5, <2>6 DEF Relay, Baton
<1>3. CASE LateBettingTimer
  <2>1. Betting
    BY <1>3, Holder DEF LateBettingTimer, BettingTimerFires, Relay
  <2>2. timers' = << >> /\ UNCHANGED <<saving, loops, losing, rounds>>
    BY <1>3, <2>1, OneTimer DEF LateBettingTimer, BettingTimerFires, Betting, game
  <2>3. Rest'
    BY <2>1, <2>2 DEF Betting, Rest, LoopsOff
  <2> QED BY <2>2, <2>3 DEF Relay, Baton, LossesOff, CrashesAtItsPoint
<1> QED BY <1>1, <1>2, <1>3 DEF TimerStep

\* Ticks: the loop goes on, or the round stops on its crash point.
LEMMA LoopRelay ==
  ASSUME TypeInv, GameInv, Relay, NEW r \in RoundId, LoopStep(r)
  PROVE  Relay'
<1>t. /\ rounds \in [RoundId -> RoundRecord] /\ current \in Nat /\ loops \in [RoundId -> Nat]
  BY DEF TypeInv, TypeOK
<1>h. Looping /\ r = current /\ process # "down" /\ current \in RoundId
  BY Holder DEF LoopStep, Tick, TickThrows, Relay
<1>1. CASE Tick(r)
  <2> DEFINE m == loops[r] + 1
             moved == RoundUpdateMultiplier(rounds[current], m)
  <2>1. /\ rounds' = [rounds EXCEPT ![current] = moved]
        /\ loops' = [loops EXCEPT ![r] = IntervalAfter(moved, m)]
        /\ saving' = saving \cup CrashStep(moved, current)
        /\ UNCHANGED <<process, current, timers, losing>>
    BY <1>1 DEF Tick
  <2>2. /\ rounds[current].state = "RUNNING" /\ rounds[current].crashPoint # NoCrashPoint
        /\ rounds[current].multiplier = loops[r]
        /\ m <= rounds[current].crashPoint /\ m \in Nat \ {0}
        /\ rounds[current] \in RoundRecord
        /\ rounds[current].crashPoint \in Nat
    <3>1. /\ rounds[current].state = "RUNNING" /\ rounds[current].crashPoint # NoCrashPoint
          /\ rounds[current].multiplier = loops[r]
          /\ loops[r] < rounds[current].crashPoint
      BY <1>h DEF Looping, Relay, CrashesAtItsPoint
    <3>2. rounds[current] \in RoundRecord /\ loops[r] \in Nat
      BY <1>t, <1>h
    <3>3. rounds[current].crashPoint \in Nat
      BY <3>2, MultiplierAssumption DEF RoundRecord, CrashMultiplier, NoCrashPoint
    <3> QED BY <3>1, <3>2, <3>3
  <2>3. CASE m = rounds[current].crashPoint
    <3>1. /\ moved.state = "CRASHED" /\ moved.multiplier = m
          /\ moved.crashPoint = rounds[current].crashPoint
      BY <2>2, <2>3 DEF RoundUpdateMultiplier, HasCrashed, RoundCrash, RoundRecord
    <3> HIDE DEF moved, m
    <3>2. rounds'[current] = moved /\ \A q \in RoundId : q # current => rounds'[q] = rounds[q]
      BY <1>t, <1>h, <2>1
    <3>3. CrashesAtItsPoint'
      BY <2>2, <2>3, <3>1, <3>2 DEF Relay, CrashesAtItsPoint
    <3>4. LoopsOff' /\ LossesOff'
      BY <1>t, <1>h, <2>1, <3>1 DEF IntervalAfter, Looping, Relay, LoopsOff, LossesOff
    <3>5. Ending'
      BY <1>h, <2>1, <3>1, <3>2, <3>4 DEF Ending, CrashStep, Looping
    <3> QED BY <1>h, <2>1, <3>3, <3>4, <3>5 DEF Relay, Baton
  <2>4. CASE m < rounds[current].crashPoint
    <3>1. /\ moved.state = "RUNNING" /\ moved.multiplier = m
          /\ moved.crashPoint = rounds[current].crashPoint
      BY <2>2, <2>4 DEF RoundUpdateMultiplier, HasCrashed, RoundCrash, RoundRecord
    <3> HIDE DEF moved, m
    <3>2. rounds'[current] = moved /\ \A q \in RoundId : q # current => rounds'[q] = rounds[q]
      BY <1>t, <1>h, <2>1
    <3>3. CrashesAtItsPoint'
      BY <2>2, <2>4, <3>1, <3>2 DEF Relay, CrashesAtItsPoint
    <3>4. LossesOff' /\ loops' = [loops EXCEPT ![r] = m] /\ saving' = saving
      BY <2>1, <3>1 DEF IntervalAfter, CrashStep, Relay, LossesOff
    <3>5. Looping'
      BY <1>t, <1>h, <2>1, <3>1, <3>2, <3>4 DEF Looping
    <3> QED BY <1>h, <2>1, <3>3, <3>4, <3>5 DEF Relay, Baton
  <2> QED BY <2>2, <2>3, <2>4
<1>2. CASE TickThrows(r)
  <2>1. /\ UNCHANGED <<rounds, timers, saving, losing>> /\ LoopsOff'
    BY <1>t, <1>h, <1>2 DEF TickThrows, game, Looping, LoopsOff
  <2>2. Rest'
    BY <1>h, <2>1 DEF Looping, Rest
  <2> QED BY <2>1, <2>2 DEF Relay, Baton, LossesOff, CrashesAtItsPoint
<1> QED BY <1>1, <1>2 DEF LoopStep

\* Saves: an unsaved step drops the baton; when the crash is saved nobody is
\* left to lose, so that the pause follows at once.
LEMMA SaveRelay ==
  ASSUME TypeInv, GameInv, Relay, NEW r \in RoundId, SaveStep(r)
  PROVE  Relay'
<1>t. /\ rounds \in [RoundId -> RoundRecord] /\ current \in Nat /\ loops \in [RoundId -> Nat]
      /\ losing \in [RoundId -> LossLoop]
  BY DEF TypeInv, TypeOK
<1>f. ASSUME InitSaveFails(r) \/ RunningSaveFails(r) \/ CrashedSaveFails(r)
      PROVE  Relay'
  <2>1. /\ saving' = saving \ {<<"init", r>>} \/ saving' = saving \ {<<"running", r>>}
             \/ saving' = saving \ {<<"crashed", r>>}
        /\ UNCHANGED <<rounds, timers, loops, losing>>
        /\ <<"init", r>> \in saving \/ <<"running", r>> \in saving \/ <<"crashed", r>> \in saving
    BY <1>f DEF InitSaveFails, RunningSaveFails, CrashedSaveFails, game
  <2>2. OpeningRound \/ Starting \/ Ending
    BY <2>1, Holder DEF Relay
  <2>3. saving' = {} /\ timers = << >> /\ LoopsOff
    <3>1. CASE <<"init", r>> \in saving
      BY <1>f, <3>1, Holder
      DEF Relay, OpeningRound, InitSaveFails, RunningSaveFails, CrashedSaveFails
    <3>2. CASE <<"running", r>> \in saving
      BY <1>f, <3>2, Holder
      DEF Relay, Starting, InitSaveFails, RunningSaveFails, CrashedSaveFails
    <3>3. CASE <<"crashed", r>> \in saving
      BY <1>f, <3>3, Holder
      DEF Relay, Ending, InitSaveFails, RunningSaveFails, CrashedSaveFails
    <3> QED BY <2>1, <3>1, <3>2, <3>3
  <2>4. Rest'
    BY <2>1, <2>3 DEF Rest, LoopsOff
  <2> QED BY <2>1, <2>4 DEF Relay, Baton, LossesOff, CrashesAtItsPoint
<1>1. CASE InitSaved(r)
  <2>1. OpeningRound /\ r = current /\ current \in RoundId
    BY <1>1, Holder DEF InitSaved, Relay
  <2>2. /\ timers' = <<"betting">> /\ saving' = {} /\ process' = "up"
        /\ UNCHANGED <<current, rounds, loops, losing>>
    BY <1>1, <2>1, OneTimer DEF InitSaved, game, OpeningRound
  <2>3. Betting'
    BY <2>1, <2>2 DEF OpeningRound, Betting, LoopsOff
  <2> QED BY <2>1, <2>2, <2>3 DEF Relay, Baton, LossesOff, CrashesAtItsPoint
<1>2. CASE RunningSaved(r)
  <2>1. Starting /\ r = current /\ current \in RoundId /\ process # "down"
    BY <1>2, Holder DEF RunningSaved, Relay
  <2>2. /\ saving' = {} /\ loops' = [loops EXCEPT ![r] = One]
        /\ UNCHANGED <<process, current, rounds, timers, losing>>
    BY <1>2, <2>1 DEF RunningSaved, game, Starting
  <2>3. Looping'
    BY <1>t, <2>1, <2>2 DEF Starting, Looping, LoopsOff
  <2> QED BY <2>1, <2>2, <2>3 DEF Relay, Baton, LossesOff, CrashesAtItsPoint
<1>3. CASE CrashedSaved(r)
  <2>1. Ending /\ r = current /\ current \in RoundId /\ process # "down"
    BY <1>3, Holder DEF CrashedSaved, Relay
  <2>2. {b \in BetsOf(bets, current) : bets[b].state = "PENDING"} = {}
    BY <2>1 DEF Ending, BetsOf, GameInv, BetsSettleWithRound
  <2>3. losing' = [losing EXCEPT ![r] = NoLossLoop] /\ timers' = Append(timers, "pause")
    BY <1>3, <2>1, <2>2 DEF CrashedSaved, NextLoss
  <2>4. /\ saving' = {} /\ timers' = <<"pause">>
        /\ UNCHANGED <<process, current, rounds, loops>>
    BY <1>3, <2>1, <2>3, OneTimer DEF CrashedSaved, game, Ending
  <2>5. LossesOff'
    BY <1>t, <2>3 DEF Relay, LossesOff, NoLossLoop
  <2>6. Pause'
    BY <2>1, <2>4 DEF Ending, Pause, LoopsOff
  <2> QED BY <2>1, <2>4, <2>5, <2>6 DEF Relay, Baton, CrashesAtItsPoint
<1> QED BY <1>f, <1>1, <1>2, <1>3 DEF SaveStep

\* There is one baton as long as only the service opens rounds.
LEMMA RelayStep ==
  ASSUME ~ ManualRounds, TypeInv, GameInv, Relay, [Next]_vars
  PROVE  Relay'
<1>1. CASE Boot
  <2>1. Rest
    BY <1>1, Holder DEF Boot, Relay
  <2> QED BY <1>1, <2>1, NewRoundRelay DEF Boot, Rest
<1>2. ~ CreateRound
  BY DEF CreateRound
<1>3. CASE TimerStep
  BY <1>3, TimerRelay
<1>4. ASSUME NEW r \in RoundId, LoopStep(r) \/ SaveStep(r) PROVE Relay'
  BY <1>4, LoopRelay, SaveRelay
<1>5. \A r \in RoundId : ~ LossStep(r)
  BY DEF LossStep, LossPublished, LossPublishFails, Relay, LossesOff
<1>6. ASSUME NEW b \in Bet, PlayerStep(b) \/ PlaceStep(b) \/ CashOutStep(b) PROVE Relay'
  <2>1. UNCHANGED <<process, current, rounds, timers, loops, saving, losing>>
    BY <1>6
    DEF PlayerStep, PlaceBet, CashOut, PlaceStep, PlaceSaved, PlaceSaveFails, PlacePublished,
        PlacePublishFails, CashOutStep, CashOutSaved, CashOutSaveFails, CashOutPublished,
        CashOutPublishFails, game
  <2> QED BY <2>1, RelayStutter
<1>7. CASE Crash
  <2>1. /\ timers' = << >> /\ saving' = {} /\ loops' = [r \in RoundId |-> 0]
        /\ losing' = [r \in RoundId |-> NoLossLoop] /\ rounds' = rounds
    BY <1>7 DEF Crash, game
  <2> QED BY <2>1
    DEF Relay, Baton, Rest, LoopsOff, LossesOff, NoLossLoop, CrashesAtItsPoint
<1>8. CASE UNCHANGED vars
  BY <1>8, RelayStutter DEF vars
<1> QED BY <1>1, <1>2, <1>3, <1>4, <1>5, <1>6, <1>7, <1>8 DEF Next

\* What holds throughout, as the ground of the theorems below.
LEMMA RelayInvariant ==
  ASSUME ~ ManualRounds
  PROVE  Spec => [](TypeInv /\ GameInv /\ Relay)
<1>1. Init => TypeInv /\ GameInv /\ Relay
  BY TypeInvInit, GameInvInit, RelayInit
<1>2. TypeInv /\ GameInv /\ Relay /\ [Next]_vars => (TypeInv /\ GameInv /\ Relay)'
  BY TypeInvStep, GameInvStep, RelayStep
<1> QED BY <1>1, <1>2, PTL DEF Spec

-----------------------------------------------------------------------------
(* One driver *)

\* Whoever has the baton is the only one to drive the round.
LEMMA BatonIsOneDriver == Baton /\ LossesOff => SingleDriver
<1> SUFFICES ASSUME Baton, LossesOff PROVE \E d : Drivers \subseteq {d}
  BY DEF SingleDriver
<1>1. Drivers = {<<"timer", i>> : i \in DOMAIN timers}
                  \cup {<<"loop", r>> : r \in {q \in RoundId : loops[q] # 0}} \cup saving
  BY DEF Drivers, LossesOff
<1>2. DOMAIN << >> = {} /\ \A t : DOMAIN <<t>> = {1}
  OBVIOUS
<1>3. CASE Rest
  BY <1>1, <1>2, <1>3 DEF Rest, LoopsOff
<1>4. CASE Betting \/ Pause
  <2>1. Drivers = {<<"timer", 1>>}
    BY <1>1, <1>2, <1>4 DEF Betting, Pause, LoopsOff
  <2> QED BY <2>1
<1>5. CASE OpeningRound \/ Starting \/ Ending
  <2>1. Drivers = saving /\ \E d : saving = {d}
    BY <1>1, <1>2, <1>5 DEF OpeningRound, Starting, Ending, LoopsOff
  <2> QED BY <2>1
<1>6. CASE Looping
  <2>1. {q \in RoundId : loops[q] # 0} \subseteq {current}
    BY <1>6 DEF Looping
  <2>2. Drivers \subseteq {<<"loop", current>>}
    BY <1>1, <1>2, <1>6, <2>1 DEF Looping
  <2> QED BY <2>2
<1> QED BY <1>3, <1>4, <1>5, <1>6 DEF Baton

\* While only the service opens rounds, at most one timer, interval, lifecycle
\* step or loss loop is at work, whatever fails and however often it restarts.
THEOREM OneDriver ==
  ASSUME ~ ManualRounds
  PROVE  Spec => []SingleDriver
<1>1. TypeInv /\ GameInv /\ Relay => SingleDriver
  BY BatonIsOneDriver DEF Relay
<1> QED BY <1>1, RelayInvariant, PTL

\* No other loop pushes the round, so that it stops on its crash point and
\* never past it.
THEOREM RoundsStopOnTheirPoint ==
  ASSUME ~ ManualRounds
  PROVE  Spec => []CrashesAtItsPoint
<1>1. TypeInv /\ GameInv /\ Relay => CrashesAtItsPoint
  BY DEF Relay
<1> QED BY <1>1, RelayInvariant, PTL

-----------------------------------------------------------------------------
(* No bet left behind: the pause hands over a round whose bets are settled.  *)

BehindInv == NoBetLeftBehind /\ firstRound <= current

\* How the round is replaced: by a restart, or after its crash.
LEMMA Replacement ==
  ASSUME ~ ManualRounds, TypeInv, GameInv, Relay, [Next]_vars
  PROVE  \/ current' = current + 1 /\ firstRound' = current + 1 /\ bets' = bets
         \/ /\ current' = current + 1 /\ firstRound' = firstRound /\ bets' = bets
            /\ current \in RoundId /\ rounds[current].state = "CRASHED"
         \/ current' = current /\ firstRound' = firstRound
<1>1. CASE Boot
  BY <1>1 DEF Boot, NewRound
<1>2. CASE PauseTimer
  BY <1>2, Holder DEF PauseTimer, NewRound, Relay, Pause
<1>3. ~ CreateRound
  BY DEF CreateRound
<1>4. CASE LateBettingTimer \/ Crash \/ UNCHANGED vars
  BY <1>4 DEF LateBettingTimer, Crash, vars, game
<1>5. ASSUME NEW c \in CrashMultiplier, StartRound(c)
      PROVE  current' = current /\ firstRound' = firstRound
  BY <1>5 DEF StartRound
<1>6. ASSUME NEW r \in RoundId, LoopStep(r) \/ SaveStep(r) \/ LossStep(r)
      PROVE  current' = current /\ firstRound' = firstRound
  BY <1>6
  DEF LoopStep, SaveStep, LossStep, Tick, TickThrows, InitSaved, InitSaveFails, RunningSaved,
      RunningSaveFails, CrashedSaved, CrashedSaveFails, LossPublished, LossPublishFails, game
<1>7. ASSUME NEW b \in Bet, PlayerStep(b) \/ PlaceStep(b) \/ CashOutStep(b)
      PROVE  current' = current /\ firstRound' = firstRound
  BY <1>7
  DEF PlayerStep, PlaceBet, CashOut, PlaceStep, CashOutStep, PlaceSaved, PlaceSaveFails,
      PlacePublished, PlacePublishFails, CashOutSaved, CashOutSaveFails, CashOutPublished,
      CashOutPublishFails, game
<1> QED BY <1>1, <1>2, <1>3, <1>4, <1>5, <1>6, <1>7 DEF Next, TimerStep

\* A pending bet was pending before, in the same round, or is placed in the current one.
LEMMA PendingBets ==
  ASSUME TypeInv, [Next]_vars, NEW b \in Bet, bets'[b].state = "PENDING"
  PROVE  \/ bets[b].state = "PENDING" /\ bets'[b].round = bets[b].round
         \/ bets'[b].round = current
<1>t. bets \in [Bet -> BetRecord]
  BY DEF TypeInv, TypeOK
<1>1. ASSUME NEW c \in CrashMultiplier, StartRound(c)
      PROVE  bets[b].state = "PENDING" /\ bets'[b].round = bets[b].round
  BY <1>t, <1>1 DEF StartRound, RoundSetBetCrashPoints, BetSetCrashPoint, BetRecord
<1>2. ASSUME NEW r \in RoundId, Tick(r)
      PROVE  bets[b].state = "PENDING" /\ bets'[b].round = bets[b].round
  BY <1>t, <1>2 DEF Tick, RoundUpdateBets, RoundCrashBets, BetLose, BetRecord
<1>3. ASSUME NEW a \in Bet, PlaceBet(a)
      PROVE  \/ bets[b].state = "PENDING" /\ bets'[b].round = bets[b].round
             \/ bets'[b].round = current
  BY <1>t, <1>3 DEF PlaceBet, RoundPlaceBet, BetCreate, AbsentBet
<1>4. ASSUME NEW a \in Bet, NEW m \in One .. MaxCrash, CashOut(a, m)
      PROVE  bets[b].state = "PENDING" /\ bets'[b].round = bets[b].round
  BY <1>t, <1>4 DEF CashOut, RoundCashOut, BetCashOut, BetRecord
<1> QED BY <1>1, <1>2, <1>3, <1>4, GameSteps

\* While the process lives, every pending bet is in the only round that can
\* still settle it.
THEOREM NoBetIsLeftBehind ==
  ASSUME ~ ManualRounds
  PROVE  Spec => []NoBetLeftBehind
<1>1. Init => BehindInv
  BY DEF Init, BehindInv, NoBetLeftBehind, AbsentBet
<1>2. TypeInv /\ GameInv /\ Relay /\ BehindInv /\ [Next]_vars => BehindInv'
  <2> SUFFICES ASSUME TypeInv, GameInv, Relay, BehindInv, [Next]_vars PROVE BehindInv'
    OBVIOUS
  <2>t. current \in Nat /\ firstRound \in Nat
    BY DEF TypeInv, TypeOK
  <2>1. firstRound' <= current'
    BY <2>t, Replacement DEF BehindInv
  <2>2. ASSUME NEW b \in Bet, bets'[b].state = "PENDING", bets'[b].round >= firstRound'
        PROVE  bets'[b].round = current'
    <3>1. bets[b].state = "PENDING" =>
            /\ bets[b].round \in RoundId /\ bets[b].round <= current
            /\ rounds[bets[b].round].state # "CRASHED"
      BY <2>t DEF GameInv, BetsInRounds, RoundsInOrder, BetsSettleWithRound, RoundId
    <3>2. CASE current' = current /\ firstRound' = firstRound
      BY <2>2, <3>2, PendingBets DEF BehindInv, NoBetLeftBehind
    <3>3. CASE current' = current + 1 /\ firstRound' = current + 1 /\ bets' = bets
      BY <2>t, <2>2, <3>1, <3>3 DEF RoundId
    <3>4. CASE /\ current' = current + 1 /\ firstRound' = firstRound /\ bets' = bets
               /\ rounds[current].state = "CRASHED"
      BY <2>2, <3>1, <3>4 DEF BehindInv, NoBetLeftBehind
    <3> QED BY <3>2, <3>3, <3>4, Replacement
  <2> QED BY <2>1, <2>2 DEF BehindInv, NoBetLeftBehind
<1> QED BY <1>1, <1>2, RelayInvariant, PTL DEF Spec, BehindInv

-----------------------------------------------------------------------------
(* Notices and events *)

NoticeInv == NoticesTellTheTruth /\ \A n \in notices : n.round \in RoundId

\* What a notice says of a round stays true of it.
LEMMA RoundsKeepTheirOutcome ==
  ASSUME TypeInv, GameInv, [Next]_vars, NEW r \in RoundId
  PROVE  /\ rounds[r].state = "CRASHED" => rounds'[r].state = "CRASHED"
         /\ rounds[r].crashPoint # NoCrashPoint =>
              rounds'[r].crashPoint = rounds[r].crashPoint
<1>t. rounds \in [RoundId -> RoundRecord] /\ current \in Nat
  BY DEF TypeInv, TypeOK
<1>1. CASE NewRound
  BY <1>t, <1>1 DEF NewRound, GameInv, RoundsInOrder, RoundId
<1>2. ASSUME NEW c \in CrashMultiplier, StartRound(c)
      PROVE  r # current => rounds'[r] = rounds[r]
  BY <1>t, <1>2 DEF StartRound
<1>3. ASSUME NEW c \in CrashMultiplier, StartRound(c)
      PROVE  rounds[current].state = "BETTING" /\ rounds[current].crashPoint = NoCrashPoint
  BY <1>3 DEF StartRound, RoundCanSetCrashPoint
<1>4. ASSUME NEW q \in RoundId, Tick(q)
      PROVE  /\ rounds[r].state = "CRASHED" => rounds'[r].state = "CRASHED"
             /\ rounds'[r].crashPoint = rounds[r].crashPoint
  <2>1. current \in RoundId
    BY <1>4, CurrentRound
  <2> DEFINE moved == RoundUpdateMultiplier(rounds[current], loops[q] + 1)
  <2>2. /\ rounds' = [rounds EXCEPT ![current] = moved]
        /\ rounds[current].state = "RUNNING"
    BY <1>4 DEF Tick, RoundCanUpdateMultiplier
  <2>3. moved.crashPoint = rounds[current].crashPoint
    BY <1>t, <2>1 DEF RoundUpdateMultiplier, RoundCrash, RoundRecord
  <2> HIDE DEF moved
  <2> QED BY <1>t, <2>1, <2>2, <2>3
<1>5. ASSUME NEW b \in Bet, PlaceBet(b) PROVE rounds' = rounds
  BY <1>5 DEF PlaceBet
<1>6. ASSUME NEW b \in Bet, NEW m \in One .. MaxCrash, CashOut(b, m) PROVE rounds' = rounds
  BY <1>6 DEF CashOut
<1> QED BY <1>1, <1>2, <1>3, <1>4, <1>5, <1>6, GameSteps

\* Which notices a step adds.
LEMMA NewNotices ==
  ASSUME ~ ManualRounds, TypeInv, GameInv, Relay, [Next]_vars, NEW n \in notices', n \notin notices
  PROVE  /\ rounds' = rounds /\ n.round = current /\ current \in RoundId
         /\ n.event = "round:crashed" => rounds[current].state = "CRASHED"
         /\ n.crashPoint \in {NoCrashPoint, rounds[current].crashPoint}
<1>1. ASSUME NEW r \in RoundId, InitSaved(r)
      PROVE  /\ rounds' = rounds /\ n.round = current /\ current \in RoundId
             /\ n.event # "round:crashed" /\ n.crashPoint = NoCrashPoint
  <2>1. r = current
    BY <1>1, Holder DEF InitSaved, Relay
  <2>2. n = [event |-> "round:state-changed", round |-> current,
             state |-> rounds[current].state, crashPoint |-> NoCrashPoint]
    BY <1>1 DEF InitSaved
  <2>3. rounds' = rounds
    BY <1>1 DEF InitSaved, game
  <2> QED BY <2>1, <2>2, <2>3
<1>2. ASSUME NEW r \in RoundId, RunningSaved(r)
      PROVE  /\ rounds' = rounds /\ n.round = current /\ current \in RoundId
             /\ n.event # "round:crashed" /\ n.crashPoint = rounds[current].crashPoint
  <2>1. r = current
    BY <1>2, Holder DEF RunningSaved, Relay
  <2>2. n = [event |-> "round:state-changed", round |-> current,
             state |-> rounds[current].state, crashPoint |-> rounds[r].crashPoint]
    BY <1>2 DEF RunningSaved
  <2>3. rounds' = rounds
    BY <1>2 DEF RunningSaved, game
  <2> QED BY <2>1, <2>2, <2>3
<1>3. ASSUME NEW r \in RoundId, CrashedSaved(r)
      PROVE  /\ rounds' = rounds /\ n.round = current /\ current \in RoundId
             /\ rounds[current].state = "CRASHED" /\ n.crashPoint = NoCrashPoint
  <2>1. r = current /\ rounds[current].state = "CRASHED"
    BY <1>3, Holder DEF CrashedSaved, Relay, Ending
  <2>2. n = [event |-> "round:crashed", round |-> current,
             state |-> rounds[current].state, crashPoint |-> NoCrashPoint]
    BY <1>3 DEF CrashedSaved
  <2>3. rounds' = rounds
    BY <1>3 DEF CrashedSaved, game
  <2> QED BY <2>1, <2>2, <2>3
<1>4. CASE Boot \/ CreateRound \/ TimerStep \/ Crash \/ UNCHANGED vars
  BY <1>4 DEF Boot, CreateRound, TimerStep, PauseTimer, StartRound, LateBettingTimer, Crash, vars
<1>5. ASSUME NEW r \in RoundId,
             \/ LoopStep(r) \/ LossStep(r) \/ InitSaveFails(r)
             \/ RunningSaveFails(r) \/ CrashedSaveFails(r)
      PROVE  FALSE
  BY <1>5
  DEF LoopStep, LossStep, Tick, TickThrows, InitSaveFails, RunningSaveFails, CrashedSaveFails,
      LossPublished, LossPublishFails
<1>6. ASSUME NEW b \in Bet, PlayerStep(b) \/ PlaceStep(b) \/ CashOutStep(b)
      PROVE  FALSE
  BY <1>6
  DEF PlayerStep, PlaceBet, CashOut, PlaceStep, CashOutStep, PlaceSaved, PlaceSaveFails,
      PlacePublished, PlacePublishFails, CashOutSaved, CashOutSaveFails, CashOutPublished,
      CashOutPublishFails
<1> QED BY <1>1, <1>2, <1>3, <1>4, <1>5, <1>6 DEF Next, SaveStep

\* Clients are told of a crash only for a crashed round, and the crash point
\* of the very round they are told about.
THEOREM NoticesAreTrue ==
  ASSUME ~ ManualRounds
  PROVE  Spec => []NoticesTellTheTruth
<1>1. Init => NoticeInv
  BY DEF Init, NoticeInv, NoticesTellTheTruth
<1>2. TypeInv /\ GameInv /\ Relay /\ NoticeInv /\ [Next]_vars => NoticeInv'
  <2> SUFFICES ASSUME TypeInv, GameInv, Relay, NoticeInv, [Next]_vars, NEW n \in notices'
               PROVE  /\ n.round \in RoundId
                      /\ n.event = "round:crashed" => rounds'[n.round].state = "CRASHED"
                      /\ n.crashPoint # NoCrashPoint =>
                           rounds'[n.round].crashPoint = n.crashPoint
    BY DEF NoticeInv, NoticesTellTheTruth
  <2>1. CASE n \in notices
    BY <2>1, RoundsKeepTheirOutcome DEF NoticeInv, NoticesTellTheTruth
  <2>2. CASE n \notin notices
    BY <2>2, NewNotices
  <2> QED BY <2>1, <2>2
<1> QED BY <1>1, <1>2, RelayInvariant, PTL DEF Spec, NoticeInv

\* What the wallets are told to pay is what the bet won, and they are never
\* told of a loss while only the service opens rounds.
THEOREM EventsAreTrue == Spec => []EventsTellTheTruth
<1>1. CASE ManualRounds
  <2>1. PaymentEventsAreTrue => EventsTellTheTruth
    BY <1>1 DEF EventsTellTheTruth
  <2> QED BY <2>1, PaymentEvents, PTL
<1>2. CASE ~ ManualRounds
  <2> DEFINE NoLoss == \A e \in events : e.type # "bet.lost"
  <2>1. Init => NoLoss
    BY DEF Init
  <2>2. Relay /\ NoLoss /\ [Next]_vars => NoLoss'
    <3> SUFFICES ASSUME Relay, [Next]_vars
                 PROVE  \A e \in events' : e \in events \/ e.type # "bet.lost"
      OBVIOUS
    <3>1. CASE Boot \/ CreateRound \/ TimerStep \/ Crash \/ UNCHANGED vars
      BY <3>1
      DEF Boot, CreateRound, TimerStep, PauseTimer, StartRound, LateBettingTimer, Crash, vars
    <3>2. ASSUME NEW r \in RoundId, LoopStep(r) \/ SaveStep(r) \/ LossStep(r)
          PROVE  events' = events
      BY <3>2
      DEF LoopStep, SaveStep, LossStep, Tick, TickThrows, InitSaved, InitSaveFails, RunningSaved,
          RunningSaveFails, CrashedSaved, CrashedSaveFails, LossPublished, LossPublishFails,
          Relay, LossesOff
    <3>3. ASSUME NEW b \in Bet, PlayerStep(b) \/ PlaceStep(b) \/ CashOutStep(b)
          PROVE  \A e \in events' : e \in events \/ e.type # "bet.lost"
      BY <3>3
      DEF PlayerStep, PlaceBet, CashOut, PlaceStep, CashOutStep, PlaceSaved, PlaceSaveFails,
          PlacePublished, PlacePublishFails, CashOutSaved, CashOutSaveFails, CashOutPublished,
          CashOutPublishFails, BetEvent
    <3> QED BY <3>1, <3>2, <3>3 DEF Next
  <2>3. PaymentEventsAreTrue /\ NoLoss => EventsTellTheTruth
    BY DEF EventsTellTheTruth
  <2>4. Spec => [](TypeInv /\ GameInv /\ Relay)
    BY <1>2, RelayInvariant
  <2> HIDE DEF NoLoss
  <2> QED BY <2>1, <2>2, <2>3, <2>4, PaymentEvents, PTL DEF Spec
<1> QED BY <1>1, <1>2
=============================================================================
