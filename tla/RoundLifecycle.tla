--------------------------- MODULE RoundLifecycle ---------------------------
(***************************************************************************)
(* RoundLifecycleService of the Games service, with the HTTP handlers that *)
(* call it (services/games/src/application, presentation/controllers).     *)
(*                                                                         *)
(* The service is one object on one event loop: it holds the current round *)
(* in memory, three kinds of timer callbacks move it, and every handler is *)
(* cut at its awaits.  An action is what runs between two awaits, so that  *)
(* handlers, timers and saves interleave as they do on the event loop.     *)
(* Rounds are numbered in the order initializeNewRound creates them; a     *)
(* continuation that reads this.currentRound reads current, not the round  *)
(* it started with.                                                        *)
(***************************************************************************)
EXTENDS RoundAggregate, Sequences

CONSTANTS
  MaxRounds,        \* bound: rounds created in one behaviour
  ManualRounds,     \* clients use POST /games/rounds
  SavesMayFail,     \* roundRepository.save may reject
  PublishMayFail,   \* rabbitmqPublisher.publish* may reject
  ProcessMayCrash   \* the process may die and be started again

ASSUME BoundAssumption == MaxRounds \in Nat \ {0}
ASSUME SwitchAssumption ==
  {ManualRounds, SavesMayFail, PublishMayFail, ProcessMayCrash} \subseteq BOOLEAN

VARIABLES
  process,     \* "down", "booting" (not listening yet) or "up"
  firstRound,  \* the first round of this process: earlier ones are only in the database
  current,     \* this.currentRound
  nonce,       \* this._nonce
  rounds,      \* the Round objects, and what became of those of earlier processes
  bets,        \* the Bet objects
  timers,      \* armed 5 s timeouts, in the order they fire (all have one duration)
  loops,       \* loops[r]: currentMultiplier of the setInterval started for r, 0 = cleared
  saving,      \* <<step, r>>: a lifecycle step that awaits its save of round r
  losing,      \* losing[r]: the loop of transitionToCrashed of r over the pending bets
  placing,     \* placing[b]: the POST /bets that placed b
  cashing,     \* cashing[b]: the POST /bets/:betId/cash-out that cashed b out
  events,      \* events handed to the broker
  notices      \* round notices emitted to the clients

vars == <<process, firstRound, current, nonce, rounds, bets, timers, loops,
          saving, losing, placing, cashing, events, notices>>

RoundId == 1 .. MaxRounds
Steps == {"init", "running", "crashed"}

Call == [step : {"idle", "saving", "publishing"}, round : Nat]
Idle == [step |-> "idle", round |-> 0]
Saving == [step |-> "saving", round |-> 0]
Publishing(r) == [step |-> "publishing", round |-> r]

Event == [type : {"bet.placed", "bet.cashed-out", "bet.lost"},
          bet : Bet, round : Nat, winnings : Nat]
BetEvent(t, b, r, w) == [type |-> t, bet |-> b, round |-> r, winnings |-> w]

Notice == [event : {"round:state-changed", "round:crashed"}, round : Nat,
           state : {"NONE", "BETTING", "RUNNING", "CRASHED"},
           crashPoint : {NoCrashPoint} \cup CrashMultiplier]

\* transitionToCrashed publishes for the bets of `rest`, one at a time
LossLoop == [bet : SUBSET Bet, round : Nat, rest : SUBSET Bet]
NoLossLoop == [bet |-> {}, round |-> 0, rest |-> {}]

TypeOK ==
  /\ process \in {"down", "booting", "up"}
  /\ current \in 0 .. MaxRounds
  /\ firstRound \in 0 .. MaxRounds
  /\ nonce \in Nat
  /\ rounds \in [RoundId -> RoundRecord]
  /\ bets \in [Bet -> BetRecord]
  /\ timers \in Seq({"betting", "pause"})
  /\ loops \in [RoundId -> Nat]
  /\ saving \subseteq Steps \X RoundId
  /\ losing \in [RoundId -> LossLoop]
  /\ placing \in [Bet -> Call]
  /\ cashing \in [Bet -> Call]
  /\ events \subseteq Event
  /\ notices \subseteq Notice

Init ==
  /\ process = "down"
  /\ current = 0 /\ firstRound = 0 /\ nonce = 1
  /\ rounds = [r \in RoundId |-> NoRound]
  /\ bets = [b \in Bet |-> AbsentBet]
  /\ timers = << >>
  /\ loops = [r \in RoundId |-> 0]
  /\ saving = {}
  /\ losing = [r \in RoundId |-> NoLossLoop]
  /\ placing = [b \in Bet |-> Idle]
  /\ cashing = [b \in Bet |-> Idle]
  /\ events = {}
  /\ notices = {}

requests == <<placing, cashing>>
game == <<current, firstRound, rounds, bets>>

-----------------------------------------------------------------------------
(* initializeNewRound and startBettingPhase *)

\* The synchronous part: a fresh round replaces this.currentRound, whatever
\* its state, and the handler awaits its save.
NewRound ==
  /\ current < MaxRounds
  /\ current' = current + 1
  /\ rounds' = [rounds EXCEPT ![current + 1] = RoundCreate]
  /\ saving' = saving \cup {<<"init", current + 1>>}

\* A new process constructs the service (_nonce = 1) and onModuleInit opens
\* the first round; the HTTP server listens once that has been saved.
Boot ==
  /\ process = "down"
  /\ process' = "booting"
  /\ NewRound
  /\ firstRound' = current + 1
  /\ nonce' = 1
  /\ UNCHANGED <<bets, timers, loops, losing, requests, events, notices>>

\* POST /games/rounds, accepted while the current round is CRASHED.
CreateRound ==
  /\ ManualRounds
  /\ process = "up"
  /\ rounds[current].state = "CRASHED"
  /\ NewRound
  /\ UNCHANGED <<process, firstRound, nonce, bets, timers, loops, losing,
                 requests, events, notices>>

\* The timeout armed at the end of transitionToCrashed.
PauseTimer ==
  /\ timers # << >> /\ Head(timers) = "pause"
  /\ timers' = Tail(timers)
  /\ NewRound
  /\ UNCHANGED <<process, firstRound, nonce, bets, loops, losing, requests,
                 events, notices>>

InitSaved(r) ==
  /\ <<"init", r>> \in saving
  /\ saving' = saving \ {<<"init", r>>}
  /\ process' = "up"
  /\ timers' = Append(timers, "betting")
  /\ notices' = notices \cup
       {[event |-> "round:state-changed", round |-> current,
         state |-> rounds[current].state, crashPoint |-> NoCrashPoint]}
  /\ UNCHANGED <<game, nonce, loops, losing, requests, events>>

\* The error reaches a log line or an HTTP 400; during boot it ends the process.
InitSaveFails(r) ==
  /\ SavesMayFail
  /\ <<"init", r>> \in saving
  /\ saving' = saving \ {<<"init", r>>}
  /\ process' = IF process = "booting" THEN "down" ELSE process
  /\ UNCHANGED <<game, nonce, timers, loops, losing, requests, events, notices>>

-----------------------------------------------------------------------------
(* transitionToRunning *)

BettingTimerFires ==
  /\ timers # << >> /\ Head(timers) = "betting"
  /\ timers' = Tail(timers)
  /\ nonce' = nonce + 1

StartRound(crashPoint) ==
  /\ BettingTimerFires
  /\ RoundCanSetCrashPoint(rounds[current])
  /\ LET ready == RoundSetCrashPoint(rounds[current], crashPoint, nonce) IN
       /\ RoundCanStart(ready)
       /\ rounds' = [rounds EXCEPT ![current] = RoundStart(ready)]
  /\ bets' = RoundSetBetCrashPoints(bets, current, crashPoint)
  /\ saving' = saving \cup {<<"running", current>>}
  /\ UNCHANGED <<process, firstRound, current, loops, losing, requests, events,
                 notices>>

\* setCrashPoint throws: the round has already left BETTING.
LateBettingTimer ==
  /\ BettingTimerFires
  /\ ~ RoundCanSetCrashPoint(rounds[current])
  /\ UNCHANGED <<process, game, loops, saving, losing, requests, events, notices>>

\* The announced crash point is the local variable, the rest is read from
\* this.currentRound after the await.
RunningSaved(r) ==
  /\ <<"running", r>> \in saving
  /\ saving' = saving \ {<<"running", r>>}
  /\ notices' = notices \cup
       {[event |-> "round:state-changed", round |-> current,
         state |-> rounds[current].state, crashPoint |-> rounds[r].crashPoint]}
  /\ loops' = [loops EXCEPT ![r] = One]
  /\ UNCHANGED <<process, game, nonce, timers, losing, requests, events>>

\* Caught and logged: no loop is started.
RunningSaveFails(r) ==
  /\ SavesMayFail
  /\ <<"running", r>> \in saving
  /\ saving' = saving \ {<<"running", r>>}
  /\ UNCHANGED <<process, game, nonce, timers, loops, losing, requests, events,
                 notices>>

-----------------------------------------------------------------------------
(* startMultiplierLoop *)

IntervalAfter_notCleared(round, m) == m

\* clearInterval when the round has crashed
IntervalAfter(round, m) == IF round.state = "CRASHED" THEN 0 ELSE m

\* transitionToCrashed, up to its save, when the round has crashed
CrashStep(round, r) == IF round.state = "CRASHED" THEN {<<"crashed", r>>} ELSE {}

Tick_armsPauseFirst(r) ==
  LET m == loops[r] + 1
      round == RoundUpdateMultiplier(rounds[current], m)
  IN  /\ loops[r] # 0
      /\ RoundCanUpdateMultiplier(rounds[current], m)
      /\ rounds' = [rounds EXCEPT ![current] = round]
      /\ bets' = RoundUpdateBets(rounds[current], bets, current, m)
      /\ loops' = [loops EXCEPT ![r] = IntervalAfter(round, m)]
      /\ saving' = saving \cup CrashStep(round, current)
      /\ timers' = IF round.state = "CRASHED" THEN Append(timers, "pause") ELSE timers
      /\ UNCHANGED <<process, firstRound, current, nonce, losing, requests,
                     events, notices>>

\* One tick of the loop started for r, applied to this.currentRound.
Tick(r) ==
  LET m == loops[r] + 1
      round == RoundUpdateMultiplier(rounds[current], m)
  IN  /\ loops[r] # 0
      /\ RoundCanUpdateMultiplier(rounds[current], m)
      /\ rounds' = [rounds EXCEPT ![current] = round]
      /\ bets' = RoundUpdateBets(rounds[current], bets, current, m)
      /\ loops' = [loops EXCEPT ![r] = IntervalAfter(round, m)]
      /\ saving' = saving \cup CrashStep(round, current)
      /\ UNCHANGED <<process, firstRound, current, nonce, timers, losing,
                     requests, events, notices>>

\* updateMultiplier throws: the interval is cleared.
TickThrows(r) ==
  /\ loops[r] # 0
  /\ ~ RoundCanUpdateMultiplier(rounds[current], loops[r] + 1)
  /\ loops' = [loops EXCEPT ![r] = 0]
  /\ UNCHANGED <<process, game, nonce, timers, saving, losing, requests, events,
                 notices>>

-----------------------------------------------------------------------------
(* transitionToCrashed *)

NextLoss_forgetsPause(r, todo) ==
  /\ losing' = [losing EXCEPT ![r] = NoLossLoop]
  /\ UNCHANGED timers

\* The loop over this.currentRound.bets from the bets of todo on: the next
\* pending one is published, and after the last one the pause timer is armed.
NextLoss(r, todo) ==
  LET pending == {b \in todo : bets[b].state = "PENDING"}
  IN  \/ /\ pending = {}
         /\ losing' = [losing EXCEPT ![r] = NoLossLoop]
         /\ timers' = Append(timers, "pause")
      \/ \E b \in pending :
           /\ losing' = [losing EXCEPT ![r] =
                           [bet |-> {b}, round |-> current, rest |-> todo \ {b}]]
           /\ UNCHANGED timers

CrashedSaved(r) ==
  /\ <<"crashed", r>> \in saving
  /\ saving' = saving \ {<<"crashed", r>>}
  /\ notices' = notices \cup
       {[event |-> "round:crashed", round |-> current,
         state |-> rounds[current].state, crashPoint |-> NoCrashPoint]}
  /\ NextLoss(r, BetsOf(bets, current))
  /\ UNCHANGED <<process, game, nonce, loops, requests, events>>

\* Caught and logged: the pause timer is not armed.
CrashedSaveFails(r) ==
  /\ SavesMayFail
  /\ <<"crashed", r>> \in saving
  /\ saving' = saving \ {<<"crashed", r>>}
  /\ UNCHANGED <<process, game, nonce, timers, loops, losing, requests, events,
                 notices>>

LossPublished(r) ==
  /\ losing[r].bet # {}
  /\ events' = events \cup
       {BetEvent("bet.lost", b, losing[r].round, 0) : b \in losing[r].bet}
  /\ NextLoss(r, losing[r].rest)
  /\ UNCHANGED <<process, game, nonce, loops, saving, requests, notices>>

LossPublishFails(r) ==
  /\ PublishMayFail
  /\ losing[r].bet # {}
  /\ losing' = [losing EXCEPT ![r] = NoLossLoop]
  /\ UNCHANGED <<process, game, nonce, timers, loops, saving, requests, events,
                 notices>>

-----------------------------------------------------------------------------
(* placeBet.  A refused request changes nothing and has no action. *)

PlaceBet(b) ==
  /\ process = "up"
  /\ RoundCanPlaceBet(rounds[current], bets, b)
  /\ bets' = RoundPlaceBet(bets, current, b)
  /\ placing' = [placing EXCEPT ![b] = Saving]
  /\ UNCHANGED <<process, firstRound, current, rounds, nonce, timers, loops,
                 saving, losing, cashing, events, notices>>

PlaceSaved_looksUpBet(b) ==
  /\ placing[b].step = "saving"
  /\ placing' = [placing EXCEPT ![b] =
                   IF b \in BetsOf(bets, current) THEN Publishing(current) ELSE Idle]
  /\ UNCHANGED <<process, game, nonce, timers, loops, saving, losing, cashing,
                 events, notices>>

\* The event names the round that is current after the save.
PlaceSaved(b) ==
  /\ placing[b].step = "saving"
  /\ placing' = [placing EXCEPT ![b] = Publishing(current)]
  /\ UNCHANGED <<process, game, nonce, timers, loops, saving, losing, cashing,
                 events, notices>>

\* Rethrown as HTTP 400: no event, and the bet stays in the round.
PlaceSaveFails(b) ==
  /\ SavesMayFail
  /\ placing[b].step = "saving"
  /\ placing' = [placing EXCEPT ![b] = Idle]
  /\ UNCHANGED <<process, game, nonce, timers, loops, saving, losing, cashing,
                 events, notices>>

PlacePublished(b) ==
  /\ placing[b].step = "publishing"
  /\ placing' = [placing EXCEPT ![b] = Idle]
  /\ events' = events \cup {BetEvent("bet.placed", b, placing[b].round, 0)}
  /\ UNCHANGED <<process, game, nonce, timers, loops, saving, losing, cashing,
                 notices>>

\* "non-blocking": the request succeeds without its event.
PlacePublishFails(b) ==
  /\ PublishMayFail
  /\ placing[b].step = "publishing"
  /\ placing' = [placing EXCEPT ![b] = Idle]
  /\ UNCHANGED <<process, game, nonce, timers, loops, saving, losing, cashing,
                 events, notices>>

-----------------------------------------------------------------------------
(* cashOutBet; the multiplier comes with the request *)

CashOut(b, m) ==
  /\ process = "up"
  /\ RoundCanCashOut(rounds[current], bets, current, b, m)
  /\ bets' = RoundCashOut(bets, b, m)
  /\ cashing' = [cashing EXCEPT ![b] = Saving]
  /\ UNCHANGED <<process, firstRound, current, rounds, nonce, timers, loops,
                 saving, losing, placing, events, notices>>

CashOutSaved_noLookUp(b) ==
  /\ cashing[b].step = "saving"
  /\ cashing' = [cashing EXCEPT ![b] = Publishing(current)]
  /\ UNCHANGED <<process, game, nonce, timers, loops, saving, losing, placing,
                 events, notices>>

\* The bet is looked up again, in the round that is current after the save.
CashOutSaved(b) ==
  /\ cashing[b].step = "saving"
  /\ cashing' = [cashing EXCEPT ![b] =
                   IF b \in BetsOf(bets, current) THEN Publishing(current) ELSE Idle]
  /\ UNCHANGED <<process, game, nonce, timers, loops, saving, losing, placing,
                 events, notices>>

CashOutSaveFails(b) ==
  /\ SavesMayFail
  /\ cashing[b].step = "saving"
  /\ cashing' = [cashing EXCEPT ![b] = Idle]
  /\ UNCHANGED <<process, game, nonce, timers, loops, saving, losing, placing,
                 events, notices>>

CashOutPublished(b) ==
  /\ cashing[b].step = "publishing"
  /\ cashing' = [cashing EXCEPT ![b] = Idle]
  /\ events' = events \cup
       {BetEvent("bet.cashed-out", b, cashing[b].round, bets[b].winnings)}
  /\ UNCHANGED <<process, game, nonce, timers, loops, saving, losing, placing,
                 notices>>

\* Rethrown as HTTP 400 although the bet is cashed out and saved.
CashOutPublishFails(b) ==
  /\ PublishMayFail
  /\ cashing[b].step = "publishing"
  /\ cashing' = [cashing EXCEPT ![b] = Idle]
  /\ UNCHANGED <<process, game, nonce, timers, loops, saving, losing, placing,
                 events, notices>>

-----------------------------------------------------------------------------
(* The process dies: objects, timers and suspended handlers are gone. *)

Crash ==
  /\ ProcessMayCrash
  /\ process # "down"
  /\ process' = "down"
  /\ timers' = << >>
  /\ loops' = [r \in RoundId |-> 0]
  /\ saving' = {}
  /\ losing' = [r \in RoundId |-> NoLossLoop]
  /\ placing' = [b \in Bet |-> Idle]
  /\ cashing' = [b \in Bet |-> Idle]
  /\ UNCHANGED <<game, nonce, events, notices>>

-----------------------------------------------------------------------------

TimerStep ==
  \/ PauseTimer
  \/ \E c \in CrashMultiplier : StartRound(c)
  \/ LateBettingTimer

LoopStep(r) == Tick(r) \/ TickThrows(r)

SaveStep(r) ==
  \/ InitSaved(r) \/ InitSaveFails(r)
  \/ RunningSaved(r) \/ RunningSaveFails(r)
  \/ CrashedSaved(r) \/ CrashedSaveFails(r)

LossStep(r) == LossPublished(r) \/ LossPublishFails(r)

PlaceStep(b) ==
  \/ PlaceSaved(b) \/ PlaceSaveFails(b)
  \/ PlacePublished(b) \/ PlacePublishFails(b)

CashOutStep(b) ==
  \/ CashOutSaved(b) \/ CashOutSaveFails(b)
  \/ CashOutPublished(b) \/ CashOutPublishFails(b)

PlayerStep(b) == PlaceBet(b) \/ (\E m \in One .. MaxCrash : CashOut(b, m))

Next ==
  \/ Boot
  \/ CreateRound
  \/ TimerStep
  \/ \E r \in RoundId : LoopStep(r) \/ SaveStep(r) \/ LossStep(r)
  \/ \E b \in Bet : PlayerStep(b) \/ PlaceStep(b) \/ CashOutStep(b)
  \/ Crash

Spec == Init /\ [][Next]_vars

\* Timers fire and intervals tick; the database and the broker answer every
\* call, with a result or an error.  Clients need not do anything, and nobody
\* has to start a process that died.
Fairness ==
  /\ WF_vars(TimerStep)
  /\ \A r \in RoundId :
       /\ WF_vars(LoopStep(r))
       /\ WF_vars(InitSaved(r) \/ InitSaveFails(r))
       /\ WF_vars(RunningSaved(r) \/ RunningSaveFails(r))
       /\ WF_vars(CrashedSaved(r) \/ CrashedSaveFails(r))
       /\ WF_vars(LossStep(r))
  /\ \A b \in Bet : WF_vars(PlaceStep(b)) /\ WF_vars(CashOutStep(b))

FairSpec == Spec /\ Fairness
=============================================================================
