----------------------------- MODULE GameClient -----------------------------
(***************************************************************************)
(* One player's page (frontend/src) against the Games service: the Socket.io *)
(* events, the HTTP requests, the game store and the bet hook.             *)
(*                                                                         *)
(* The service is reduced to what a client can tell: one current round that *)
(* moves by the operators of RoundAggregate and announces each change after *)
(* a save (RoundLifecycle has the rest of it).  A connection delivers its  *)
(* events in order; an HTTP answer is overtaken by any number of them.  The *)
(* page runs on one thread: an action is one event or answer with the React *)
(* effects it causes.                                                      *)
(*                                                                         *)
(* Definitions with an underscore in their name are mistakes, see          *)
(* RoundAggregate.                                                         *)
(***************************************************************************)
EXTENDS RoundAggregate, Sequences

CONSTANTS
  NoBet,           \* the null of a bet id
  MaxRounds,       \* bound: rounds in one behaviour
  MaxConnections,  \* bound: connections; only the last one cannot be lost
  MaxNet,          \* bound: events under way; the service waits for room
  MayFail          \* requests, saves and publishes may fail

ASSUME ClientAssumption ==
  /\ NoBet \notin Bet
  /\ {MaxRounds, MaxConnections, MaxNet} \subseteq Nat \ {0}
  /\ MayFail \in BOOLEAN

VARIABLES
  current, round,  \* the service: number and record of the current round
  announcing,      \* its last change is being saved and not announced yet
  bets,            \* the Bet objects of this player
  link,            \* "up", "broken" (the page does not know yet) or "down"
  net,             \* events under way to the page
  fetch,           \* fetch[c]: the GET /games/current made on connection c
  ref,             \* currentRoundIdRef
  store,           \* the game store
  localState,      \* localState of useDisconnectedGame
  position,        \* the reducer of useBetState
  call,            \* the POST the bet hook waits for
  informed,        \* history: the store shows no older round than the socket has told
  untold           \* history: bets cashed out whose request ended without saying so

vars == <<current, round, announcing, bets, link, net, fetch, ref, store,
          localState, position, call, informed, untold>>
service == <<current, round, announcing>>
page == <<ref, store, localState, position>>

RoundId == 1 .. MaxRounds
BetId == Bet \cup {NoBet}
Shown == {"betting", "running", "crashed"}   \* RoundState of the page
Outcome == {"absent", "pending", "cashed"}   \* of a row of the live bets

\* data.state.toLowerCase()
Lower == [BETTING |-> "betting", RUNNING |-> "running", CRASHED |-> "crashed"]

Event == [type : {"state-changed", "multiplier-updated", "bet-placed",
                  "bet-cashed-out", "crashed"},
          round : RoundId, state : Shown, multiplier : Nat, bet : BetId]
EventOf(type, b) ==
  [type |-> type, round |-> current', state |-> Lower[round'.state],
   multiplier |-> round'.multiplier, bet |-> b]

\* `behind`: events under way when the answer was made; `fresh`: none sent
\* later has been handled or lost
Fetch == [step : {"asked", "answered", "over"}, round : 0 .. MaxRounds,
          state : Shown, multiplier : Nat, behind : Nat, fresh : BOOLEAN]
Asked == [step |-> "asked", round |-> 0, state |-> "betting", multiplier |-> 0,
          behind |-> 0, fresh |-> TRUE]
Over == [Asked EXCEPT !.step = "over"]

Position == [state : {"none", "pending", "cashed_out", "lost"}, betId : BetId,
             multiplier : Nat]
NoPosition == [state |-> "none", betId |-> NoBet, multiplier |-> 0]

Call == [kind : {"none", "place", "cashOut"},
         step : {"sent", "saving", "ok", "refused"}, bet : BetId, multiplier : Nat]
NoCall == [kind |-> "none", step |-> "sent", bet |-> NoBet, multiplier |-> 0]

TypeOK ==
  /\ current \in RoundId /\ round \in RoundRecord /\ announcing \in BOOLEAN
  /\ bets \in [Bet -> BetRecord]
  /\ link \in {"up", "broken", "down"}
  /\ net \in Seq(Event) /\ Len(net) <= MaxNet
  /\ fetch \in Seq(Fetch) /\ Len(fetch) <= MaxConnections
  /\ ref \in 0 .. MaxRounds
  /\ store \in [state : Shown \cup {"null"}, multiplier : Nat, myBetId : BetId,
                bets : [Bet -> Outcome],
                history : Seq([round : RoundId, type : {"none", "cashed", "crashed"}])]
  /\ localState \in Shown
  /\ position \in Position
  /\ call \in Call
  /\ informed \in BOOLEAN
  /\ untold \subseteq Bet

Init ==
  /\ current = 1 /\ round = RoundCreate /\ announcing = FALSE
  /\ bets = [b \in Bet |-> AbsentBet]
  /\ link = "down" /\ net = << >> /\ fetch = << >>
  /\ ref = 0
  /\ store = [state |-> "null", multiplier |-> 0, myBetId |-> NoBet,
              bets |-> [b \in Bet |-> "absent"], history |-> << >>]
  /\ localState = "betting"
  /\ position = NoPosition
  /\ call = NoCall
  /\ informed = FALSE
  /\ untold = {}

-----------------------------------------------------------------------------
(* The service *)

Stale(f) == IF f.step = "answered" THEN [f EXCEPT !.fresh = FALSE] ELSE f

\* An event reaches the clients that are connected, and nobody else.
Emit(e) ==
  IF link = "up"
    THEN Len(net) < MaxNet /\ net' = Append(net, e) /\ UNCHANGED fetch
    ELSE /\ fetch' = [c \in DOMAIN fetch |-> Stale(fetch[c])]
         /\ UNCHANGED net

\* The pause after a crash is over.
NewRound ==
  /\ round.state = "CRASHED" /\ ~ announcing
  /\ current < MaxRounds
  /\ current' = current + 1
  /\ round' = RoundCreate
  /\ announcing' = TRUE
  /\ UNCHANGED <<bets, link, net, fetch, page, call, informed, untold>>

\* The betting phase is over.
StartRound(crashPoint) ==
  /\ ~ announcing
  /\ RoundCanSetCrashPoint(round)
  /\ round' = RoundStart(RoundSetCrashPoint(round, crashPoint, current))
  /\ bets' = RoundSetBetCrashPoints(bets, current, crashPoint)
  /\ announcing' = TRUE
  /\ UNCHANGED <<current, link, net, fetch, page, call, informed, untold>>

Tick ==
  LET m == round.multiplier + 1 IN
    /\ ~ announcing
    /\ RoundCanUpdateMultiplier(round, m)
    /\ round' = RoundUpdateMultiplier(round, m)
    /\ bets' = RoundUpdateBets(round, bets, current, m)
    /\ announcing' = (round'.state = "CRASHED")
    /\ UNCHANGED current
    /\ Emit(EventOf("multiplier-updated", NoBet))
    /\ UNCHANGED <<link, page, call, informed, untold>>

\* The save is done.
Announce ==
  /\ announcing
  /\ announcing' = FALSE
  /\ UNCHANGED <<current, round>>
  /\ Emit(EventOf(IF round.state = "CRASHED" THEN "crashed" ELSE "state-changed", NoBet))
  /\ UNCHANGED <<bets, link, page, call, informed, untold>>

-----------------------------------------------------------------------------
(* What the page shows, and the effects of useBet *)

Connected == link # "down"

\* GamePage: the store's state while connected, else the local one; useBet
\* takes null for betting.
ShownState ==
  IF ~ Connected THEN localState
  ELSE IF store.state = "null" THEN "betting" ELSE store.state

IsLoadingRound == Connected /\ store.state = "null"

AfterEffects_neverLoses(p, before, now) ==
  IF now = "betting" /\ before # "betting" THEN NoPosition ELSE p

\* RESET when the shown state becomes betting, LOSE while it is crashed.
AfterEffects(p, before, now) ==
  IF now = "betting" /\ before # "betting" THEN NoPosition
  ELSE IF now = "crashed" /\ p.state = "pending" THEN [p EXCEPT !.state = "lost"]
  ELSE p

\* The step leaves the hook in p, and then the effects run.
Settle(p) == position' = AfterEffects(p, ShownState, ShownState')

-----------------------------------------------------------------------------
(* The connection *)

Connect ==
  /\ link = "down"
  /\ Len(fetch) < MaxConnections
  /\ link' = "up"
  /\ fetch' = Append(fetch, Asked)
  /\ UNCHANGED <<ref, store, localState>>
  /\ Settle(position)
  /\ UNCHANGED <<service, bets, net, call, informed, untold>>

\* Events under way are lost, and so are those that follow.
LinkBreaks ==
  /\ link = "up"
  /\ Len(fetch) < MaxConnections
  /\ link' = "broken"
  /\ net' = << >>
  /\ fetch' = [c \in DOMAIN fetch |->
                 [(IF Len(net) > fetch[c].behind THEN Stale(fetch[c]) ELSE fetch[c])
                    EXCEPT !.behind = 0]]
  /\ informed' = FALSE
  /\ UNCHANGED <<service, bets, page, call, untold>>

\* socket.on('disconnect')
Disconnect ==
  /\ link = "broken"
  /\ link' = "down"
  /\ UNCHANGED <<ref, store, localState>>
  /\ Settle(position)
  /\ UNCHANGED <<service, bets, net, fetch, call, informed, untold>>

FetchAnswered(c) ==
  /\ c \in DOMAIN fetch /\ fetch[c].step = "asked"
  /\ fetch' = [fetch EXCEPT ![c] =
                 [step |-> "answered", round |-> current, state |-> Lower[round.state],
                  multiplier |-> round.multiplier, behind |-> Len(net), fresh |-> TRUE]]
  /\ UNCHANGED <<service, bets, link, net, page, call, informed, untold>>

FetchFailed(c) ==
  /\ MayFail
  /\ c \in DOMAIN fetch /\ fetch[c].step \in {"asked", "answered"}
  /\ fetch' = [fetch EXCEPT ![c] = Over]
  /\ UNCHANGED <<service, bets, link, net, page, call, informed, untold>>

\* The answer goes into the store whatever has happened since.
FetchDelivered(c) ==
  /\ c \in DOMAIN fetch /\ fetch[c].step = "answered"
  /\ ref' = fetch[c].round
  /\ store' = [store EXCEPT !.state = fetch[c].state, !.multiplier = fetch[c].multiplier]
  /\ informed' = (fetch[c].fresh /\ link = "up")
  /\ fetch' = [fetch EXCEPT ![c] = Over]
  /\ UNCHANGED <<link, localState>>
  /\ Settle(position)
  /\ UNCHANGED <<service, bets, net, call, untold>>

-----------------------------------------------------------------------------
(* The socket's events *)

\* The next event leaves the connection; an answer it was sent after is overtaken.
Receive(type) ==
  /\ net # << >> /\ Head(net).type = type
  /\ net' = Tail(net)
  /\ fetch' = [c \in DOMAIN fetch |->
                 IF fetch[c].behind = 0 THEN Stale(fetch[c])
                                        ELSE [fetch[c] EXCEPT !.behind = @ - 1]]
  /\ UNCHANGED <<service, bets, link, localState, call, untold>>

StateChanged_keepsMultiplier ==
  LET e == Head(net) IN
    /\ Receive("state-changed")
    /\ ref' = e.round
    /\ store' = [store EXCEPT !.state = e.state]
    /\ informed' = (informed \/ e.state = "betting")
    /\ Settle(position)
StateChanged_keepsRef ==
  LET e == Head(net) IN
    /\ Receive("state-changed")
    /\ store' = IF e.state = "betting"
                  THEN [store EXCEPT !.state = "betting", !.multiplier = 0,
                                     !.myBetId = NoBet, !.bets = [b \in Bet |-> "absent"]]
                  ELSE [store EXCEPT !.state = e.state]
    /\ informed' = (informed \/ e.state = "betting")
    /\ UNCHANGED ref
    /\ Settle(position)

\* startBetting and setBets([]), or setRoundState
StateChanged ==
  LET e == Head(net) IN
    /\ Receive("state-changed")
    /\ ref' = e.round
    /\ store' = IF e.state = "betting"
                  THEN [store EXCEPT !.state = "betting", !.multiplier = 0,
                                     !.myBetId = NoBet, !.bets = [b \in Bet |-> "absent"]]
                  ELSE [store EXCEPT !.state = e.state]
    /\ informed' = (informed \/ e.state = "betting")
    /\ Settle(position)

\* data.roundId !== currentRoundIdRef.current
ForAnotherRound == Head(net).round # ref

MultiplierUpdated ==
  /\ Receive("multiplier-updated")
  /\ store' = IF ForAnotherRound THEN store
              ELSE [store EXCEPT !.multiplier = Head(net).multiplier]
  /\ UNCHANGED <<ref, position, informed>>

BetPlaced ==
  /\ Receive("bet-placed")
  /\ store' = IF ForAnotherRound THEN store
              ELSE [store EXCEPT !.bets[Head(net).bet] = "pending"]
  /\ UNCHANGED <<ref, position, informed>>

\* updateBet: only a row that is there
BetCashedOut ==
  /\ Receive("bet-cashed-out")
  /\ store' = IF ForAnotherRound \/ store.bets[Head(net).bet] = "absent" THEN store
              ELSE [store EXCEPT !.bets[Head(net).bet] = "cashed"]
  /\ UNCHANGED <<ref, position, informed>>

\* What the history of crashes says of the player's bet in the round.
HistoryType ==
  IF store.myBetId = NoBet \/ store.bets[store.myBetId] = "absent" THEN "none"
  ELSE IF store.bets[store.myBetId] = "cashed" THEN "cashed" ELSE "crashed"

\* setCrashed
Crashed ==
  LET e == Head(net) IN
    /\ Receive("crashed")
    /\ store' = IF ForAnotherRound THEN store
                ELSE [store EXCEPT
                        !.state = "crashed", !.multiplier = e.multiplier,
                        !.history = <<[round |-> ref, type |-> HistoryType]>> \o @]
    /\ Settle(position)
    /\ UNCHANGED <<ref, informed>>

-----------------------------------------------------------------------------
(* The buttons *)

Loading == call.kind # "none"

\* buttonDisabled and handleClick of useRightPanel, actionLoading of useBet; the
\* balance is enough.
CanPlace ==
  /\ ~ IsLoadingRound /\ ~ Loading
  /\ ShownState = "betting" /\ position.state = "none"

CanCashOut ==
  /\ ~ IsLoadingRound /\ ~ Loading
  /\ ShownState = "running" /\ position.state = "pending"

ClickPlace ==
  /\ CanPlace
  /\ \E b \in Bet : bets[b].state = "ABSENT"
  /\ call' = [NoCall EXCEPT !.kind = "place"]
  /\ UNCHANGED <<service, bets, link, net, fetch, page, informed, untold>>

AskedMultiplier == IF store.multiplier > 0 THEN store.multiplier ELSE One

ClickCashOut ==
  /\ CanCashOut
  /\ call' = [kind |-> "cashOut", step |-> "sent", bet |-> position.betId,
              multiplier |-> AskedMultiplier]
  /\ UNCHANGED <<service, bets, link, net, fetch, page, informed, untold>>

NextState == [betting |-> "running", running |-> "crashed", crashed |-> "betting"]

\* The button "DEV: cycle state", there for everybody who is disconnected.
CycleState ==
  /\ ~ Connected
  /\ localState' = NextState[ShownState]
  /\ UNCHANGED <<ref, store, link>>
  /\ Settle(position)
  /\ UNCHANGED <<service, bets, net, fetch, call, informed, untold>>

-----------------------------------------------------------------------------
(* The POST in the service *)

Answer(result) == call' = [call EXCEPT !.step = result]

ServePlace(b) ==
  /\ call.kind = "place" /\ call.step = "sent"
  /\ RoundCanPlaceBet(round, bets, b)
  /\ bets' = RoundPlaceBet(bets, current, b)
  /\ call' = [call EXCEPT !.step = "saving", !.bet = b]
  /\ UNCHANGED <<service, link, net, fetch, page, informed, untold>>

RefusePlace ==
  /\ call.kind = "place" /\ call.step = "sent"
  /\ \A b \in Bet : ~ RoundCanPlaceBet(round, bets, b)
  /\ Answer("refused")
  /\ UNCHANGED <<service, bets, link, net, fetch, page, informed, untold>>

\* emitBetPlaced; whether the event for the wallets is published or not
PlaceSaved ==
  /\ call.kind = "place" /\ call.step = "saving"
  /\ UNCHANGED service
  /\ Emit(EventOf("bet-placed", call.bet))
  /\ Answer("ok")
  /\ UNCHANGED <<bets, link, page, informed, untold>>

ServeCashOut ==
  /\ call.kind = "cashOut" /\ call.step = "sent"
  /\ RoundCanCashOut(round, bets, current, call.bet, call.multiplier)
  /\ bets' = RoundCashOut(bets, call.bet, call.multiplier)
  /\ Answer("saving")
  /\ UNCHANGED <<service, link, net, fetch, page, informed, untold>>

RefuseCashOut ==
  /\ call.kind = "cashOut" /\ call.step = "sent"
  /\ ~ RoundCanCashOut(round, bets, current, call.bet, call.multiplier)
  /\ Answer("refused")
  /\ UNCHANGED <<service, bets, link, net, fetch, page, informed, untold>>

\* emitBetCashedOut if the bet is in the round that is current now; then the
\* publish, which fails the request.
CashOutSaved ==
  /\ call.kind = "cashOut" /\ call.step = "saving"
  /\ UNCHANGED service
  /\ IF call.bet \in BetsOf(bets, current)
       THEN /\ Emit(EventOf("bet-cashed-out", call.bet))
            /\ \/ Answer("ok")
               \/ MayFail /\ Answer("refused")
       ELSE Answer("ok") /\ UNCHANGED <<net, fetch>>
  /\ UNCHANGED <<bets, link, page, informed, untold>>

\* The save rejects: an error, although the bet is in the round or cashed out.
SaveFails ==
  /\ MayFail
  /\ Loading /\ call.step = "saving"
  /\ Answer("refused")
  /\ UNCHANGED <<service, bets, link, net, fetch, page, informed, untold>>

-----------------------------------------------------------------------------
(* The POST's answer in useBetActions *)

PlaceAccepted ==
  /\ call.kind = "place" /\ call.step = "ok"
  /\ store' = [store EXCEPT !.myBetId = call.bet]
  /\ UNCHANGED <<ref, localState, link>>
  /\ Settle([state |-> "pending", betId |-> call.bet, multiplier |-> 0])
  /\ call' = NoCall
  /\ UNCHANGED <<service, bets, net, fetch, informed, untold>>

CashOutAccepted_ifPending ==
  /\ call.kind = "cashOut" /\ call.step = "ok"
  /\ position' = IF position.state # "pending" THEN position
                 ELSE [position EXCEPT !.state = "cashed_out",
                                 !.multiplier = bets[call.bet].cashOutMultiplier]
  /\ call' = NoCall
  /\ UNCHANGED <<service, bets, link, net, fetch, ref, store, localState, informed, untold>>

\* CASH_OUT, whatever the hook's state has become
CashOutAccepted ==
  /\ call.kind = "cashOut" /\ call.step = "ok"
  /\ position' = [position EXCEPT !.state = "cashed_out",
                                  !.multiplier = bets[call.bet].cashOutMultiplier]
  /\ call' = NoCall
  /\ UNCHANGED <<service, bets, link, net, fetch, ref, store, localState, informed, untold>>

\* An error answer, or a request or an answer that got lost: a message at most,
\* and the position stays what it is.
CallFails ==
  /\ Loading
  /\ call.step = "refused" \/ (MayFail /\ call.step \in {"sent", "ok"})
  /\ untold' = untold \cup {b \in Bet : b = call.bet /\ bets[b].state = "CASHED_OUT"}
  /\ call' = NoCall
  /\ UNCHANGED <<service, bets, link, net, fetch, page, informed>>

-----------------------------------------------------------------------------

Service == NewRound \/ (\E c \in CrashMultiplier : StartRound(c)) \/ Tick \/ Announce

Connection == Connect \/ LinkBreaks \/ Disconnect

Fetching(c) == FetchAnswered(c) \/ FetchFailed(c) \/ FetchDelivered(c)

Handle ==
  StateChanged \/ MultiplierUpdated \/ BetPlaced \/ BetCashedOut \/ Crashed

Click == ClickPlace \/ ClickCashOut \/ CycleState

Serve ==
  \/ (\E b \in Bet : ServePlace(b)) \/ RefusePlace \/ PlaceSaved
  \/ ServeCashOut \/ RefuseCashOut \/ CashOutSaved
  \/ SaveFails

Return == PlaceAccepted \/ CashOutAccepted \/ CallFails

Next ==
  \/ Service
  \/ Connection
  \/ \E c \in 1 .. MaxConnections : Fetching(c)
  \/ Handle
  \/ Click
  \/ Serve
  \/ Return

Spec == Init /\ [][Next]_vars
=============================================================================
