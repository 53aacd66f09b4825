--------------------------- MODULE GameClient_proof ---------------------------
(***************************************************************************)
(* Proofs about GameClient: any number of bets, rounds, connections and    *)
(* events under way, with or without failing requests.                     *)
(***************************************************************************)
EXTENDS GameClientProps, RoundAggregate_proof

USE AmountAssumption, MultiplierAssumption, ClientAssumption

\* The bounds are positive numbers.
LEMMA Bounds ==
  MaxRounds \in Nat \ {0} /\ MaxConnections \in Nat \ {0} /\ MaxNet \in Nat \ {0}
OBVIOUS

-----------------------------------------------------------------------------
(* What a step leaves alone *)

\* Only the service's own steps and a served request change rounds and bets.
LEMMA ServiceFrame ==
  ASSUME [Next]_vars
  PROVE  \/ NewRound \/ (\E c \in CrashMultiplier : StartRound(c)) \/ Tick \/ Announce
         \/ (\E b \in Bet : ServePlace(b)) \/ ServeCashOut
         \/ UNCHANGED <<current, round, announcing, bets>>
<1>1. CASE Connection
  BY <1>1 DEF Connection, Connect, LinkBreaks, Disconnect, service
<1>2. CASE \E c \in 1 .. MaxConnections : Fetching(c)
  BY <1>2 DEF Fetching, FetchAnswered, FetchFailed, FetchDelivered, service
<1>3. CASE Handle
  BY <1>3
  DEF Handle, StateChanged, MultiplierUpdated, BetPlaced, BetCashedOut, Crashed, Receive, service
<1>4. CASE Click
  BY <1>4 DEF Click, ClickPlace, ClickCashOut, CycleState, service
<1>5. CASE Serve
  BY <1>5 DEF Serve, RefusePlace, PlaceSaved, RefuseCashOut, CashOutSaved, SaveFails, service
<1>6. CASE Return
  BY <1>6 DEF Return, PlaceAccepted, CashOutAccepted, CallFails, service
<1>7. CASE UNCHANGED vars
  BY <1>7 DEF vars
<1> QED BY <1>1, <1>2, <1>3, <1>4, <1>5, <1>6, <1>7 DEF Next, Service

\* The events that are sent to the page, and what they say.
Sent(e) ==
  \/ Tick /\ e = EventOf("multiplier-updated", NoBet)
  \/ Announce /\ e = EventOf(IF round.state = "CRASHED" THEN "crashed" ELSE "state-changed", NoBet)
  \/ PlaceSaved /\ e = EventOf("bet-placed", call.bet)
  \/ CashOutSaved /\ call.bet \in BetsOf(bets, current) /\ e = EventOf("bet-cashed-out", call.bet)

\* Connection, requests and events: what happens on the wire.
LEMMA WireFrame ==
  ASSUME [Next]_vars
  PROVE  \/ \E e : Sent(e) /\ Emit(e) /\ UNCHANGED <<link, page, informed>>
         \/ Connect \/ LinkBreaks \/ Disconnect
         \/ (\E c \in 1 .. MaxConnections : Fetching(c))
         \/ Handle
         \/ UNCHANGED <<link, net, fetch>>
<1>1. CASE Service
  <2>1. CASE Tick
    BY <2>1 DEF Sent, Tick
  <2>2. CASE Announce
    BY <2>2 DEF Sent, Announce
  <2> QED BY <1>1, <2>1, <2>2 DEF Service, NewRound, StartRound
<1>2. CASE Click
  BY <1>2 DEF Click, ClickPlace, ClickCashOut, CycleState
<1>3. CASE Serve
  <2>1. CASE PlaceSaved
    BY <2>1 DEF Sent, PlaceSaved
  <2>2. CASE CashOutSaved
    BY <2>2 DEF Sent, CashOutSaved
  <2> QED
    BY <1>3, <2>1, <2>2
    DEF Serve, ServePlace, RefusePlace, ServeCashOut, RefuseCashOut, SaveFails
<1>4. CASE Return
  BY <1>4 DEF Return, PlaceAccepted, CashOutAccepted, CallFails
<1>5. CASE UNCHANGED vars
  BY <1>5 DEF vars
<1> QED BY <1>1, <1>2, <1>3, <1>4, <1>5 DEF Next, Connection

\* The page moves with its connection, its requests, its events and its buttons.
LEMMA PageFrame ==
  ASSUME [Next]_vars
  PROVE  \/ Connect \/ LinkBreaks \/ Disconnect
         \/ (\E c \in 1 .. MaxConnections : FetchDelivered(c))
         \/ Handle \/ CycleState \/ PlaceAccepted \/ CashOutAccepted
         \/ UNCHANGED <<link, ref, store, localState, position, informed>>
<1>1. CASE Service
  BY <1>1 DEF Service, NewRound, StartRound, Tick, Announce, page
<1>2. CASE \E c \in 1 .. MaxConnections : Fetching(c)
  BY <1>2 DEF Fetching, FetchAnswered, FetchFailed, page
<1>3. CASE Click
  BY <1>3 DEF Click, ClickPlace, ClickCashOut, page
<1>4. CASE Serve
  BY <1>4
  DEF Serve, ServePlace, RefusePlace, PlaceSaved, ServeCashOut, RefuseCashOut, CashOutSaved,
      SaveFails, page
<1>5. CASE Return
  BY <1>5 DEF Return, CallFails, page
<1>6. CASE UNCHANGED vars
  BY <1>6 DEF vars
<1> QED BY <1>1, <1>2, <1>3, <1>4, <1>5, <1>6 DEF Next, Connection

\* The request of the bet hook is made, served and returned.
LEMMA CallFrame ==
  ASSUME [Next]_vars
  PROVE  \/ ClickPlace \/ ClickCashOut \/ Serve \/ Return
         \/ UNCHANGED <<call, untold>>
<1>1. CASE Service
  BY <1>1 DEF Service, NewRound, StartRound, Tick, Announce
<1>2. CASE Connection
  BY <1>2 DEF Connection, Connect, LinkBreaks, Disconnect
<1>3. CASE \E c \in 1 .. MaxConnections : Fetching(c)
  BY <1>3 DEF Fetching, FetchAnswered, FetchFailed, FetchDelivered
<1>4. CASE Handle
  BY <1>4
  DEF Handle, StateChanged, MultiplierUpdated, BetPlaced, BetCashedOut, Crashed, Receive
<1>5. CASE Click
  BY <1>5 DEF Click, CycleState
<1>6. CASE UNCHANGED vars
  BY <1>6 DEF vars
<1> QED BY <1>1, <1>2, <1>3, <1>4, <1>5, <1>6 DEF Next

-----------------------------------------------------------------------------
(* Type correctness                                                        *)

ServiceTypes ==
  /\ current \in RoundId /\ round \in RoundRecord /\ announcing \in BOOLEAN
  /\ bets \in [Bet -> BetRecord]
  /\ round.state # "NONE" /\ round.multiplier >= One

\* An event or an answer names a multiplier that a round has had; nothing is under
\* way on a connection that is not up, and no answer waits for more events than are.
WireTypes ==
  /\ link \in {"up", "broken", "down"}
  /\ net \in Seq(Event) /\ Len(net) <= MaxNet
  /\ fetch \in Seq(Fetch) /\ Len(fetch) <= MaxConnections
  /\ \A i \in DOMAIN net : net[i].multiplier >= One
  /\ \A c \in DOMAIN fetch :
       /\ fetch[c].step = "answered" => fetch[c].multiplier >= One
       /\ fetch[c].behind <= Len(net)
  /\ link # "up" => net = << >>

Store == [state : Shown \cup {"null"}, multiplier : Nat, myBetId : BetId,
          bets : [Bet -> Outcome],
          history : Seq([round : RoundId, type : {"none", "cashed", "crashed"}])]

\* A position that is open or lost has a bet; one that is cashed out may have
\* been reset before the answer came.
PageTypes ==
  /\ ref \in 0 .. MaxRounds
  /\ store \in Store
  /\ localState \in Shown
  /\ position \in Position
  /\ informed \in BOOLEAN
  /\ store.multiplier = 0 \/ store.multiplier >= One
  /\ position.state \in {"pending", "lost"} => position.betId \in Bet

CallTypes ==
  /\ call \in Call
  /\ untold \subseteq Bet
  /\ call.kind = "cashOut" => call.bet \in Bet
  /\ call.kind = "place" /\ call.step \in {"saving", "ok"} => call.bet \in Bet

TypeInv == ServiceTypes /\ WireTypes /\ PageTypes /\ CallTypes

\* The typing invariant says more than TypeOK.
LEMMA TypeInvTypes == TypeInv => TypeOK
BY DEF TypeInv, ServiceTypes, WireTypes, PageTypes, CallTypes, TypeOK, Store

\* The initial state is well typed.
LEMMA TypeInvInit == Init => TypeInv
<1> SUFFICES ASSUME Init PROVE TypeInv
  OBVIOUS
<1>1. ServiceTypes
  <2>1. RoundCreate.state = "BETTING" /\ RoundCreate.multiplier = One
    BY DEF RoundCreate, NoRound
  <2>2. 1 \in RoundId
    BY DEF RoundId
  <2>3. announcing \in BOOLEAN
    BY Zenon DEF Init
  <2>4. current = 1 /\ round = RoundCreate /\ bets = [b \in Bet |-> AbsentBet]
    BY DEF Init
  <2> QED BY <2>1, <2>2, <2>3, <2>4, FreshRecords DEF ServiceTypes
<1>2. WireTypes
  BY DEF Init, WireTypes
<1>3. PageTypes
  <2>1. store \in Store
    <3>1. [b \in Bet |-> "absent"] \in [Bet -> Outcome]
      BY DEF Outcome
    <3> QED BY <3>1 DEF Init, Store, BetId
  <2>2. position \in Position /\ position.state = "none"
    BY DEF Init, Position, NoPosition, BetId
  <2>3. ref = 0 /\ localState = "betting" /\ store.multiplier = 0
    BY DEF Init
  <2>4. informed \in BOOLEAN
    BY Zenon DEF Init
  <2> QED BY <2>1, <2>2, <2>3, <2>4 DEF PageTypes, Shown
<1>4. CallTypes
  BY DEF Init, CallTypes, Call, NoCall, BetId
<1> QED BY <1>1, <1>2, <1>3, <1>4 DEF TypeInv

\* Rounds and bets stay well typed, and the multiplier at least 1.0.
LEMMA ServiceTypesStep == TypeInv /\ [Next]_vars => ServiceTypes'
<1> SUFFICES ASSUME TypeInv, [Next]_vars PROVE ServiceTypes'
  OBVIOUS
<1>t. ServiceTypes /\ call \in Call /\ (call.kind = "cashOut" => call.bet \in Bet)
  BY DEF TypeInv, CallTypes
<1>n. current \in Nat /\ round.multiplier \in Nat /\ One \in Nat /\ call.multiplier \in Nat
  BY <1>t DEF ServiceTypes, RoundId, RoundRecord, Call
<1>1. CASE NewRound
  BY <1>1, <1>t, <1>n, FreshRecords DEF NewRound, ServiceTypes, RoundId, RoundCreate, NoRound
<1>2. ASSUME NEW c \in CrashMultiplier, StartRound(c) PROVE ServiceTypes'
  <2>1. RoundStart(RoundSetCrashPoint(round, c, current)) \in RoundRecord
    BY <1>t, <1>n, RoundTypes DEF ServiceTypes
  <2>2. RoundSetBetCrashPoints(bets, current, c) \in [Bet -> BetRecord]
    BY <1>t, <1>n, BetsTypes DEF ServiceTypes
  <2>3. round'.state = "RUNNING" /\ round'.multiplier = One
    BY <1>2, <1>t DEF StartRound, RoundStart, RoundSetCrashPoint, ServiceTypes, RoundRecord
  <2> QED BY <1>2, <1>t, <2>1, <2>2, <2>3 DEF StartRound, ServiceTypes
<1>3. CASE Tick
  <2> DEFINE m == round.multiplier + 1
  <2>1. RoundUpdateMultiplier(round, m) \in RoundRecord
    BY <1>t, <1>n, RoundTypes DEF ServiceTypes
  <2>2. RoundUpdateBets(round, bets, current, m) \in [Bet -> BetRecord]
    BY <1>t, <1>n, BetsTypes DEF ServiceTypes, RoundUpdateBets
  <2>3. round'.state \in {"RUNNING", "CRASHED"} /\ round'.multiplier = m
    BY <1>3, <1>t
    DEF Tick, RoundCanUpdateMultiplier, RoundUpdateMultiplier, RoundCrash, ServiceTypes,
        RoundRecord
  <2> QED BY <1>3, <1>t, <1>n, <2>1, <2>2, <2>3 DEF Tick, ServiceTypes
<1>4. CASE Announce
  BY <1>4, <1>t DEF Announce, ServiceTypes
<1>5. ASSUME NEW b \in Bet, ServePlace(b) PROVE ServiceTypes'
  <2>1. RoundPlaceBet(bets, current, b) \in [Bet -> BetRecord]
    BY <1>t, <1>n, BetsTypes DEF ServiceTypes
  <2> QED BY <1>5, <1>t, <2>1 DEF ServePlace, ServiceTypes, service
<1>6. CASE ServeCashOut
  <2>1. call.bet \in Bet /\ call.multiplier >= One
    BY <1>6, <1>t DEF ServeCashOut, RoundCanCashOut, BetCanCashOut
  <2>2. RoundCashOut(bets, call.bet, call.multiplier) \in [Bet -> BetRecord]
    BY <1>t, <1>n, <2>1, BetsTypes DEF ServiceTypes
  <2> QED BY <1>6, <1>t, <2>2 DEF ServeCashOut, ServiceTypes, service
<1>7. CASE UNCHANGED <<current, round, announcing, bets>>
  BY <1>7, <1>t DEF ServiceTypes
<1> QED BY <1>1, <1>2, <1>3, <1>4, <1>5, <1>6, <1>7, ServiceFrame

\* A request, its step and its bet stay well typed.
LEMMA CallTypesStep == TypeInv /\ [Next]_vars => CallTypes'
<1> SUFFICES ASSUME TypeInv, [Next]_vars PROVE CallTypes'
  OBVIOUS
<1>t. CallTypes /\ store.multiplier \in Nat /\ position \in Position
      /\ (position.state = "pending" => position.betId \in Bet)
  BY DEF TypeInv, PageTypes, Store
<1>1. CASE ClickPlace
  BY <1>1, <1>t DEF ClickPlace, CallTypes, NoCall, Call, BetId
<1>2. CASE ClickCashOut
  BY <1>2, <1>t DEF ClickCashOut, CanCashOut, CallTypes, Call, AskedMultiplier, BetId
<1>3. ASSUME NEW result \in {"saving", "ok", "refused"}, Answer(result), UNCHANGED untold,
             call.kind = "place" /\ result # "refused" => call.step = "saving"
      PROVE  CallTypes'
  BY <1>3, <1>t DEF Answer, CallTypes, Call
<1>4. CASE Serve
  <2>1. ASSUME NEW b \in Bet, ServePlace(b) PROVE CallTypes'
    BY <1>t, <2>1 DEF ServePlace, CallTypes, Call, BetId
  <2>2. CASE RefusePlace \/ RefuseCashOut \/ SaveFails
    BY <1>3, <2>2 DEF RefusePlace, RefuseCashOut, SaveFails
  <2>3. CASE PlaceSaved
    BY <1>3, <2>3 DEF PlaceSaved
  <2>4. CASE ServeCashOut
    BY <1>3, <2>4 DEF ServeCashOut
  <2>5. CASE CashOutSaved
    <3>1. Answer("ok") \/ Answer("refused")
      BY <2>5 DEF CashOutSaved
    <3> QED BY <1>3, <2>5, <3>1 DEF CashOutSaved
  <2> QED BY <1>4, <2>1, <2>2, <2>3, <2>4, <2>5 DEF Serve
<1>5. CASE Return
  <2>1. call' = NoCall /\ untold' \subseteq Bet
    BY <1>5, <1>t DEF Return, PlaceAccepted, CashOutAccepted, CallFails, CallTypes
  <2> QED BY <2>1 DEF CallTypes, NoCall, Call, BetId
<1>6. CASE UNCHANGED <<call, untold>>
  BY <1>6, <1>t DEF CallTypes
<1> QED BY <1>1, <1>2, <1>4, <1>5, <1>6, CallFrame

\* An event says what is true of the round when it is sent.
LEMMA SentFacts ==
  ASSUME TypeInv, ServiceTypes', NEW e, Sent(e)
  PROVE  /\ e \in Event /\ e.multiplier >= One
         /\ e.round = current' /\ e.state = Lower[round'.state]
         /\ e.multiplier = round'.multiplier
<1>1. /\ current' \in RoundId /\ Lower[round'.state] \in Shown
      /\ round'.multiplier \in Nat /\ round'.multiplier >= One
  BY DEF ServiceTypes, RoundRecord, Lower, Shown
<1>2. call.bet \in BetId /\ NoBet \in BetId
  BY DEF TypeInv, CallTypes, Call, BetId
<1>3. \A type \in {"state-changed", "multiplier-updated", "bet-placed", "bet-cashed-out",
                   "crashed"}, b \in BetId :
        /\ EventOf(type, b) \in Event /\ EventOf(type, b).multiplier >= One
        /\ EventOf(type, b).round = current' /\ EventOf(type, b).state = Lower[round'.state]
        /\ EventOf(type, b).multiplier = round'.multiplier
  BY <1>1 DEF EventOf, Event
<1> QED BY <1>2, <1>3 DEF Sent

\* A sequence that is changed element by element keeps its length.
LEMMA ChangedElements ==
  ASSUME NEW S, NEW T, NEW s \in Seq(S), NEW t \in [DOMAIN s -> T]
  PROVE  t \in Seq(T) /\ Len(t) = Len(s) /\ DOMAIN t = DOMAIN s
<1>1. Len(s) \in Nat /\ DOMAIN s = 1 .. Len(s)
  OBVIOUS
<1>2. t \in [1 .. Len(s) -> T]
  BY <1>1
<1> QED BY <1>1, <1>2

\* A request is made and ends well typed.
LEMMA RequestRecords ==
  /\ Asked \in Fetch /\ Asked.step = "asked" /\ Asked.behind = 0
  /\ Over \in Fetch /\ Over.step = "over" /\ Over.behind = 0
<1>1. 0 \in 0 .. MaxRounds /\ TRUE \in BOOLEAN
  BY Bounds
<1>2. Asked \in Fetch /\ Asked.step = "asked" /\ Asked.behind = 0
  BY <1>1 DEF Asked, Fetch, Shown
<1> QED BY <1>2 DEF Over, Fetch

\* An answer that gets stale is the same answer.
LEMMA StaleFacts ==
  ASSUME NEW f \in Fetch
  PROVE  /\ Stale(f) \in Fetch /\ Stale(f).step = f.step
         /\ Stale(f).round = f.round /\ Stale(f).state = f.state
         /\ Stale(f).multiplier = f.multiplier /\ Stale(f).behind = f.behind
         /\ f.step = "answered" => Stale(f).fresh = FALSE
         /\ f.step # "answered" => Stale(f) = f
BY DEF Stale, Fetch

\* The first event leaves the others in their order.
LEMMA TailFacts ==
  ASSUME NEW S, NEW s \in Seq(S), s # << >>
  PROVE  /\ Tail(s) \in Seq(S) /\ Len(Tail(s)) = Len(s) - 1 /\ Len(s) >= 1
         /\ Head(s) \in S /\ Head(s) = s[1] /\ 1 \in DOMAIN s
         /\ \A i \in DOMAIN Tail(s) : i + 1 \in DOMAIN s /\ Tail(s)[i] = s[i + 1]
OBVIOUS

\* An event that is sent waits behind the others, or is lost.
LEMMA EmitTypes ==
  ASSUME WireTypes, NEW e \in Event, e.multiplier >= One, Emit(e), link' = link
  PROVE  WireTypes'
<1>1. CASE link = "up"
  <2>1. Len(net) < MaxNet /\ net' = Append(net, e) /\ fetch' = fetch
    BY <1>1 DEF Emit
  <2>2. net' \in Seq(Event) /\ Len(net') = Len(net) + 1 /\ Len(net) \in Nat
    BY <2>1 DEF WireTypes
  <2>3. \A i \in DOMAIN net' : net'[i].multiplier >= One
    BY <2>1, <2>2 DEF WireTypes
  <2>4. \A c \in DOMAIN fetch : fetch[c] \in Fetch
    BY DEF WireTypes
  <2>5. \A c \in DOMAIN fetch : fetch[c].behind \in Nat
    BY <2>4 DEF Fetch
  <2> QED BY <1>1, <2>1, <2>2, <2>3, <2>5, Bounds DEF WireTypes
<1>2. CASE link # "up"
  <2>1. net' = net /\ fetch' = [c \in DOMAIN fetch |-> Stale(fetch[c])]
    BY <1>2 DEF Emit
  <2>2. \A c \in DOMAIN fetch : fetch[c] \in Fetch
    BY DEF WireTypes
  <2>3. fetch' \in [DOMAIN fetch -> Fetch]
    BY <2>1, <2>2, StaleFacts
  <2>4. fetch' \in Seq(Fetch) /\ Len(fetch') = Len(fetch) /\ DOMAIN fetch' = DOMAIN fetch
    BY <2>3, ChangedElements DEF WireTypes
  <2>5. \A c \in DOMAIN fetch' : /\ fetch'[c].step = "answered" => fetch'[c].multiplier >= One
                                 /\ fetch'[c].behind <= Len(net')
    BY <2>1, <2>2, <2>4, StaleFacts DEF WireTypes
  <2> QED BY <2>1, <2>4, <2>5 DEF WireTypes
<1> QED BY <1>1, <1>2

\* The first event arrives, and every answer has one less before it.
LEMMA ReceiveTypes ==
  ASSUME WireTypes, NEW type, Receive(type)
  PROVE  WireTypes'
<1>1. /\ net # << >> /\ net' = Tail(net) /\ link' = link
      /\ fetch' = [c \in DOMAIN fetch |->
                     IF fetch[c].behind = 0 THEN Stale(fetch[c])
                                            ELSE [fetch[c] EXCEPT !.behind = @ - 1]]
  BY DEF Receive
<1>2. /\ net' \in Seq(Event) /\ Len(net') = Len(net) - 1 /\ Len(net) \in Nat /\ Len(net) >= 1
      /\ \A i \in DOMAIN net' : net'[i].multiplier >= One
  BY <1>1, TailFacts DEF WireTypes
<1>3. \A c \in DOMAIN fetch : fetch[c] \in Fetch
  BY DEF WireTypes
<1>4. ASSUME NEW c \in DOMAIN fetch
      PROVE  /\ fetch'[c] \in Fetch /\ fetch'[c].behind <= Len(net')
             /\ fetch'[c].step = "answered" => fetch'[c].multiplier >= One
  <2>1. CASE fetch[c].behind = 0
    <3>1. fetch'[c] = Stale(fetch[c])
      BY <1>1, <2>1
    <3>2. /\ Stale(fetch[c]) \in Fetch /\ Stale(fetch[c]).behind = 0
          /\ Stale(fetch[c]).step = fetch[c].step
          /\ Stale(fetch[c]).multiplier = fetch[c].multiplier
      BY <1>3, <2>1, StaleFacts
    <3>3. fetch[c].step = "answered" => fetch[c].multiplier >= One
      BY DEF WireTypes
    <3> QED BY <1>2, <3>1, <3>2, <3>3
  <2>2. CASE fetch[c].behind # 0
    <3>1. fetch'[c] = [fetch[c] EXCEPT !.behind = fetch[c].behind - 1]
      BY <1>1, <2>2
    <3>2. fetch[c] \in Fetch /\ fetch[c].behind \in Nat \ {0}
      BY <1>3, <2>2 DEF Fetch
    <3>3. /\ fetch[c].behind <= Len(net)
          /\ fetch[c].step = "answered" => fetch[c].multiplier >= One
      BY DEF WireTypes
    <3>4. fetch'[c] \in Fetch /\ fetch'[c].behind = fetch[c].behind - 1
          /\ fetch'[c].step = fetch[c].step /\ fetch'[c].multiplier = fetch[c].multiplier
      BY <3>1, <3>2 DEF Fetch
    <3> QED BY <1>2, <3>2, <3>3, <3>4
  <2> QED BY <2>1, <2>2
<1>5. fetch' \in [DOMAIN fetch -> Fetch]
  BY <1>1, <1>4
<1>6. fetch' \in Seq(Fetch) /\ Len(fetch') = Len(fetch) /\ DOMAIN fetch' = DOMAIN fetch
  BY <1>5, ChangedElements DEF WireTypes
<1>7. link = "up" /\ link' = link
  BY <1>1 DEF WireTypes
<1>8. Len(net') <= MaxNet /\ Len(fetch') <= MaxConnections
  BY <1>2, <1>6, Bounds DEF WireTypes
<1> QED BY <1>2, <1>4, <1>6, <1>7, <1>8 DEF WireTypes

\* Connecting asks, losing the connection empties it.
LEMMA ConnectionTypes ==
  ASSUME TypeInv, Connect \/ LinkBreaks \/ Disconnect
  PROVE  WireTypes'
<1>t. WireTypes /\ \A c \in DOMAIN fetch : fetch[c] \in Fetch
  BY DEF TypeInv, WireTypes
<1>1. CASE Connect
  <2>1. link' = "up" /\ net' = net /\ fetch' = Append(fetch, Asked) /\ Len(fetch) < MaxConnections
    BY <1>1 DEF Connect
  <2>2. fetch' \in Seq(Fetch) /\ Len(fetch') <= MaxConnections
    BY <1>t, <2>1, RequestRecords, Bounds DEF WireTypes
  <2>3. \A c \in DOMAIN fetch' : fetch'[c] = Asked \/ (c \in DOMAIN fetch /\ fetch'[c] = fetch[c])
    BY <1>t, <2>1 DEF WireTypes
  <2>4. Len(net) \in Nat
    BY <1>t DEF WireTypes
  <2> QED BY <1>t, <2>1, <2>2, <2>3, <2>4, RequestRecords DEF WireTypes
<1>2. CASE LinkBreaks
  <2>1. link' = "broken" /\ net' = << >>
    BY <1>2 DEF LinkBreaks
  <2>2. ASSUME NEW c \in DOMAIN fetch
        PROVE  /\ fetch'[c] \in Fetch /\ fetch'[c].behind = 0
               /\ fetch'[c].step = "answered" => fetch'[c].multiplier >= One
    <3> DEFINE f == IF Len(net) > fetch[c].behind THEN Stale(fetch[c]) ELSE fetch[c]
    <3>1. fetch'[c] = [f EXCEPT !.behind = 0]
      BY <1>2 DEF LinkBreaks
    <3>2. f \in Fetch /\ f.step = fetch[c].step /\ f.multiplier = fetch[c].multiplier
      BY <1>t, StaleFacts
    <3> HIDE DEF f
    <3>3. /\ fetch'[c] \in Fetch /\ fetch'[c].behind = 0
          /\ fetch'[c].step = f.step /\ fetch'[c].multiplier = f.multiplier
      BY <3>1, <3>2 DEF Fetch
    <3>4. fetch[c].step = "answered" => fetch[c].multiplier >= One
      BY <1>t DEF WireTypes
    <3> QED BY <3>2, <3>3, <3>4
  <2>3. fetch' = [c \in DOMAIN fetch |-> fetch'[c]]
    BY <1>2 DEF LinkBreaks
  <2>4. fetch' \in [DOMAIN fetch -> Fetch]
    BY <2>2, <2>3
  <2>5. fetch' \in Seq(Fetch) /\ Len(fetch') = Len(fetch) /\ DOMAIN fetch' = DOMAIN fetch
    BY <1>t, <2>4, ChangedElements DEF WireTypes
  <2>6. net' \in Seq(Event) /\ Len(net') = 0 /\ DOMAIN net' = {}
    BY <2>1
  <2> QED BY <1>t, <2>1, <2>2, <2>5, <2>6 DEF WireTypes
<1>3. CASE Disconnect
  BY <1>t, <1>3 DEF Disconnect, WireTypes
<1> QED BY <1>1, <1>2, <1>3

\* The request for the current round is answered, fails or is delivered.
LEMMA FetchingTypes ==
  ASSUME TypeInv, NEW c \in 1 .. MaxConnections, Fetching(c)
  PROVE  WireTypes'
<1>t. /\ WireTypes /\ c \in DOMAIN fetch /\ UNCHANGED <<link, net>>
      /\ \A d \in DOMAIN fetch : fetch[d] \in Fetch
  BY DEF TypeInv, WireTypes, Fetching, FetchAnswered, FetchFailed, FetchDelivered
<1>1. \E f \in Fetch : /\ fetch' = [fetch EXCEPT ![c] = f]
                       /\ f.step = "answered" => f.multiplier >= One
                       /\ f.behind <= Len(net)
  <2>1. CASE FetchAnswered(c)
    <3> DEFINE f == [step |-> "answered", round |-> current, state |-> Lower[round.state],
                     multiplier |-> round.multiplier, behind |-> Len(net), fresh |-> TRUE]
    <3>1. /\ current \in 0 .. MaxRounds /\ Lower[round.state] \in Shown
          /\ round.multiplier \in Nat /\ round.multiplier >= One /\ Len(net) \in Nat
      BY <1>t DEF TypeInv, ServiceTypes, WireTypes, RoundId, RoundRecord, Lower, Shown
    <3>2. f \in Fetch
      BY <3>1 DEF Fetch
    <3>3. fetch' = [fetch EXCEPT ![c] = f] /\ f.multiplier >= One /\ f.behind <= Len(net)
      BY <2>1, <3>1 DEF FetchAnswered
    <3> QED BY <3>2, <3>3
  <2>2. CASE FetchFailed(c) \/ FetchDelivered(c)
    <3>1. Len(net) \in Nat
      BY <1>t DEF WireTypes
    <3> QED BY <2>2, <3>1, RequestRecords DEF FetchFailed, FetchDelivered
  <2> QED BY <2>1, <2>2 DEF Fetching
<1>2. PICK f \in Fetch : /\ fetch' = [fetch EXCEPT ![c] = f]
                         /\ f.step = "answered" => f.multiplier >= One
                         /\ f.behind <= Len(net)
  BY <1>1
<1>3. fetch' \in [DOMAIN fetch -> Fetch]
  BY <1>t, <1>2
<1>4. fetch' \in Seq(Fetch) /\ Len(fetch') = Len(fetch) /\ DOMAIN fetch' = DOMAIN fetch
  BY <1>t, <1>3, ChangedElements DEF WireTypes
<1> QED BY <1>t, <1>2, <1>4 DEF WireTypes

\* What is on the wire stays well typed.
LEMMA WireTypesStep == TypeInv /\ [Next]_vars => WireTypes'
<1> SUFFICES ASSUME TypeInv, [Next]_vars PROVE WireTypes'
  OBVIOUS
<1>t. WireTypes
  BY DEF TypeInv
<1>1. ASSUME NEW e, Sent(e), Emit(e), link' = link PROVE WireTypes'
  BY <1>t, <1>1, ServiceTypesStep, SentFacts, EmitTypes
<1>2. CASE Handle
  BY <1>t, <1>2, ReceiveTypes
  DEF Handle, StateChanged, MultiplierUpdated, BetPlaced, BetCashedOut, Crashed
<1>3. CASE UNCHANGED <<link, net, fetch>>
  BY <1>t, <1>3 DEF WireTypes
<1> QED BY <1>1, <1>2, <1>3, WireFrame, ConnectionTypes, FetchingTypes

\* The hook's state after its effects: kept, reset, or lost when it was open.
LEMMA SettleFacts ==
  ASSUME NEW p \in Position, p.state \in {"pending", "lost"} => p.betId \in Bet, Settle(p)
  PROVE  /\ position' \in Position
         /\ position'.state \in {"pending", "lost"} => position'.betId \in Bet
         /\ position'.betId \in {p.betId, NoBet}
         /\ position'.state = "pending" => p.state = "pending"
         /\ position'.state = "cashed_out" => position' = p
         /\ p.state = "cashed_out" => position' = p \/ position'.betId = NoBet
         /\ ShownState' = "crashed" => position'.state # "pending"
<1> DEFINE lost == [p EXCEPT !.state = "lost"]
<1>1. /\ NoPosition \in Position /\ NoPosition.state = "none" /\ NoPosition.betId = NoBet
      /\ lost \in Position /\ lost.state = "lost" /\ lost.betId = p.betId
  BY DEF NoPosition, Position, BetId
<1>2. \/ position' = NoPosition /\ ShownState' = "betting"
      \/ position' = lost /\ p.state = "pending"
      \/ position' = p /\ (ShownState' = "crashed" => p.state # "pending")
  BY DEF Settle, AfterEffects
<1> HIDE DEF lost
<1> QED BY <1>1, <1>2

\* The page shows one of three states.
LEMMA ShownStateType == PageTypes => ShownState \in Shown
BY DEF PageTypes, Store, ShownState, Shown

\* The first event that arrives.
LEMMA HeadFacts ==
  ASSUME WireTypes, NEW type, Receive(type)
  PROVE  /\ net # << >> /\ Head(net) \in Event /\ Head(net) = net[1] /\ 1 \in DOMAIN net
         /\ Head(net).type = type /\ Head(net).multiplier >= One
         /\ UNCHANGED <<current, round, announcing, bets, link, localState, call, untold>>
<1>1. net # << >> /\ Head(net).type = type /\ net \in Seq(Event)
      /\ UNCHANGED <<current, round, announcing, bets, link, localState, call, untold>>
  BY DEF Receive, WireTypes, service
<1>2. Head(net) \in Event /\ Head(net) = net[1] /\ 1 \in DOMAIN net
  BY <1>1, TailFacts
<1> QED BY <1>1, <1>2 DEF WireTypes

\* What an event leaves in the store is well typed.
LEMMA HandleTypes == TypeInv /\ Handle => PageTypes'
<1> SUFFICES ASSUME TypeInv, Handle PROVE PageTypes'
  OBVIOUS
<1>t. WireTypes /\ PageTypes
  BY DEF TypeInv
<1>p. /\ position \in Position /\ store \in Store
      /\ position.state \in {"pending", "lost"} => position.betId \in Bet
  BY <1>t DEF PageTypes
<1>e. \A e \in Event : /\ e.round \in RoundId /\ e.round \in 0 .. MaxRounds /\ e.state \in Shown
                       /\ e.multiplier \in Nat
  BY Bounds DEF Event, RoundId
<1>1. ASSUME StateChanged PROVE PageTypes'
  <2> DEFINE e == Head(net)
             begun == [store EXCEPT !.state = "betting", !.multiplier = 0,
                                    !.myBetId = NoBet, !.bets = [b \in Bet |-> "absent"]]
             moved == [store EXCEPT !.state = e.state]
  <2>1. e \in Event /\ localState' = localState
    BY <1>t, <1>1, HeadFacts DEF StateChanged
  <2>2. begun \in Store /\ begun.multiplier = 0
    BY <1>p DEF Store, Shown, BetId, Outcome
  <2>3. moved \in Store /\ moved.multiplier = store.multiplier
    BY <1>p, <1>e, <2>1 DEF Store
  <2>4. ref' = e.round /\ (store' = begun \/ store' = moved) /\ Settle(position)
    BY <1>1 DEF StateChanged
  <2>5. informed' \in BOOLEAN
    BY <1>1, Zenon DEF StateChanged
  <2> HIDE DEF begun, moved, e
  <2>6. store' \in Store /\ (store'.multiplier = 0 \/ store'.multiplier >= One)
    BY <1>t, <2>2, <2>3, <2>4 DEF PageTypes
  <2>7. ref' \in 0 .. MaxRounds
    BY <1>e, <2>1, <2>4
  <2> QED BY <1>t, <1>p, <2>1, <2>4, <2>5, <2>6, <2>7, SettleFacts DEF PageTypes
<1>2. ASSUME MultiplierUpdated PROVE PageTypes'
  <2>1. Head(net) \in Event /\ Head(net).multiplier >= One /\ localState' = localState
    BY <1>t, <1>2, HeadFacts DEF MultiplierUpdated
  <2>2. store' = store \/ store' = [store EXCEPT !.multiplier = Head(net).multiplier]
    BY <1>2 DEF MultiplierUpdated
  <2>3. store' \in Store /\ (store'.multiplier = 0 \/ store'.multiplier >= One)
    BY <1>t, <1>p, <1>e, <2>1, <2>2 DEF PageTypes, Store
  <2> QED BY <1>t, <1>2, <2>1, <2>3 DEF MultiplierUpdated, PageTypes
<1>3. ASSUME BetPlaced \/ BetCashedOut PROVE PageTypes'
  <2>1. localState' = localState /\ UNCHANGED <<ref, position, informed>>
    BY <1>t, <1>3, HeadFacts DEF BetPlaced, BetCashedOut
  <2>2. \/ store' = store
        \/ \E outcome \in Outcome : store' = [store EXCEPT !.bets[Head(net).bet] = outcome]
    BY <1>3 DEF BetPlaced, BetCashedOut, Outcome
  <2>3. ASSUME NEW outcome \in Outcome,
               store' = [store EXCEPT !.bets[Head(net).bet] = outcome]
        PROVE  store' \in Store /\ store'.multiplier = store.multiplier
    <3> DEFINE rows == [store.bets EXCEPT ![Head(net).bet] = outcome]
    <3>1. rows \in [Bet -> Outcome]
      BY <1>p DEF Store
    <3>2. store' = [store EXCEPT !.bets = rows]
      BY <2>3
    <3> HIDE DEF rows
    <3> QED BY <1>p, <3>1, <3>2 DEF Store
  <2> QED BY <1>t, <1>p, <2>1, <2>2, <2>3 DEF PageTypes
<1>4. ASSUME Crashed PROVE PageTypes'
  <2> DEFINE e == Head(net)
             crash == [round |-> ref, type |-> HistoryType]
             ended == [store EXCEPT !.state = "crashed", !.multiplier = e.multiplier,
                                    !.history = <<crash>> \o @]
  <2>1. e \in Event /\ e.multiplier >= One /\ localState' = localState
    BY <1>t, <1>4, HeadFacts DEF Crashed
  <2>2. /\ UNCHANGED <<ref, informed>> /\ Settle(position)
        /\ store' = store \/ (ref = e.round /\ store' = ended)
    BY <1>4 DEF Crashed, ForAnotherRound
  <2>3. ASSUME ref = e.round PROVE ended \in Store /\ ended.multiplier = e.multiplier
    <3>1. crash \in [round : RoundId, type : {"none", "cashed", "crashed"}]
      BY <1>e, <2>1, <2>3 DEF HistoryType
    <3>2. store.history \in Seq([round : RoundId, type : {"none", "cashed", "crashed"}])
      BY <1>p DEF Store
    <3> HIDE DEF crash, e
    <3>3. <<crash>> \o store.history \in Seq([round : RoundId, type : {"none", "cashed", "crashed"}])
      BY <3>1, <3>2
    <3> QED BY <1>p, <1>e, <2>1, <3>3 DEF Store, Shown
  <2> HIDE DEF ended
  <2>4. store' \in Store /\ (store'.multiplier = 0 \/ store'.multiplier >= One)
    BY <1>t, <2>1, <2>2, <2>3 DEF PageTypes
  <2> QED BY <1>t, <1>p, <2>1, <2>2, <2>4, SettleFacts DEF PageTypes
<1> QED BY <1>1, <1>2, <1>3, <1>4 DEF Handle

\* What the page shows stays well typed.
LEMMA PageTypesStep == TypeInv /\ [Next]_vars => PageTypes'
<1> SUFFICES ASSUME TypeInv, [Next]_vars PROVE PageTypes'
  OBVIOUS
<1>t. ServiceTypes /\ WireTypes /\ PageTypes /\ CallTypes
  BY DEF TypeInv
<1>p. /\ position \in Position /\ store \in Store
      /\ position.state \in {"pending", "lost"} => position.betId \in Bet
  BY <1>t DEF PageTypes
<1>1. CASE Connect \/ Disconnect
  BY <1>t, <1>p, <1>1, SettleFacts DEF Connect, Disconnect, PageTypes
<1>2. CASE LinkBreaks
  <2>1. informed' \in BOOLEAN
    BY <1>2, Zenon DEF LinkBreaks
  <2> QED BY <1>t, <1>2, <2>1 DEF LinkBreaks, PageTypes, page
<1>3. ASSUME NEW c \in 1 .. MaxConnections, FetchDelivered(c) PROVE PageTypes'
  <2>1. fetch[c] \in Fetch /\ fetch[c].multiplier >= One
    BY <1>t, <1>3 DEF FetchDelivered, WireTypes
  <2>2. store' = [store EXCEPT !.state = fetch[c].state, !.multiplier = fetch[c].multiplier]
    BY <1>3 DEF FetchDelivered
  <2>3. store' \in Store /\ store'.multiplier >= One /\ fetch[c].round \in 0 .. MaxRounds
    BY <1>p, <2>1, <2>2 DEF Store, Fetch
  <2>4. informed' \in BOOLEAN
    BY <1>3, Zenon DEF FetchDelivered
  <2> QED BY <1>t, <1>p, <1>3, <2>3, <2>4, SettleFacts DEF FetchDelivered, PageTypes
<1>4. CASE CycleState
  <2>1. NextState[ShownState] \in Shown
    BY <1>t, ShownStateType DEF Shown, NextState
  <2> QED BY <1>t, <1>p, <1>4, <2>1, SettleFacts DEF CycleState, PageTypes
<1>5. CASE PlaceAccepted
  <2> DEFINE p == [state |-> "pending", betId |-> call.bet, multiplier |-> 0]
  <2>1. p \in Position /\ call.bet \in Bet
    BY <1>t, <1>5 DEF PlaceAccepted, CallTypes, Position, BetId
  <2>2. Settle(p) /\ store' = [store EXCEPT !.myBetId = call.bet]
        /\ UNCHANGED <<ref, localState, informed>>
    BY <1>5 DEF PlaceAccepted
  <2>3. store' \in Store /\ store'.multiplier = store.multiplier
    BY <1>p, <2>1, <2>2 DEF Store, BetId
  <2>4. p.state \in {"pending", "lost"} => p.betId \in Bet
    BY <2>1
  <2> HIDE DEF p
  <2> QED BY <1>t, <2>1, <2>2, <2>3, <2>4, SettleFacts DEF PageTypes
<1>6. CASE CashOutAccepted
  <2>1. call.bet \in Bet /\ bets[call.bet].cashOutMultiplier \in Nat
    BY <1>t, <1>6 DEF CashOutAccepted, CallTypes, ServiceTypes, BetRecord
  <2>2. position' = [position EXCEPT !.state = "cashed_out",
                                     !.multiplier = bets[call.bet].cashOutMultiplier]
    BY <1>6 DEF CashOutAccepted
  <2>3. position' \in Position /\ position'.state = "cashed_out"
    BY <1>p, <2>1, <2>2 DEF Position
  <2> QED BY <1>t, <1>6, <2>3 DEF CashOutAccepted, PageTypes
<1>7. CASE UNCHANGED <<link, ref, store, localState, position, informed>>
  BY <1>t, <1>7 DEF PageTypes
<1> QED BY <1>1, <1>2, <1>3, <1>4, <1>5, <1>6, <1>7, HandleTypes, PageFrame

\* Every step keeps the typing invariant.
LEMMA TypeInvStep == TypeInv /\ [Next]_vars => TypeInv'
BY ServiceTypesStep, WireTypesStep, PageTypesStep, CallTypesStep DEF TypeInv

\* Every variable of page, wire and service keeps its type.
THEOREM ClientTypeCorrect == Spec => []TypeOK
<1>1. Spec => []TypeInv
  BY TypeInvInit, TypeInvStep, PTL DEF Spec
<1> QED BY <1>1, TypeInvTypes, PTL

-----------------------------------------------------------------------------
(* The service: bets settle with their round                               *)

\* What a step may do to a bet: appear, be cashed out by the request that is
\* served, lose when its round crashes, and nothing once it is settled.
LEMMA BetMoves ==
  ASSUME TypeInv, [Next]_vars, NEW b \in Bet
  PROVE  /\ bets[b].state \in {"CASHED_OUT", "LOST"} => bets'[b] = bets[b]
         /\ bets[b].state # "ABSENT" =>
              bets'[b].state # "ABSENT" /\ bets'[b].round = bets[b].round
         /\ bets[b].state = "ABSENT" /\ bets'[b].state # "ABSENT" =>
              bets'[b].state = "PENDING" /\ bets'[b].round = current /\ round.state = "BETTING"
         /\ bets[b].state # "CASHED_OUT" /\ bets'[b].state = "CASHED_OUT" =>
              ServeCashOut /\ b = call.bet /\ bets[b].round = current /\ round.state = "RUNNING"
         /\ bets[b].state # "LOST" /\ bets'[b].state = "LOST" =>
              Tick /\ bets[b].round = current /\ round'.state = "CRASHED"
<1>t. /\ bets \in [Bet -> BetRecord] /\ bets[b] \in BetRecord
      /\ call.kind = "cashOut" => call.bet \in Bet
  BY DEF TypeInv, ServiceTypes, CallTypes
<1>p. \A r : b \in PendingIn(bets, r) => bets[b].state = "PENDING" /\ bets[b].round = r
  BY DEF PendingIn, BetsOf
<1>1. ASSUME NEW c \in CrashMultiplier, StartRound(c)
      PROVE  bets'[b].state = bets[b].state /\ bets'[b].round = bets[b].round
             /\ (bets[b].state # "PENDING" => bets'[b] = bets[b])
  BY <1>t, <1>p, <1>1 DEF StartRound, RoundSetBetCrashPoints, BetSetCrashPoint, BetRecord
<1>2. ASSUME Tick
      PROVE  \/ bets'[b] = bets[b]
             \/ /\ bets[b].state = "PENDING" /\ bets[b].round = current
                /\ bets'[b].state = "LOST" /\ bets'[b].round = bets[b].round
                /\ round'.state = "CRASHED"
  <2> DEFINE m == round.multiplier + 1
  <2>1. /\ bets' = RoundUpdateBets(round, bets, current, m)
        /\ round' = RoundUpdateMultiplier(round, m)
    BY <1>2 DEF Tick
  <2>2. CASE HasCrashed(round.crashPoint, m)
    <3>1. round'.state = "CRASHED"
      BY <2>1, <2>2 DEF RoundUpdateMultiplier, RoundCrash, TypeInv, ServiceTypes, RoundRecord
    <3>2. bets'[b] = IF b \in PendingIn(bets, current) THEN BetLose(bets[b]) ELSE bets[b]
      BY <2>1, <2>2 DEF RoundUpdateBets, RoundCrashBets
    <3>3. BetLose(bets[b]).state = "LOST" /\ BetLose(bets[b]).round = bets[b].round
      BY <1>t DEF BetLose, BetRecord
    <3> QED BY <1>p, <3>1, <3>2, <3>3
  <2>3. CASE ~ HasCrashed(round.crashPoint, m)
    BY <2>1, <2>3 DEF RoundUpdateBets
  <2> QED BY <2>2, <2>3
<1>3. ASSUME NEW a \in Bet, ServePlace(a)
      PROVE  \/ bets'[b] = bets[b]
             \/ /\ bets[b].state = "ABSENT" /\ bets'[b].state = "PENDING"
                /\ bets'[b].round = current /\ round.state = "BETTING"
  BY <1>t, <1>3 DEF ServePlace, RoundCanPlaceBet, RoundPlaceBet, BetCreate, AbsentBet
<1>4. ASSUME ServeCashOut
      PROVE  \/ bets'[b] = bets[b]
             \/ /\ b = call.bet /\ bets[b].state = "PENDING" /\ bets[b].round = current
                /\ bets'[b].state = "CASHED_OUT" /\ bets'[b].round = bets[b].round
                /\ round.state = "RUNNING"
  BY <1>t, <1>4
  DEF ServeCashOut, RoundCanCashOut, BetCanCashOut, RoundCashOut, BetCashOut, BetsOf, BetRecord
<1>5. CASE NewRound \/ Announce
  BY <1>5 DEF NewRound, Announce
<1> QED BY <1>1, <1>2, <1>3, <1>4, <1>5, ServiceFrame

\* A round opens, and is announced as running, at 1.0; nobody wins before it
\* runs or loses before it crashes.
RoundInv ==
  /\ round.state = "BETTING" \/ (round.state = "RUNNING" /\ announcing) => round.multiplier = One
  /\ \A b \in Bet : bets[b].state # "ABSENT" =>
       /\ bets[b].round <= current
       /\ bets[b].round = current /\ bets[b].state = "CASHED_OUT" => round.state # "BETTING"
       /\ bets[b].round = current /\ bets[b].state = "LOST" => round.state = "CRASHED"

\* Rounds and what they announce move forward: the next round, the next state,
\* a greater multiplier.
LEMMA RoundMoves ==
  ASSUME TypeInv, RoundInv, [Next]_vars
  PROVE  \/ UNCHANGED <<current, round>>
         \/ current' = current + 1 /\ round' = RoundCreate /\ round.state = "CRASHED"
         \/ /\ current' = current /\ round.state = "BETTING" /\ round.multiplier = One
            /\ round'.state = "RUNNING" /\ round'.multiplier = One
         \/ /\ current' = current /\ round.state = "RUNNING"
            /\ round'.state \in {"RUNNING", "CRASHED"} /\ round'.multiplier = round.multiplier + 1
<1>t. round \in RoundRecord
  BY DEF TypeInv, ServiceTypes
<1>1. CASE NewRound
  BY <1>1 DEF NewRound
<1>2. ASSUME NEW c \in CrashMultiplier, StartRound(c)
      PROVE  /\ current' = current /\ round.state = "BETTING" /\ round.multiplier = One
             /\ round'.state = "RUNNING" /\ round'.multiplier = One
  BY <1>2, <1>t
  DEF StartRound, RoundCanSetCrashPoint, RoundStart, RoundSetCrashPoint, RoundRecord, RoundInv
<1>3. CASE Tick
  BY <1>3, <1>t
  DEF Tick, RoundCanUpdateMultiplier, RoundUpdateMultiplier, RoundCrash, RoundRecord
<1>4. CASE Announce \/ ServeCashOut \/ \E b \in Bet : ServePlace(b)
  BY <1>4 DEF Announce, ServeCashOut, ServePlace, service
<1> QED BY <1>1, <1>2, <1>3, <1>4, ServiceFrame

\* The initial round has just opened and has no bets.
LEMMA RoundInvInit == Init => RoundInv
BY DEF Init, RoundInv, RoundCreate, NoRound, AbsentBet

\* Every step keeps bets in step with their round.
LEMMA RoundInvStep == TypeInv /\ RoundInv /\ [Next]_vars => RoundInv'
<1> SUFFICES ASSUME TypeInv, RoundInv, [Next]_vars PROVE RoundInv'
  OBVIOUS
<1>t. current \in Nat /\ bets \in [Bet -> BetRecord] /\ \A b \in Bet : bets[b].round \in Nat
  BY DEF TypeInv, ServiceTypes, RoundId, BetRecord
<1>1. round'.state = "BETTING" \/ (round'.state = "RUNNING" /\ announcing') => round'.multiplier = One
  <2>1. CASE NewRound
    BY <2>1 DEF NewRound, RoundCreate, NoRound
  <2>2. CASE \E c \in CrashMultiplier : StartRound(c)
    <3>1. announcing' /\ round'.state # "BETTING"
      BY <2>2, RoundMoves, FreshRecords DEF StartRound, RoundStart, RoundSetCrashPoint, TypeInv,
         ServiceTypes, RoundRecord
    <3> QED BY <2>2 DEF StartRound, RoundStart, RoundSetCrashPoint, TypeInv, ServiceTypes,
         RoundRecord
  <2>3. CASE Tick
    <3>1. round'.state \in {"RUNNING", "CRASHED"} /\ (announcing' => round'.state = "CRASHED")
      BY <2>3
      DEF Tick, RoundCanUpdateMultiplier, RoundUpdateMultiplier, RoundCrash, TypeInv,
          ServiceTypes, RoundRecord
    <3> QED BY <3>1
  <2>4. CASE Announce
    BY <2>4 DEF Announce, RoundInv
  <2>5. CASE ServeCashOut \/ \E b \in Bet : ServePlace(b)
    BY <2>5 DEF ServeCashOut, ServePlace, service, RoundInv
  <2>6. CASE UNCHANGED <<current, round, announcing, bets>>
    BY <2>6 DEF RoundInv
  <2> QED BY <2>1, <2>2, <2>3, <2>4, <2>5, <2>6, ServiceFrame
<1>2. ASSUME NEW b \in Bet, bets'[b].state # "ABSENT"
      PROVE  /\ bets'[b].round <= current'
             /\ bets'[b].round = current' /\ bets'[b].state = "CASHED_OUT" => round'.state # "BETTING"
             /\ bets'[b].round = current' /\ bets'[b].state = "LOST" => round'.state = "CRASHED"
  <2>1. current' \in {current, current + 1}
        /\ (current' = current /\ round'.state = "BETTING" => round.state = "BETTING")
        /\ (current' = current /\ round.state = "CRASHED" => round'.state = "CRASHED")
    <3>1. CASE UNCHANGED <<current, round>>
      BY <3>1
    <3>2. CASE current' = current + 1
      BY <1>t, <3>2
    <3>3. CASE /\ current' = current /\ round.state \in {"BETTING", "RUNNING"}
               /\ round'.state \in {"RUNNING", "CRASHED"}
      BY <3>3
    <3> QED BY <3>1, <3>2, <3>3, RoundMoves
  <2>2. bets'[b].round <= current /\ bets'[b].round \in Nat
    BY <1>t, <1>2, BetMoves DEF RoundInv
  <2>3. CASE current' = current
    <3>1. bets'[b].state = "CASHED_OUT" /\ bets'[b].round = current' => round'.state # "BETTING"
      BY <2>1, <2>3, <1>2, BetMoves DEF RoundInv
    <3>2. bets'[b].state = "LOST" /\ bets'[b].round = current' => round'.state = "CRASHED"
      BY <2>1, <2>3, <1>2, BetMoves DEF RoundInv
    <3> QED BY <2>2, <2>3, <3>1, <3>2
  <2>4. CASE current' = current + 1
    BY <1>t, <2>2, <2>4
  <2> QED BY <2>1, <2>3, <2>4
<1> QED BY <1>1, <1>2 DEF RoundInv

-----------------------------------------------------------------------------
(* The bet hook: its request and its position                              *)

\* A bet that is cashed out is shown so, is about to be, or its request ended
\* without saying so.
PayoutsAreTold ==
  \A b \in Bet : bets[b].state = "CASHED_OUT" =>
    \/ b \in untold
    \/ call.kind = "cashOut" /\ call.bet = b
    \/ position.betId = b => position.state = "cashed_out"

\* A request is about the bet of the position, unless that was reset since; one
\* that was served has done what it asked for.
RequestsAreServed ==
  /\ call.kind = "cashOut" =>
       /\ position.betId \in {call.bet, NoBet}
       /\ call.step \in {"saving", "ok"} => bets[call.bet].state = "CASHED_OUT"
  /\ call.kind = "place" /\ call.step \in {"saving", "ok"} =>
       bets[call.bet].state \notin {"ABSENT", "CASHED_OUT"}

PositionsAreTrue ==
  /\ position.state \in {"pending", "lost"} => bets[position.betId].state # "ABSENT"
  /\ ShownState = "crashed" => position.state # "pending"
  /\ position.state = "cashed_out" /\ position.betId # NoBet =>
       /\ bets[position.betId].state = "CASHED_OUT"
       /\ bets[position.betId].cashOutMultiplier = position.multiplier

RequestInv == PayoutsAreTold /\ RequestsAreServed /\ PositionsAreTrue

\* The position moves with the effects of the hook or with an answer.
LEMMA PositionMoves ==
  ASSUME TypeInv, [Next]_vars
  PROVE  \/ Settle(position) /\ UNCHANGED <<bets, call, untold>>
         \/ PlaceAccepted \/ CashOutAccepted
         \/ position' = position /\ ShownState' = ShownState
<1>1. CASE Connect \/ Disconnect \/ CycleState
  BY <1>1 DEF Connect, Disconnect, CycleState
<1>2. CASE LinkBreaks
  BY <1>2 DEF LinkBreaks, page, ShownState, Connected
<1>3. CASE \E c \in 1 .. MaxConnections : FetchDelivered(c)
  BY <1>3 DEF FetchDelivered
<1>4. CASE StateChanged \/ Crashed
  BY <1>4 DEF StateChanged, Crashed, Receive
<1>5. CASE MultiplierUpdated \/ BetPlaced \/ BetCashedOut
  <2>1. position' = position /\ link' = link /\ localState' = localState
    BY <1>5 DEF MultiplierUpdated, BetPlaced, BetCashedOut, Receive
  <2>2. store'.state = store.state
    BY <1>5 DEF MultiplierUpdated, BetPlaced, BetCashedOut, TypeInv, PageTypes, Store
  <2> QED BY <2>1, <2>2 DEF ShownState, Connected
<1>6. CASE UNCHANGED <<link, ref, store, localState, position, informed>>
  BY <1>6 DEF ShownState, Connected
<1> QED BY <1>1, <1>2, <1>3, <1>4, <1>5, <1>6, PageFrame DEF Handle

\* A bet that is cashed out stays so, at the same multiplier.
LEMMA PayoutsStay ==
  ASSUME TypeInv, [Next]_vars, NEW b \in Bet, bets[b].state = "CASHED_OUT"
  PROVE  bets'[b].state = "CASHED_OUT" /\ bets'[b] = bets[b]
BY BetMoves

\* Nothing has been asked for in the initial state.
LEMMA RequestInvInit == Init => RequestInv
BY DEF Init, RequestInv, PayoutsAreTold, RequestsAreServed, PositionsAreTrue, AbsentBet,
       NoPosition, NoCall, ShownState, Connected

\* Every step keeps PayoutsAreTold.
LEMMA PayoutsAreToldStep == TypeInv /\ RequestInv /\ [Next]_vars => PayoutsAreTold'
<1> SUFFICES ASSUME TypeInv, RequestInv, [Next]_vars,
                    NEW b \in Bet, bets'[b].state = "CASHED_OUT"
             PROVE  \/ b \in untold'
                    \/ call'.kind = "cashOut" /\ call'.bet = b
                    \/ position'.betId = b => position'.state = "cashed_out"
  BY DEF PayoutsAreTold
<1>t. /\ position \in Position /\ call \in Call
      /\ position.state \in {"pending", "lost"} => position.betId \in Bet
  BY DEF TypeInv, PageTypes, CallTypes
<1>1. CASE bets[b].state # "CASHED_OUT"
  <2>1. ServeCashOut /\ b = call.bet
    BY <1>1, BetMoves
  <2> QED BY <1>t, <2>1 DEF ServeCashOut, Answer, Call
<1>2. CASE bets[b].state = "CASHED_OUT"
  <2>1. CASE b \in untold
    BY <2>1, <1>t, CallFrame
    DEF ClickPlace, ClickCashOut, Serve, ServePlace, RefusePlace, PlaceSaved, ServeCashOut,
        RefuseCashOut, CashOutSaved, SaveFails, Return, PlaceAccepted, CashOutAccepted, CallFails
  <2>2. CASE call.kind = "cashOut" /\ call.bet = b
    <3>1. CASE ClickPlace \/ ClickCashOut
      BY <2>2, <3>1 DEF ClickPlace, ClickCashOut, CanPlace, CanCashOut, Loading
    <3>2. CASE Serve
      <4>1. call'.kind = call.kind /\ call'.bet = call.bet
        BY <1>t, <2>2, <3>2
        DEF Serve, ServePlace, RefusePlace, PlaceSaved, ServeCashOut, RefuseCashOut,
            CashOutSaved, SaveFails, Answer, Call
      <4> QED BY <2>2, <4>1
    <3>3. CASE CashOutAccepted
      BY <1>t, <3>3 DEF CashOutAccepted, Position
    <3>4. CASE CallFails
      BY <1>2, <2>2, <3>4 DEF CallFails
    <3>5. CASE PlaceAccepted
      BY <2>2, <3>5 DEF PlaceAccepted
    <3>6. CASE UNCHANGED <<call, untold>>
      BY <2>2, <3>6
    <3> QED BY <3>1, <3>2, <3>3, <3>4, <3>5, <3>6, CallFrame DEF Return
  <2>3. CASE position.betId = b => position.state = "cashed_out"
    <3>1. CASE Settle(position)
      BY <1>t, <2>3, <3>1, SettleFacts
    <3>2. CASE PlaceAccepted
      <4> DEFINE p == [state |-> "pending", betId |-> call.bet, multiplier |-> 0]
      <4>1. p \in Position /\ p.state = "pending" /\ p.betId = call.bet /\ Settle(p)
            /\ call.bet \in Bet /\ call.bet # b
        BY <1>2, <3>2
        DEF PlaceAccepted, RequestInv, RequestsAreServed, TypeInv, CallTypes, Position, BetId
      <4> HIDE DEF p
      <4> QED BY <4>1, SettleFacts
    <3>3. CASE CashOutAccepted
      BY <1>t, <3>3 DEF CashOutAccepted, Position
    <3>4. CASE position' = position
      BY <2>3, <3>4
    <3> QED BY <3>1, <3>2, <3>3, <3>4, PositionMoves
  <2> QED BY <1>2, <2>1, <2>2, <2>3 DEF RequestInv, PayoutsAreTold
<1> QED BY <1>1, <1>2

\* Every step keeps RequestsAreServed.
LEMMA RequestsAreServedStep == TypeInv /\ RequestInv /\ [Next]_vars => RequestsAreServed'
<1> SUFFICES ASSUME TypeInv, RequestInv, [Next]_vars PROVE RequestsAreServed'
  OBVIOUS
<1>t. /\ position \in Position /\ call \in Call /\ bets \in [Bet -> BetRecord]
      /\ position.state \in {"pending", "lost"} => position.betId \in Bet
      /\ call.kind = "cashOut" => call.bet \in Bet
      /\ call.kind = "place" /\ call.step \in {"saving", "ok"} => call.bet \in Bet
  BY DEF TypeInv, PageTypes, CallTypes, ServiceTypes
<1>r. RequestsAreServed
  BY DEF RequestInv
<1>1. ASSUME NEW result \in {"saving", "ok", "refused"}, Answer(result), position' = position,
             call.kind = "cashOut" /\ result # "refused" => bets'[call.bet].state = "CASHED_OUT",
             call.kind = "place" /\ result # "refused" =>
               bets'[call.bet].state \notin {"ABSENT", "CASHED_OUT"}
      PROVE  RequestsAreServed'
  BY <1>t, <1>r, <1>1 DEF Answer, Call, RequestsAreServed
<1>2. CASE ClickPlace
  BY <1>2 DEF ClickPlace, NoCall, RequestsAreServed
<1>3. CASE ClickCashOut
  BY <1>3 DEF ClickCashOut, page, RequestsAreServed
<1>4. ASSUME NEW b \in Bet, ServePlace(b) PROVE RequestsAreServed'
  <2>1. call'.kind = "place" /\ call'.bet = b
    BY <1>t, <1>4 DEF ServePlace, Call
  <2>2. bets'[b].state = "PENDING"
    BY <1>t, <1>4 DEF ServePlace, RoundPlaceBet, BetCreate, AbsentBet
  <2> QED BY <2>1, <2>2 DEF RequestsAreServed
<1>5. CASE RefusePlace \/ RefuseCashOut \/ SaveFails
  BY <1>1, <1>5 DEF RefusePlace, RefuseCashOut, SaveFails, page
<1>6. CASE PlaceSaved
  BY <1>1, <1>6, <1>r DEF PlaceSaved, page, RequestsAreServed
<1>7. CASE ServeCashOut
  <2>1. bets'[call.bet].state = "CASHED_OUT"
    BY <1>t, <1>7 DEF ServeCashOut, RoundCashOut, BetCashOut, BetRecord
  <2> QED BY <1>1, <1>7, <2>1 DEF ServeCashOut, page
<1>8. CASE CashOutSaved
  <2>1. Answer("ok") \/ Answer("refused")
    BY <1>8 DEF CashOutSaved
  <2> QED BY <1>1, <1>8, <1>r, <2>1 DEF CashOutSaved, page, RequestsAreServed
<1>9. CASE Return
  <2>1. call'.kind = "none"
    BY <1>9 DEF Return, PlaceAccepted, CashOutAccepted, CallFails, NoCall
  <2> QED BY <2>1 DEF RequestsAreServed
<1>10. CASE UNCHANGED <<call, untold>>
  <2>1. call.kind = "cashOut" => position'.betId \in {call.bet, NoBet}
    <3>1. CASE Settle(position)
      BY <1>t, <1>r, <3>1, SettleFacts DEF RequestsAreServed
    <3>2. CASE PlaceAccepted
      BY <3>2 DEF PlaceAccepted
    <3>3. CASE CashOutAccepted
      BY <1>t, <1>r, <3>3 DEF CashOutAccepted, RequestsAreServed, Position
    <3>4. CASE position' = position
      BY <1>r, <3>4 DEF RequestsAreServed
    <3> QED BY <3>1, <3>2, <3>3, <3>4, PositionMoves
  <2>2. call.kind = "cashOut" /\ call.step \in {"saving", "ok"} =>
          bets'[call.bet].state = "CASHED_OUT"
    BY <1>t, <1>r, PayoutsStay DEF RequestsAreServed
  <2>3. ASSUME call.kind = "place" /\ call.step \in {"saving", "ok"}
        PROVE  bets'[call.bet].state \notin {"ABSENT", "CASHED_OUT"}
    <3>1. ~ ServeCashOut
      BY <2>3 DEF ServeCashOut
    <3>2. call.bet \in Bet /\ bets[call.bet].state \notin {"ABSENT", "CASHED_OUT"}
      BY <1>t, <1>r, <2>3 DEF RequestsAreServed
    <3> QED BY <3>1, <3>2, BetMoves
  <2> QED BY <1>10, <2>1, <2>2, <2>3 DEF RequestsAreServed
<1> QED BY <1>2, <1>3, <1>4, <1>5, <1>6, <1>7, <1>8, <1>9, <1>10, CallFrame DEF Serve

\* Every step keeps PositionsAreTrue.
LEMMA PositionsAreTrueStep == TypeInv /\ RequestInv /\ [Next]_vars => PositionsAreTrue'
<1> SUFFICES ASSUME TypeInv, RequestInv, [Next]_vars PROVE PositionsAreTrue'
  OBVIOUS
<1>t. /\ position \in Position
      /\ position.state \in {"pending", "lost"} => position.betId \in Bet
  BY DEF TypeInv, PageTypes
<1>r. PositionsAreTrue
  BY DEF RequestInv
<1>b. \A b \in Bet : /\ bets[b].state # "ABSENT" => bets'[b].state # "ABSENT"
                     /\ bets[b].state = "CASHED_OUT" => bets'[b] = bets[b]
  BY BetMoves
<1>1. CASE Settle(position)
  <2>1. position.betId \in BetId
    BY <1>t DEF Position
  <2>2. /\ position'.state \in {"pending", "lost"} =>
             position'.betId \in Bet /\ position'.betId = position.betId
             /\ position.state \in {"pending", "lost"}
        /\ position'.state = "cashed_out" => position' = position
        /\ ShownState' = "crashed" => position'.state # "pending"
    <3>1. position'.state \in {"pending", "lost"} => position.state \in {"pending", "lost"}
      BY <1>1 DEF Settle, AfterEffects, NoPosition
    <3> QED BY <1>1, <1>t, <3>1, SettleFacts
  <2> QED BY <1>r, <1>b, <2>1, <2>2 DEF PositionsAreTrue, BetId
<1>2. CASE PlaceAccepted
  <2> DEFINE p == [state |-> "pending", betId |-> call.bet, multiplier |-> 0]
  <2>1. p \in Position /\ p.state = "pending" /\ p.betId = call.bet /\ Settle(p)
        /\ call.bet \in Bet /\ bets[call.bet].state # "ABSENT"
    BY <1>2
    DEF PlaceAccepted, RequestInv, RequestsAreServed, TypeInv, CallTypes, Position, BetId
  <2> HIDE DEF p
  <2>2. /\ position'.state \in {"pending", "lost"} => position'.betId = call.bet
        /\ position'.state # "cashed_out"
        /\ ShownState' = "crashed" => position'.state # "pending"
    BY <2>1, SettleFacts
  <2> QED BY <1>b, <2>1, <2>2 DEF PositionsAreTrue
<1>3. CASE CashOutAccepted
  <2>1. /\ call.bet \in Bet /\ bets[call.bet].state = "CASHED_OUT"
        /\ position.betId \in {call.bet, NoBet}
    BY <1>3 DEF CashOutAccepted, RequestInv, RequestsAreServed, TypeInv, CallTypes
  <2>2. position' = [position EXCEPT !.state = "cashed_out",
                                     !.multiplier = bets[call.bet].cashOutMultiplier]
    BY <1>3 DEF CashOutAccepted
  <2>3. /\ position'.state = "cashed_out" /\ position'.betId = position.betId
        /\ position'.multiplier = bets[call.bet].cashOutMultiplier
    BY <1>t, <2>2 DEF Position
  <2> QED BY <1>b, <2>1, <2>3 DEF PositionsAreTrue
<1>4. CASE position' = position /\ ShownState' = ShownState
  <2>1. position.betId \in BetId
    BY <1>t DEF Position
  <2> QED BY <1>t, <1>r, <1>b, <1>4, <2>1 DEF PositionsAreTrue, BetId
<1> QED BY <1>1, <1>2, <1>3, <1>4, PositionMoves

\* Every step keeps the hook's request and position in step with the bets.
LEMMA RequestInvStep == TypeInv /\ RequestInv /\ [Next]_vars => RequestInv'
BY PayoutsAreToldStep, RequestsAreServedStep, PositionsAreTrueStep DEF RequestInv

-----------------------------------------------------------------------------
(* The stream of events                                                    *)
(*                                                                         *)
(* A view is a round, its state and its multiplier.  While events are under *)
(* way the page is behind the service, and each of them takes whoever      *)
(* follows them from one view to a later one: a sequence B of views, one   *)
(* more than there are events, leads from what the page has been told to   *)
(* what the service has announced.                                         *)

View(r, s, m) == [round |-> r, state |-> s, multiplier |-> m]
Views == [round : Nat, state : Shown, multiplier : Nat]

Rank == [null |-> 0, betting |-> 1, running |-> 2, crashed |-> 3]

\* v is no later than w.
Precedes(v, w) ==
  \/ v.round < w.round
  \/ /\ v.round = w.round
     /\ Rank[v.state] <= Rank[w.state]
     /\ v.multiplier <= w.multiplier

ActualView == View(current, Lower[round.state], round.multiplier)
PageView == View(ref, store.state, AskedMultiplier)

\* v is what the last event said.
Told(v) ==
  IF ~ announcing THEN v = ActualView
  ELSE /\ round.state = "BETTING" => v.round = current - 1
       /\ round.state = "RUNNING" => v = View(current, "betting", One)
       /\ round.state = "CRASHED" => v = View(current, "running", round.multiplier)

\* Where event e takes whoever had view v.
After(v, e) ==
  IF e.type = "state-changed" THEN View(e.round, e.state, One)
  ELSE IF e.type = "multiplier-updated" THEN View(e.round, "running", e.multiplier)
  ELSE IF e.type = "crashed" THEN View(e.round, "crashed", e.multiplier)
  ELSE v

\* e is an event that may come after view v.
Fits(v, e) ==
  /\ Precedes(v, After(v, e))
  /\ e.type = "state-changed" =>
       e.state = "betting" \/ (e.state = "running" /\ v.round = e.round)
  /\ e.type = "multiplier-updated" => v.round = e.round /\ v.state = "running"
  /\ e.type \in {"crashed", "bet-cashed-out"} => v.round = e.round

IsView(v) == v.round \in Nat /\ v.state \in Shown \cup {"null"} /\ v.multiplier \in Nat

\* The states of a round are ranked, each with a rank of its own.
LEMMA RankFacts ==
  /\ \A s \in Shown \cup {"null"} : Rank[s] \in Nat
  /\ \A s, t \in Shown \cup {"null"} : Rank[s] = Rank[t] => s = t
  /\ Rank["betting"] = 1 /\ Rank["running"] = 2 /\ Rank["crashed"] = 3
BY DEF Rank, Shown

\* Precedes is an order of views: every view precedes itself,
LEMMA PrecedesReflexive ==
  ASSUME NEW v, IsView(v) PROVE Precedes(v, v)
BY RankFacts DEF IsView, Precedes

\* what precedes a view that precedes a third precedes the third,
LEMMA PrecedesTransitive ==
  ASSUME NEW u, NEW v, NEW w, IsView(u), IsView(v), IsView(w), Precedes(u, v), Precedes(v, w)
  PROVE  Precedes(u, w)
<1>1. /\ Rank[u.state] \in Nat /\ Rank[v.state] \in Nat /\ Rank[w.state] \in Nat
      /\ u.round \in Nat /\ v.round \in Nat /\ w.round \in Nat
      /\ u.multiplier \in Nat /\ v.multiplier \in Nat /\ w.multiplier \in Nat
  BY RankFacts DEF IsView
<1> QED BY <1>1 DEF Precedes

\* and two views that precede each other are the same.
LEMMA PrecedesAntisymmetric ==
  ASSUME NEW v, NEW w, IsView(v), IsView(w), Precedes(v, w), Precedes(w, v)
  PROVE  v.round = w.round /\ v.state = w.state /\ v.multiplier = w.multiplier
<1>1. /\ Rank[v.state] \in Nat /\ Rank[w.state] \in Nat
      /\ v.round \in Nat /\ w.round \in Nat /\ v.multiplier \in Nat /\ w.multiplier \in Nat
  BY RankFacts DEF IsView
<1>2. v.round = w.round /\ Rank[v.state] = Rank[w.state] /\ v.multiplier = w.multiplier
  BY <1>1 DEF Precedes
<1> QED BY <1>2, RankFacts DEF IsView

\* Views, events and answers can be compared.
LEMMA ViewTypes ==
  /\ \A v \in Views : IsView(v)
  /\ \A e \in Event : IsView(e) /\ e.round \in Nat /\ e.state \in Shown
  /\ \A f \in Fetch : IsView(f)
  /\ \A v \in Views, e \in Event : After(v, e) \in Views
<1>1. \A e \in Event : IsView(e) /\ e.round \in Nat /\ e.state \in Shown /\ e.multiplier \in Nat
  BY Bounds DEF Event, RoundId, IsView
<1>2. "running" \in Shown /\ "crashed" \in Shown
  BY DEF Shown
<1>3. ASSUME NEW v \in Views, NEW e \in Event PROVE After(v, e) \in Views
  BY <1>1, <1>2 DEF After, View, Views
<1> QED BY <1>1, <1>3, Bounds DEF Views, Fetch, IsView

\* What the service and the page have is a view.
LEMMA CurrentViews ==
  ASSUME TypeInv
  PROVE  /\ ActualView \in Views /\ IsView(ActualView) /\ IsView(PageView)
         /\ ActualView.round = current /\ ActualView.multiplier = round.multiplier
         /\ ActualView.state = Lower[round.state]
         /\ PageView.round = ref /\ PageView.state = store.state
         /\ PageView.multiplier = AskedMultiplier /\ AskedMultiplier >= One
<1>1. /\ current \in Nat /\ round.multiplier \in Nat /\ Lower[round.state] \in Shown
  BY Bounds DEF TypeInv, ServiceTypes, RoundRecord, RoundId, Lower, Shown
<1>2. ref \in Nat /\ store.state \in Shown \cup {"null"} /\ AskedMultiplier \in Nat
      /\ AskedMultiplier >= One
  BY Bounds DEF TypeInv, PageTypes, Store, AskedMultiplier
<1> QED BY <1>1, <1>2 DEF ActualView, PageView, View, Views, IsView

\* The service goes from one view to a later one.
LEMMA ActualMoves ==
  ASSUME TypeInv, RoundInv, [Next]_vars
  PROVE  Precedes(ActualView, ActualView')
<1>1. TypeInv'
  BY TypeInvStep
<1>2. /\ ActualView'.round = current' /\ ActualView'.multiplier = round'.multiplier
      /\ ActualView'.state = Lower[round'.state] /\ current \in Nat /\ round.multiplier \in Nat
  BY <1>1, CurrentViews DEF ActualView, View, TypeInv, ServiceTypes, RoundRecord, RoundId
<1>3. CASE UNCHANGED <<current, round>>
  <2>1. ActualView' = ActualView
    BY <1>3 DEF ActualView, View
  <2> QED BY <2>1, CurrentViews, PrecedesReflexive
<1>4. CASE current' = current + 1
  BY <1>2, <1>4, CurrentViews DEF Precedes
<1>5. CASE /\ current' = current /\ round.state = "BETTING" /\ round.multiplier = One
           /\ round'.state = "RUNNING" /\ round'.multiplier = One
  BY <1>2, <1>5, CurrentViews, RankFacts DEF Precedes, Lower
<1>6. CASE /\ current' = current /\ round.state = "RUNNING"
           /\ round'.state \in {"RUNNING", "CRASHED"} /\ round'.multiplier = round.multiplier + 1
  BY <1>2, <1>6, CurrentViews, RankFacts DEF Precedes, Lower
<1> QED BY <1>3, <1>4, <1>5, <1>6, RoundMoves

\* What was said last is no later than what is.
LEMMA ToldPrecedes ==
  ASSUME TypeInv, NEW v \in Views, Told(v)
  PROVE  Precedes(v, ActualView)
<1>t. /\ current \in Nat /\ round.multiplier \in Nat /\ round.multiplier >= One
      /\ round.state \in {"BETTING", "RUNNING", "CRASHED"} /\ v.round \in Nat
  BY DEF TypeInv, ServiceTypes, RoundRecord, RoundId, Views
<1>1. CASE ~ announcing
  BY <1>1, CurrentViews, PrecedesReflexive DEF Told
<1>2. CASE announcing /\ round.state = "BETTING"
  BY <1>t, <1>2, CurrentViews DEF Told, Precedes
<1>3. CASE announcing /\ round.state = "RUNNING"
  BY <1>t, <1>3, CurrentViews, RankFacts DEF Told, Precedes, View, Lower
<1>4. CASE announcing /\ round.state = "CRASHED"
  BY <1>t, <1>4, CurrentViews, RankFacts DEF Told, Precedes, View, Lower
<1> QED BY <1>t, <1>1, <1>2, <1>3, <1>4

\* An event that is sent fits what was said last, and is what was said last then.
LEMMA SentMoves ==
  ASSUME TypeInv, RoundInv, RequestInv, [Next]_vars, NEW e, Sent(e), NEW v \in Views, Told(v)
  PROVE  Fits(v, e) /\ Told(After(v, e))'
<1>t. /\ current \in Nat /\ round \in RoundRecord /\ round.multiplier \in Nat
      /\ round.state \in {"BETTING", "RUNNING", "CRASHED"} /\ v.round \in Nat
  BY DEF TypeInv, ServiceTypes, RoundRecord, RoundId, Views
<1>a. /\ e.round = current' /\ e.state = Lower[round'.state] /\ e.multiplier = round'.multiplier
      /\ e \in Event
  BY ServiceTypesStep, SentFacts
<1>b. After(v, e) \in Views
  BY <1>a, ViewTypes
<1>1. CASE Tick /\ e = EventOf("multiplier-updated", NoBet)
  <2>1. /\ e.type = "multiplier-updated" /\ ~ announcing /\ current' = current
        /\ round.state = "RUNNING" /\ announcing' = (round'.state = "CRASHED")
        /\ round'.state \in {"RUNNING", "CRASHED"} /\ round'.multiplier = round.multiplier + 1
    BY <1>t, <1>1
    DEF Tick, EventOf, RoundCanUpdateMultiplier, RoundUpdateMultiplier, RoundCrash, RoundRecord
  <2>2. v = View(current, "running", round.multiplier)
    BY <2>1 DEF Told, ActualView, Lower
  <2>3. After(v, e) = View(current, "running", round.multiplier + 1)
    BY <1>a, <2>1 DEF After
  <2>4. Precedes(v, After(v, e))
    BY <1>t, <2>2, <2>3, RankFacts DEF Precedes, View
  <2>5. Fits(v, e)
    BY <1>a, <2>1, <2>2, <2>4 DEF Fits, View
  <2>6. Told(After(v, e))'
    <3>1. CASE round'.state = "CRASHED"
      <4>1. announcing'
        BY <2>1, <3>1, Zenon
      <4> QED BY <2>1, <2>3, <3>1, <4>1 DEF Told, ActualView, Lower
    <3>2. CASE round'.state = "RUNNING"
      <4>1. ~ announcing'
        BY <2>1, <3>2
      <4> QED BY <2>1, <2>3, <3>2, <4>1 DEF Told, ActualView, Lower
    <3> QED BY <2>1, <3>1, <3>2
  <2> QED BY <2>5, <2>6
<1>2. CASE Announce /\ e = EventOf(IF round.state = "CRASHED" THEN "crashed" ELSE "state-changed", NoBet)
  <2>1. /\ e.type = IF round.state = "CRASHED" THEN "crashed" ELSE "state-changed"
        /\ announcing /\ ~ announcing' /\ current' = current /\ round' = round
    BY <1>2 DEF Announce, EventOf
  <2>2. CASE round.state = "BETTING"
    <3>1. v.round = current - 1 /\ round.multiplier = One
      BY <2>1, <2>2 DEF Told, RoundInv
    <3>2. After(v, e) = View(current, "betting", One) /\ e.state = "betting"
      BY <1>a, <2>1, <2>2 DEF After, Lower
    <3>3. Precedes(v, After(v, e))
      BY <1>t, <3>1, <3>2 DEF Precedes, View
    <3> QED BY <2>1, <2>2, <3>1, <3>2, <3>3 DEF Fits, Told, ActualView, Lower
  <2>3. CASE round.state = "RUNNING"
    <3>1. v = View(current, "betting", One) /\ round.multiplier = One
      BY <2>1, <2>3 DEF Told, RoundInv
    <3>2. After(v, e) = View(current, "running", One) /\ e.state = "running"
      BY <1>a, <2>1, <2>3 DEF After, Lower
    <3>3. Precedes(v, After(v, e))
      BY <1>t, <3>1, <3>2, RankFacts DEF Precedes, View
    <3>4. Fits(v, e)
      BY <1>a, <2>1, <2>3, <3>1, <3>2, <3>3 DEF Fits, View
    <3> QED BY <2>1, <2>3, <3>1, <3>2, <3>4 DEF Told, ActualView, Lower
  <2>4. CASE round.state = "CRASHED"
    <3>1. v = View(current, "running", round.multiplier)
      BY <2>1, <2>4 DEF Told
    <3>2. After(v, e) = View(current, "crashed", round.multiplier)
      BY <1>a, <2>1, <2>4 DEF After
    <3>3. Precedes(v, After(v, e))
      BY <1>t, <3>1, <3>2, RankFacts DEF Precedes, View
    <3>4. Fits(v, e)
      BY <1>a, <2>1, <2>4, <3>1, <3>3 DEF Fits, View
    <3> QED BY <2>1, <2>4, <3>2, <3>4 DEF Told, ActualView, Lower
  <2> QED BY <1>t, <2>2, <2>3, <2>4
<1>3. CASE PlaceSaved /\ e = EventOf("bet-placed", call.bet)
  <2>1. e.type = "bet-placed" /\ UNCHANGED <<current, round, announcing>>
    BY <1>3 DEF PlaceSaved, EventOf, service
  <2>2. After(v, e) = v
    BY <2>1 DEF After
  <2>3. Fits(v, e)
    BY <2>1, <2>2, ViewTypes, PrecedesReflexive DEF Fits
  <2> QED BY <2>1, <2>2, <2>3 DEF Told, ActualView
<1>4. CASE CashOutSaved /\ call.bet \in BetsOf(bets, current) /\ e = EventOf("bet-cashed-out", call.bet)
  <2>1. e.type = "bet-cashed-out" /\ UNCHANGED <<current, round, announcing>>
    BY <1>4 DEF CashOutSaved, EventOf, service
  <2>2. /\ call.bet \in Bet /\ bets[call.bet].state = "CASHED_OUT"
        /\ bets[call.bet].round = current
    BY <1>4 DEF CashOutSaved, BetsOf, RequestInv, RequestsAreServed
  <2>3. round.state # "BETTING"
    BY <2>2 DEF RoundInv
  <2>4. v.round = current
    BY <1>t, <2>3 DEF Told, ActualView, View
  <2>5. After(v, e) = v
    BY <2>1 DEF After
  <2>6. Fits(v, e)
    BY <1>a, <2>1, <2>4, <2>5, ViewTypes, PrecedesReflexive DEF Fits
  <2> QED BY <2>1, <2>5, <2>6 DEF Told, ActualView
<1> QED BY <1>1, <1>2, <1>3, <1>4 DEF Sent

\* The views lead, event by event, to what was announced last; none is later
\* than what the service has.
Chain(B) ==
  /\ B \in Seq(Views) /\ Len(B) = Len(net) + 1
  /\ Told(B[Len(B)])
  /\ \A i \in DOMAIN net : Fits(B[i], net[i]) /\ B[i + 1] = After(B[i], net[i])
  /\ \A i \in DOMAIN B : Precedes(B[i], ActualView)
  /\ \A i, j \in DOMAIN B : i <= j => B[i].round <= B[j].round

\* An answer is ahead of the events it waits for.
AnswersFollow(B) ==
  \A c \in DOMAIN fetch : fetch[c].step = "answered" /\ fetch[c].fresh =>
    \A i \in 1 .. fetch[c].behind + 1 : Precedes(B[i], fetch[c])

\* A page that has not been set back shows what it was told, or something newer.
PageFollows(v) ==
  informed => link = "up" /\ Precedes(v, PageView) /\ Precedes(PageView, ActualView)

\* A green row is a bet cashed out in the round the page has been told of; after
\* a reconnect, maybe in an earlier one.
RowsFollow(B) ==
  \A x \in Bet : store.bets[x] = "cashed" =>
    /\ bets[x].state = "CASHED_OUT"
    /\ \A i \in DOMAIN B : bets[x].round <= B[i].round
    /\ Len(fetch) <= 1 /\ link = "up" => bets[x].round = B[1].round

Stream(B) == Chain(B) /\ AnswersFollow(B) /\ PageFollows(B[1]) /\ RowsFollow(B)

StreamInv == \E B : Stream(B)

\* Answers and notices of payouts tell the truth; a page that has never been
\* connected has no rows.
WireInv ==
  /\ \A c \in DOMAIN fetch : fetch[c].step = "answered" => Precedes(fetch[c], ActualView)
  /\ \A i \in DOMAIN net : net[i].type = "bet-cashed-out" =>
       /\ net[i].bet \in Bet
       /\ bets[net[i].bet].state = "CASHED_OUT"
       /\ bets[net[i].bet].round = net[i].round
  /\ fetch = << >> => link = "down" /\ \A x \in Bet : store.bets[x] = "absent"

\* Steps and what they do to the stream: events are sent, lost, handled or
\* answered around, or the service goes on in silence, or nothing is told.
LEMMA StreamFrame ==
  ASSUME [Next]_vars
  PROVE  \/ \E e : Sent(e) /\ Emit(e) /\ UNCHANGED <<link, page, informed>>
         \/ Connect \/ LinkBreaks \/ Disconnect
         \/ (\E c \in 1 .. MaxConnections : Fetching(c))
         \/ Handle
         \/ NewRound \/ (\E c \in CrashMultiplier : StartRound(c))
         \/ /\ UNCHANGED <<current, round, announcing, link, net, fetch, ref, informed>>
            /\ store' = store \/ store' = [store EXCEPT !.myBetId = call.bet]
<1>1. CASE Service
  <2>1. CASE Tick
    BY <2>1 DEF Sent, Tick
  <2>2. CASE Announce
    BY <2>2 DEF Sent, Announce
  <2> QED BY <1>1, <2>1, <2>2 DEF Service
<1>2. CASE Click
  BY <1>2 DEF Click, ClickPlace, ClickCashOut, CycleState, service, page
<1>3. CASE Serve
  <2>1. CASE PlaceSaved
    BY <2>1 DEF Sent, PlaceSaved
  <2>2. CASE CashOutSaved /\ call.bet \in BetsOf(bets, current)
    BY <2>2 DEF Sent, CashOutSaved
  <2>3. CASE CashOutSaved /\ call.bet \notin BetsOf(bets, current)
    BY <2>3 DEF CashOutSaved, service, page
  <2> QED
    BY <1>3, <2>1, <2>2, <2>3
    DEF Serve, ServePlace, RefusePlace, ServeCashOut, RefuseCashOut, SaveFails, service, page
<1>4. CASE Return
  BY <1>4 DEF Return, PlaceAccepted, CashOutAccepted, CallFails, service, page
<1>5. CASE UNCHANGED vars
  BY <1>5 DEF vars
<1> QED BY <1>1, <1>2, <1>3, <1>4, <1>5 DEF Next, Connection

\* What the service and the page have after a step is a view.
LEMMA NextViews ==
  ASSUME TypeInv, [Next]_vars
  PROVE  /\ ActualView' \in Views /\ IsView(ActualView') /\ IsView(PageView')
         /\ ActualView'.round = current' /\ ActualView'.multiplier = round'.multiplier
         /\ ActualView'.state = Lower[round'.state]
         /\ PageView'.round = ref' /\ PageView'.state = store'.state
         /\ PageView'.multiplier = AskedMultiplier' /\ AskedMultiplier' >= One
<1>t. TypeInv'
  BY TypeInvStep
<1>1. /\ current' \in Nat /\ round'.multiplier \in Nat /\ Lower[round'.state] \in Shown
  BY <1>t, Bounds DEF TypeInv, ServiceTypes, RoundRecord, RoundId, Lower, Shown
<1>2. ref' \in Nat /\ store'.state \in Shown \cup {"null"} /\ AskedMultiplier' \in Nat
      /\ AskedMultiplier' >= One
  BY <1>t, Bounds DEF TypeInv, PageTypes, Store, AskedMultiplier
<1> QED BY <1>1, <1>2 DEF ActualView, PageView, View, Views, IsView

\* What is no later than the service's view stays so.
LEMMA StaysBehind ==
  ASSUME TypeInv, RoundInv, [Next]_vars, NEW v, IsView(v), Precedes(v, ActualView)
  PROVE  Precedes(v, ActualView')
<1>1. IsView(ActualView) /\ IsView(ActualView') /\ Precedes(ActualView, ActualView')
  BY CurrentViews, NextViews, ActualMoves
<1> HIDE DEF ActualView, IsView
<1> QED BY <1>1, PrecedesTransitive

\* The views of a stream.
LEMMA ChainFacts ==
  ASSUME TypeInv, NEW B, Chain(B)
  PROVE  /\ B \in Seq(Views) /\ Len(net) \in Nat /\ Len(B) = Len(net) + 1
         /\ DOMAIN B = 1 .. Len(net) + 1 /\ DOMAIN net = 1 .. Len(net)
         /\ 1 \in DOMAIN B /\ Len(net) + 1 \in DOMAIN B
         /\ \A i \in DOMAIN B : B[i] \in Views /\ IsView(B[i]) /\ B[i].round \in Nat
         /\ Told(B[Len(net) + 1])
<1>1. B \in Seq(Views) /\ net \in Seq(Event) /\ Len(B) = Len(net) + 1 /\ Told(B[Len(B)])
  BY DEF Chain, TypeInv, WireTypes
<1>2. /\ Len(net) \in Nat /\ DOMAIN B = 1 .. Len(net) + 1 /\ DOMAIN net = 1 .. Len(net)
  BY <1>1
<1>3. \A i \in DOMAIN B : B[i] \in Views
  BY <1>1
<1>4. \A i \in DOMAIN B : IsView(B[i]) /\ B[i].round \in Nat
  BY <1>3, ViewTypes DEF Views
<1> QED BY <1>1, <1>2, <1>3, <1>4

\* Rows that a step leaves alone stay true, on the connection they were told on.
LEMMA RowsStay ==
  ASSUME TypeInv, [Next]_vars, NEW B, NEW C,
         \A x \in Bet : store'.bets[x] = "cashed" => store.bets[x] = "cashed",
         RowsFollow(B),
         \A i \in DOMAIN C : \E j \in DOMAIN B : B[j].round <= C[i].round /\ B[j].round \in Nat,
         \A i \in DOMAIN C : C[i].round \in Nat,
         Len(fetch') <= 1 /\ link' = "up" =>
           Len(fetch) <= 1 /\ link = "up" /\ C[1].round = B[1].round
  PROVE  RowsFollow(C)'
<1> SUFFICES ASSUME NEW x \in Bet, store'.bets[x] = "cashed"
             PROVE  /\ bets'[x].state = "CASHED_OUT"
                    /\ \A i \in DOMAIN C : bets'[x].round <= C[i].round
                    /\ Len(fetch') <= 1 /\ link' = "up" => bets'[x].round = C[1].round
  BY DEF RowsFollow
<1>1. /\ bets[x].state = "CASHED_OUT" /\ bets[x].round \in Nat
      /\ \A j \in DOMAIN B : bets[x].round <= B[j].round
      /\ Len(fetch) <= 1 /\ link = "up" => bets[x].round = B[1].round
  BY DEF RowsFollow, TypeInv, ServiceTypes, BetRecord
<1>2. bets'[x] = bets[x]
  BY <1>1, PayoutsStay
<1>3. \A i \in DOMAIN C : bets[x].round <= C[i].round
  BY <1>1
<1> QED BY <1>1, <1>2, <1>3

\* The page's view stays where the step leaves its round, state and multiplier.
LEMMA PageStays ==
  ASSUME TypeInv, RoundInv, [Next]_vars, NEW v, PageFollows(v),
         UNCHANGED <<ref, link, informed>>,
         store'.state = store.state, store'.multiplier = store.multiplier
  PROVE  PageFollows(v)'
<1>1. PageView' = PageView
  BY DEF PageView, View, AskedMultiplier
<1> SUFFICES ASSUME informed' PROVE link' = "up" /\ Precedes(v, PageView') /\ Precedes(PageView', ActualView')
  BY DEF PageFollows
<1>2. informed /\ link' = link
  OBVIOUS
<1>3. link = "up" /\ Precedes(v, PageView) /\ Precedes(PageView, ActualView)
  BY <1>2 DEF PageFollows
<1>4. IsView(PageView)
  BY CurrentViews
<1>5. Precedes(PageView, ActualView')
  <2> HIDE DEF PageView, ActualView, Precedes, IsView
  <2> QED BY <1>3, <1>4, StaysBehind
<1> QED BY <1>1, <1>2, <1>3, <1>5

\* The views stay a chain while nothing is sent or handled.
LEMMA ChainStays ==
  ASSUME TypeInv, RoundInv, [Next]_vars, NEW B, Chain(B), UNCHANGED net,
         Told(B[Len(net) + 1])'
  PROVE  Chain(B)'
<1>1. Len(B) = Len(net) + 1 /\ \A i \in DOMAIN B : IsView(B[i])
  BY ChainFacts
<1>2. \A i \in DOMAIN B : Precedes(B[i], ActualView')
  <2> SUFFICES ASSUME NEW i \in DOMAIN B PROVE Precedes(B[i], ActualView')
    OBVIOUS
  <2>1. IsView(B[i]) /\ Precedes(B[i], ActualView)
    BY <1>1 DEF Chain
  <2> HIDE DEF IsView, Precedes, ActualView
  <2> QED BY <2>1, StaysBehind
<1>3. Told(B[Len(B)])'
  BY <1>1
<1> HIDE DEF Told, Fits, After, Precedes, ActualView
<1> QED BY <1>2, <1>3 DEF Chain

\* The service goes on without a word.
LEMMA StreamSilent ==
  ASSUME TypeInv, RoundInv, [Next]_vars, NEW B, Stream(B),
         NewRound \/ \E c \in CrashMultiplier : StartRound(c)
  PROVE  Stream(B)'
<1>f. /\ UNCHANGED <<link, net, fetch, ref, store, informed>>
      /\ ~ announcing /\ Chain(B) /\ AnswersFollow(B) /\ PageFollows(B[1]) /\ RowsFollow(B)
  BY DEF NewRound, StartRound, page, Stream
<1>1. Told(B[Len(net) + 1])'
  <2>1. B[Len(net) + 1] = View(current, Lower[round.state], round.multiplier)
    BY <1>f, ChainFacts DEF Told, ActualView
  <2>2. CASE NewRound
    <3>1. announcing' /\ round'.state = "BETTING" /\ current' = current + 1
      BY <2>2 DEF NewRound, RoundCreate, NoRound
    <3>2. current \in Nat
      BY DEF TypeInv, ServiceTypes, RoundId
    <3> QED BY <2>1, <3>1, <3>2, <1>f DEF Told, View
  <2>3. CASE \E c \in CrashMultiplier : StartRound(c)
    <3>1. announcing' /\ round'.state = "RUNNING" /\ round.state = "BETTING" /\ current' = current
      BY <2>3
      DEF StartRound, RoundCanSetCrashPoint, RoundStart, RoundSetCrashPoint, TypeInv,
          ServiceTypes, RoundRecord
    <3>2. round.multiplier = One
      BY <3>1 DEF RoundInv
    <3> QED BY <2>1, <3>1, <3>2, <1>f DEF Told, View, Lower
  <2> QED BY <2>2, <2>3
<1>2. Chain(B)'
  BY <1>f, <1>1, ChainStays
<1>3. AnswersFollow(B)'
  BY <1>f DEF AnswersFollow
<1>4. PageFollows(B[1])'
  BY <1>f, PageStays
<1>5. RowsFollow(B)'
  <2>1. \A i \in DOMAIN B : B[i].round \in Nat
    BY <1>f, ChainFacts
  <2> QED BY <1>f, <2>1, RowsStay
<1> QED BY <1>2, <1>3, <1>4, <1>5 DEF Stream

\* Nothing is told.
LEMMA StreamRests ==
  ASSUME TypeInv, RoundInv, [Next]_vars, NEW B, Stream(B),
         UNCHANGED <<current, round, announcing, link, net, fetch, ref, informed>>,
         store' = store \/ store' = [store EXCEPT !.myBetId = call.bet]
  PROVE  Stream(B)'
<1>f. Chain(B) /\ AnswersFollow(B) /\ PageFollows(B[1]) /\ RowsFollow(B)
  BY DEF Stream
<1>s. /\ store'.state = store.state /\ store'.multiplier = store.multiplier
      /\ store'.bets = store.bets
  BY DEF TypeInv, PageTypes, Store
<1>1. Told(B[Len(net) + 1])'
  BY <1>f, ChainFacts DEF Told, ActualView
<1>2. Chain(B)'
  BY <1>f, <1>1, ChainStays
<1>3. AnswersFollow(B)'
  BY <1>f DEF AnswersFollow
<1>4. PageFollows(B[1])'
  BY <1>f, <1>s, PageStays
<1>5. RowsFollow(B)'
  <2>1. \A i \in DOMAIN B : B[i].round \in Nat
    BY <1>f, ChainFacts
  <2> QED BY <1>f, <1>s, <2>1, RowsStay
<1> QED BY <1>2, <1>3, <1>4, <1>5 DEF Stream

\* The connection is made or given up: nothing is under way.
LEMMA StreamReconnects ==
  ASSUME TypeInv, RoundInv, WireInv, [Next]_vars, NEW B, Stream(B), Connect \/ Disconnect
  PROVE  Stream(B)'
<1>f. /\ Chain(B) /\ AnswersFollow(B) /\ PageFollows(B[1]) /\ RowsFollow(B)
      /\ UNCHANGED <<current, round, announcing, net, ref, store, informed, bets>>
  BY DEF Stream, Connect, Disconnect, service
<1>t. fetch \in Seq(Fetch) /\ Len(fetch) \in Nat
  BY DEF TypeInv, WireTypes
<1>1. Told(B[Len(net) + 1])'
  BY <1>f, ChainFacts DEF Told, ActualView
<1>2. Chain(B)'
  BY <1>f, <1>1, ChainStays
<1>3. AnswersFollow(B)'
  <2>1. CASE Connect
    <3>1. fetch' = Append(fetch, Asked)
      BY <2>1 DEF Connect
    <3>2. \A c \in DOMAIN fetch' :
            fetch'[c].step = "asked" \/ (c \in DOMAIN fetch /\ fetch'[c] = fetch[c])
      BY <1>t, <3>1 DEF Asked
    <3> QED BY <1>f, <3>2 DEF AnswersFollow
  <2>2. CASE Disconnect
    BY <1>f, <2>2 DEF AnswersFollow, Disconnect
  <2> QED BY <2>1, <2>2
<1>4. PageFollows(B[1])'
  <2>1. link # "up" /\ informed' = informed
    BY <1>f DEF Connect, Disconnect
  <2> QED BY <1>f, <2>1 DEF PageFollows
<1>5. RowsFollow(B)'
  <2>1. CASE Connect
    <3>1. Len(fetch') <= 1 => \A x \in Bet : store.bets[x] = "absent"
      <4>1. Len(fetch') = Len(fetch) + 1
        BY <1>t, <2>1 DEF Connect
      <4> QED BY <1>t, <4>1 DEF WireInv
    <3> QED BY <1>f, <3>1 DEF RowsFollow
  <2>2. CASE Disconnect
    BY <1>f, <2>2 DEF RowsFollow, Disconnect
  <2> QED BY <2>1, <2>2
<1> QED BY <1>2, <1>3, <1>4, <1>5 DEF Stream

\* What was said last is no later than what is, after a step.
LEMMA NextTold ==
  ASSUME TypeInv, [Next]_vars, NEW w \in Views, Told(w)'
  PROVE  Precedes(w, ActualView')
<1>1. TypeInv'
  BY TypeInvStep
<1>2. /\ current' \in Nat /\ round'.multiplier \in Nat /\ round'.multiplier >= One
      /\ round'.state \in {"BETTING", "RUNNING", "CRASHED"} /\ w.round \in Nat
  BY <1>1 DEF TypeInv, ServiceTypes, RoundRecord, RoundId, Views
<1>3. CASE ~ announcing'
  <2>1. w = ActualView'
    BY <1>3 DEF Told
  <2> QED BY <2>1, ViewTypes, PrecedesReflexive
<1>4. CASE announcing' /\ round'.state = "BETTING"
  BY <1>2, <1>4, NextViews DEF Told, Precedes
<1>5. CASE announcing' /\ round'.state = "RUNNING"
  BY <1>2, <1>5, NextViews, RankFacts DEF Told, Precedes, View, Lower
<1>6. CASE announcing' /\ round'.state = "CRASHED"
  BY <1>2, <1>6, NextViews, RankFacts DEF Told, Precedes, View, Lower
<1> QED BY <1>2, <1>3, <1>4, <1>5, <1>6

\* The connection breaks: what was under way is lost, and the page has been told
\* no more than before.
LEMMA StreamBreaks ==
  ASSUME TypeInv, RoundInv, [Next]_vars, NEW B, Stream(B), LinkBreaks
  PROVE  \E C : Stream(C)'
<1>0. PICK v : v = B[Len(net) + 1]
  OBVIOUS
<1>c. PICK C : C = <<v>>
  OBVIOUS
<1>f. /\ Chain(B) /\ AnswersFollow(B) /\ RowsFollow(B)
      /\ UNCHANGED <<current, round, announcing, ref, store, bets>>
      /\ link = "up" /\ link' = "broken" /\ net' = << >> /\ ~ informed'
  BY DEF Stream, LinkBreaks, service, page
<1>v. /\ v \in Views /\ IsView(v) /\ v.round \in Nat /\ Told(v) /\ Precedes(v, ActualView)
      /\ Len(net) + 1 \in DOMAIN B /\ \A i \in DOMAIN B : B[i].round \in Nat
      /\ Len(net) \in Nat
  BY <1>0, <1>f, ChainFacts DEF Chain
<1>d. C \in Seq(Views) /\ Len(C) = 1 /\ DOMAIN C = {1} /\ C[1] = v
  BY <1>c, <1>v
<1>1. Chain(C)'
  <2>1. Told(v)' /\ ActualView' = ActualView
    BY <1>f, <1>v DEF Told, ActualView
  <2>2. Len(net') = 0 /\ DOMAIN net' = {}
    BY <1>f
  <2> HIDE DEF Told, ActualView, Precedes
  <2> QED BY <1>d, <1>v, <2>1, <2>2 DEF Chain
<1>2. AnswersFollow(C)'
  <2> SUFFICES ASSUME NEW c \in DOMAIN fetch', fetch'[c].step = "answered" /\ fetch'[c].fresh,
                      NEW i \in 1 .. fetch'[c].behind + 1
               PROVE  Precedes(C[i], fetch'[c])
    BY DEF AnswersFollow
  <2>1. c \in DOMAIN fetch /\ fetch[c] \in Fetch /\ fetch[c].behind <= Len(net)
    BY DEF LinkBreaks, TypeInv, WireTypes
  <2>2. fetch'[c] = [(IF Len(net) > fetch[c].behind THEN Stale(fetch[c]) ELSE fetch[c])
                       EXCEPT !.behind = 0]
    BY <2>1 DEF LinkBreaks
  <2>3. Len(net) <= fetch[c].behind
    <3> SUFFICES ASSUME Len(net) > fetch[c].behind PROVE FALSE
      BY <1>v, <2>1 DEF Fetch
    <3> DEFINE s == Stale(fetch[c])
    <3>1. s \in Fetch /\ (s.step = "answered" => s.fresh = FALSE)
      BY <2>1, StaleFacts
    <3>2. fetch'[c] = [s EXCEPT !.behind = 0]
      BY <2>2
    <3> HIDE DEF s
    <3>3. fetch'[c].step = s.step /\ fetch'[c].fresh = s.fresh
      BY <3>1, <3>2 DEF Fetch
    <3> QED BY <3>1, <3>3
  <2>4. fetch[c].behind = Len(net) /\ fetch'[c] = [fetch[c] EXCEPT !.behind = 0]
    <3>1. fetch[c].behind \in Nat
      BY <2>1 DEF Fetch
    <3>2. fetch[c].behind = Len(net)
      BY <1>v, <2>1, <2>3, <3>1
    <3>3. ~ Len(net) > fetch[c].behind
      BY <1>v, <3>2
    <3> QED BY <2>2, <3>2, <3>3
  <2>5. /\ fetch'[c].behind = 0 /\ fetch'[c].step = fetch[c].step
        /\ fetch'[c].fresh = fetch[c].fresh /\ fetch'[c].round = fetch[c].round
        /\ fetch'[c].state = fetch[c].state /\ fetch'[c].multiplier = fetch[c].multiplier
    BY <2>1, <2>4 DEF Fetch
  <2>6. Precedes(v, fetch[c])
    <3>1. Len(net) + 1 \in 1 .. fetch[c].behind + 1
      BY <1>v, <2>4
    <3> QED BY <1>0, <1>f, <2>1, <2>5, <3>1 DEF AnswersFollow
  <2>7. C[i] = v
    BY <1>d, <2>5
  <2> QED BY <2>5, <2>6, <2>7 DEF Precedes
<1>3. PageFollows(C[1])'
  BY <1>f DEF PageFollows
<1>4. RowsFollow(C)'
  <2>1. \A i \in DOMAIN C : C[i].round = B[Len(net) + 1].round
    BY <1>0, <1>d
  <2> QED BY <1>f, <1>v, <2>1, RowsStay
<1> QED BY <1>1, <1>2, <1>3, <1>4 DEF Stream

\* An event goes out on a connection that is up: it follows the others.
LEMMA StreamGrows ==
  ASSUME TypeInv, RoundInv, RequestInv, [Next]_vars, NEW B, Stream(B), NEW e,
         Sent(e), Emit(e), UNCHANGED <<link, page, informed>>, link = "up"
  PROVE  \E C : Stream(C)'
<1>n0. PICK n : n = Len(net)
  OBVIOUS
<1>v0. PICK v : v = B[n + 1]
  OBVIOUS
<1>w0. PICK w : w = After(v, e)
  OBVIOUS
<1>c0. PICK C : C = Append(B, w)
  OBVIOUS
<1>f. /\ Chain(B) /\ AnswersFollow(B) /\ PageFollows(B[1]) /\ RowsFollow(B)
      /\ net' = Append(net, e) /\ fetch' = fetch /\ UNCHANGED <<link, ref, store, informed>>
  BY DEF Stream, Emit, page
<1>v. /\ v \in Views /\ v.round \in Nat /\ Told(v)
      /\ B \in Seq(Views) /\ n \in Nat /\ Len(B) = n + 1 /\ Len(net) = n
      /\ DOMAIN B = 1 .. n + 1 /\ DOMAIN net = 1 .. n
      /\ \A i \in DOMAIN B : IsView(B[i]) /\ B[i].round \in Nat
  BY <1>n0, <1>v0, <1>f, ChainFacts
<1>e. e \in Event
  BY ServiceTypesStep, SentFacts
<1>w. Fits(v, e) /\ Told(w)' /\ w \in Views /\ w.round \in Nat /\ v.round <= w.round
  <2>1. w \in Views
    BY <1>w0, <1>v, <1>e, ViewTypes
  <2>2. Fits(v, e) /\ Told(w)'
    <3>1. Fits(v, e) /\ Told(After(v, e))'
      BY <1>v, SentMoves
    <3> QED BY <1>w0, <3>1 DEF Told
  <2>3. Precedes(v, w)
    BY <1>w0, <2>2 DEF Fits
  <2>4. v.round <= w.round
    BY <1>v, <2>1, <2>3 DEF Precedes, Views
  <2> QED BY <2>1, <2>2, <2>4 DEF Views
<1>p. Precedes(w, ActualView')
  BY <1>w, NextTold
<1>d. v = B[n + 1] /\ w = After(B[n + 1], e) /\ n \in Nat
  BY <1>n0, <1>v0, <1>w0, <1>v
<1>n. /\ Len(net') = n + 1 /\ DOMAIN net' = 1 .. n + 1
      /\ net'[n + 1] = e /\ \A i \in DOMAIN net : net'[i] = net[i]
  <2>1. net \in Seq(Event)
    BY DEF TypeInv, WireTypes
  <2> QED BY <1>f, <1>v, <1>e, <2>1
<1>c. /\ C \in Seq(Views) /\ Len(C) = n + 2 /\ DOMAIN C = 1 .. n + 2
      /\ C[n + 2] = w /\ \A i \in 1 .. n + 1 : C[i] = B[i]
  BY <1>c0, <1>v, <1>w
<1>1. Chain(C)'
  <2>1. \A i \in DOMAIN net' : Fits(C[i], net'[i]) /\ C[i + 1] = After(C[i], net'[i])
    <3> SUFFICES ASSUME NEW i \in DOMAIN net'
                 PROVE  Fits(C[i], net'[i]) /\ C[i + 1] = After(C[i], net'[i])
      OBVIOUS
    <3>1. CASE i = n + 1
      BY <1>c, <1>d, <1>n, <1>w, <3>1
    <3>2. CASE i \in DOMAIN net
      <4>1. C[i] = B[i] /\ C[i + 1] = B[i + 1] /\ net'[i] = net[i]
        BY <1>c, <1>n, <1>v, <3>2
      <4> HIDE DEF Fits, After
      <4> QED BY <1>f, <3>2, <4>1 DEF Chain
    <3> QED BY <1>n, <1>v, <3>1, <3>2
  <2>2. \A i \in DOMAIN C : Precedes(C[i], ActualView')
    <3> SUFFICES ASSUME NEW i \in DOMAIN C PROVE Precedes(C[i], ActualView')
      OBVIOUS
    <3>1. CASE i = n + 2
      BY <1>c, <1>p, <3>1
    <3>2. CASE i \in DOMAIN B
      <4>1. IsView(B[i]) /\ Precedes(B[i], ActualView) /\ C[i] = B[i]
        BY <1>f, <1>v, <1>c, <3>2 DEF Chain
      <4> HIDE DEF IsView, Precedes, ActualView
      <4> QED BY <4>1, StaysBehind
    <3> QED BY <1>c, <1>v, <3>1, <3>2
  <2>3. \A i, j \in DOMAIN C : i <= j => C[i].round <= C[j].round
    <3>1. \A i, j \in 1 .. n + 1 : i <= j => B[i].round <= B[j].round
      BY <1>f, <1>v DEF Chain
    <3>2. \A i \in 1 .. n + 1 : B[i].round <= v.round
      BY <3>1, <1>d
    <3>3. ASSUME NEW i \in 1 .. n + 1 PROVE B[i].round <= w.round /\ B[i].round \in Nat
      <4>1. B[i].round <= v.round /\ B[i].round \in Nat
        BY <3>2, <1>v
      <4> QED BY <4>1, <1>v, <1>w
    <3> QED BY <1>c, <1>w, <1>d, <3>1, <3>3
  <2>4. Told(C[Len(C)])'
    BY <1>c, <1>w
  <2>5. Len(C) = Len(net') + 1
    BY <1>c, <1>n, <1>d
  <2> HIDE DEF Told, Fits, After, Precedes, ActualView
  <2> QED BY <1>c, <2>1, <2>2, <2>3, <2>4, <2>5 DEF Chain
<1>2. AnswersFollow(C)'
  <2> SUFFICES ASSUME NEW c \in DOMAIN fetch, fetch[c].step = "answered" /\ fetch[c].fresh,
                      NEW i \in 1 .. fetch[c].behind + 1
               PROVE  Precedes(C[i], fetch[c])
    BY <1>f DEF AnswersFollow
  <2>1. fetch[c] \in Fetch /\ fetch[c].behind <= n
    BY <1>n0 DEF TypeInv, WireTypes
  <2>2. i \in 1 .. n + 1
    BY <1>d, <2>1 DEF Fetch
  <2> HIDE DEF Precedes
  <2> QED BY <1>c, <1>f, <2>2 DEF AnswersFollow
<1>3. PageFollows(C[1])'
  <2>1. C[1] = B[1]
    BY <1>c, <1>d
  <2> QED BY <1>f, <2>1, PageStays
<1>4. RowsFollow(C)'
  <2>1. /\ \A i \in DOMAIN B : B[i].round \in Nat
        /\ \A i \in DOMAIN C : C[i].round \in Nat /\ \E j \in DOMAIN B : B[j].round <= C[i].round
        /\ C[1].round = B[1].round
    <3>1. ASSUME NEW i \in DOMAIN C
          PROVE  C[i].round \in Nat /\ \E j \in DOMAIN B : B[j].round <= C[i].round
      <4>1. CASE i = n + 2
        BY <1>c, <1>w, <1>d, <1>v, <4>1
      <4>2. CASE i \in DOMAIN B
        BY <1>c, <1>v, <4>2
      <4> QED BY <1>c, <1>v, <4>1, <4>2
    <3> QED BY <3>1, <1>v, <1>c, <1>d
  <2> QED BY <1>f, <2>1, RowsStay
<1> QED BY <1>1, <1>2, <1>3, <1>4 DEF Stream

\* An event goes out and the connection is not up: nobody is told, and every
\* answer that is out is overtaken.
LEMMA StreamLoses ==
  ASSUME TypeInv, RoundInv, RequestInv, [Next]_vars, NEW B, Stream(B), NEW e,
         Sent(e), Emit(e), UNCHANGED <<link, page, informed>>, link # "up"
  PROVE  \E C : Stream(C)'
<1>v0. PICK v : v = B[1]
  OBVIOUS
<1>w0. PICK w : w = After(v, e)
  OBVIOUS
<1>c. PICK C : C = <<w>>
  OBVIOUS
<1>f. /\ Chain(B) /\ PageFollows(B[1]) /\ RowsFollow(B)
      /\ net = << >> /\ net' = net /\ fetch' = [c \in DOMAIN fetch |-> Stale(fetch[c])]
      /\ UNCHANGED <<link, ref, store, informed>>
  BY DEF Stream, Emit, page, TypeInv, WireTypes
<1>v. /\ v \in Views /\ v.round \in Nat /\ Told(v) /\ 1 \in DOMAIN B
      /\ \A i \in DOMAIN B : B[i].round \in Nat
  <2>1. Len(net) = 0
    BY <1>f
  <2> QED BY <1>v0, <1>f, <2>1, ChainFacts
<1>w. Told(w)' /\ w \in Views /\ w.round \in Nat /\ v.round <= w.round
  <2>1. e \in Event
    BY ServiceTypesStep, SentFacts
  <2>2. w \in Views
    BY <1>w0, <1>v, <2>1, ViewTypes
  <2>3. Fits(v, e) /\ Told(After(v, e))'
    BY <1>v, SentMoves
  <2>4. Precedes(v, w) /\ Told(w)'
    BY <1>w0, <2>3 DEF Fits, Told
  <2>5. v.round <= w.round
    BY <1>v, <2>2, <2>4 DEF Precedes, Views
  <2> QED BY <2>2, <2>4, <2>5 DEF Views
<1>p. Precedes(w, ActualView')
  BY <1>w, NextTold
<1>d. C \in Seq(Views) /\ Len(C) = 1 /\ DOMAIN C = {1} /\ C[1] = w
  BY <1>c, <1>w
<1>1. Chain(C)'
  <2>1. Len(net') = 0 /\ DOMAIN net' = {}
    BY <1>f
  <2> HIDE DEF Told, ActualView, Precedes
  <2> QED BY <1>d, <1>w, <1>p, <2>1 DEF Chain
<1>2. AnswersFollow(C)'
  <2>1. ASSUME NEW c \in DOMAIN fetch', fetch'[c].step = "answered" PROVE ~ fetch'[c].fresh
    <3>1. c \in DOMAIN fetch /\ fetch[c] \in Fetch /\ fetch'[c] = Stale(fetch[c])
      BY <1>f DEF TypeInv, WireTypes
    <3> QED BY <2>1, <3>1, StaleFacts
  <2> QED BY <2>1 DEF AnswersFollow
<1>3. PageFollows(C[1])'
  BY <1>f DEF PageFollows
<1>4. RowsFollow(C)'
  <2>1. \A i \in DOMAIN C : C[i].round = w.round /\ B[1].round <= w.round /\ B[1].round \in Nat
    BY <1>d, <1>w, <1>v, <1>v0
  <2> QED BY <1>f, <1>v, <1>w, <2>1, RowsStay
<1> QED BY <1>1, <1>2, <1>3, <1>4 DEF Stream

\* An answer is no older than what the page has been told before it is handled.
LEMMA StreamAnswers ==
  ASSUME TypeInv, RoundInv, WireInv, [Next]_vars, NEW B, Stream(B),
         NEW c \in 1 .. MaxConnections, Fetching(c)
  PROVE  Stream(B)'
<1>f. /\ Chain(B) /\ AnswersFollow(B) /\ PageFollows(B[1]) /\ RowsFollow(B)
      /\ c \in DOMAIN fetch
      /\ UNCHANGED <<current, round, announcing, link, net, bets>>
  BY DEF Stream, Fetching, FetchAnswered, FetchFailed, FetchDelivered, service
<1>t. /\ fetch \in Seq(Fetch) /\ fetch[c] \in Fetch /\ Len(net) \in Nat
      /\ fetch[c].behind \in Nat /\ store \in Store
  <2>1. fetch \in Seq(Fetch) /\ fetch[c] \in Fetch /\ Len(net) \in Nat
    BY <1>f DEF TypeInv, WireTypes
  <2> QED BY <2>1 DEF Fetch, TypeInv, PageTypes
<1>b. \A i \in DOMAIN B : B[i] \in Views /\ IsView(B[i]) /\ B[i].round \in Nat
  BY <1>f, ChainFacts
<1>1. Chain(B)'
  <2>1. Told(B[Len(net) + 1])'
    BY <1>f, ChainFacts DEF Told, ActualView
  <2> QED BY <1>f, <2>1, ChainStays
<1>g. \E f : /\ fetch' = [fetch EXCEPT ![c] = f]
             /\ \/ f.step = "over"
                \/ f.behind = Len(net) /\ \A i \in DOMAIN B : Precedes(B[i], f)
  <2>1. CASE FetchAnswered(c)
    <3> DEFINE f == [step |-> "answered", round |-> current, state |-> Lower[round.state],
                     multiplier |-> round.multiplier, behind |-> Len(net), fresh |-> TRUE]
    <3>1. f.behind = Len(net) /\ fetch' = [fetch EXCEPT ![c] = f]
      BY <2>1 DEF FetchAnswered
    <3>2. \A i \in DOMAIN B : Precedes(B[i], f)
      <4>1. f.round = ActualView.round /\ f.state = ActualView.state
            /\ f.multiplier = ActualView.multiplier
        BY CurrentViews
      <4> HIDE DEF f, ActualView
      <4> QED BY <1>f, <4>1 DEF Chain, Precedes
    <3> QED BY <3>1, <3>2
  <2>2. CASE FetchFailed(c) \/ FetchDelivered(c)
    BY <2>2, RequestRecords DEF FetchFailed, FetchDelivered
  <2> QED BY <2>1, <2>2 DEF Fetching
<1>2. AnswersFollow(B)'
  <2>1. PICK f : /\ fetch' = [fetch EXCEPT ![c] = f]
                 /\ \/ f.step = "over"
                    \/ f.behind = Len(net) /\ \A i \in DOMAIN B : Precedes(B[i], f)
    BY <1>g
  <2>2. DOMAIN fetch' = DOMAIN fetch /\ fetch'[c] = f
        /\ \A d \in DOMAIN fetch : d # c => fetch'[d] = fetch[d]
    BY <1>f, <1>t, <2>1
  <2>3. \A i \in 1 .. Len(net) + 1 : i \in DOMAIN B
    BY <1>f, ChainFacts
  <2> HIDE DEF Precedes
  <2> QED BY <1>f, <2>1, <2>2, <2>3 DEF AnswersFollow
<1>3. PageFollows(B[1])'
  <2>1. CASE FetchAnswered(c) \/ FetchFailed(c)
    <3>1. UNCHANGED <<ref, store, informed>>
      BY <2>1 DEF FetchAnswered, FetchFailed, page
    <3> QED BY <1>f, <3>1, PageStays
  <2>2. CASE FetchDelivered(c)
    <3> SUFFICES ASSUME informed'
                 PROVE  link' = "up" /\ Precedes(B[1], PageView') /\ Precedes(PageView', ActualView')
      BY DEF PageFollows
    <3>1. /\ fetch[c].step = "answered" /\ fetch[c].fresh /\ link = "up" /\ ref' = fetch[c].round
          /\ store' = [store EXCEPT !.state = fetch[c].state, !.multiplier = fetch[c].multiplier]
      BY <2>2 DEF FetchDelivered
    <3>2. fetch[c].multiplier >= One /\ fetch[c].multiplier \in Nat
      BY <1>f, <1>t, <3>1 DEF TypeInv, WireTypes, Fetch
    <3>3. /\ PageView'.round = fetch[c].round /\ PageView'.state = fetch[c].state
          /\ PageView'.multiplier = fetch[c].multiplier
      <4>1. store'.state = fetch[c].state /\ store'.multiplier = fetch[c].multiplier
        BY <1>t, <3>1 DEF Store
      <4> QED BY <3>1, <3>2, <4>1 DEF PageView, View, AskedMultiplier
    <3>4. Precedes(B[1], fetch[c])
      <4>1. 1 \in 1 .. fetch[c].behind + 1
        BY <1>t
      <4> HIDE DEF Precedes
      <4> QED BY <1>f, <3>1, <4>1 DEF AnswersFollow
    <3>5. Precedes(fetch[c], ActualView')
      <4>1. Precedes(fetch[c], ActualView) /\ IsView(fetch[c])
        BY <1>f, <1>t, <3>1, ViewTypes DEF WireInv
      <4> HIDE DEF Precedes, ActualView, IsView
      <4> QED BY <4>1, StaysBehind
    <3>6. Precedes(B[1], PageView') /\ Precedes(PageView', ActualView')
      <4> HIDE DEF PageView, ActualView
      <4> QED BY <3>3, <3>4, <3>5 DEF Precedes
    <3> QED BY <1>f, <3>1, <3>6
  <2> QED BY <2>1, <2>2 DEF Fetching
<1>4. RowsFollow(B)'
  <2>1. store'.bets = store.bets
    BY <1>t DEF Fetching, FetchAnswered, FetchFailed, FetchDelivered, page, Store
  <2>2. Len(fetch') = Len(fetch)
    BY <1>g, <1>t
  <2> QED BY <1>f, <1>b, <2>1, <2>2, RowsStay
<1> QED BY <1>1, <1>2, <1>3, <1>4 DEF Stream

\* An event arrives: it takes the page one view further.
LEMMA StreamAdvances ==
  ASSUME TypeInv, RoundInv, [Next]_vars, NEW B, Stream(B), NEW type, Receive(type)
  PROVE  \E C : /\ Chain(C)' /\ AnswersFollow(C)'
                /\ C[1] = After(B[1], Head(net)) /\ Fits(B[1], Head(net))
                /\ \A i \in DOMAIN C : i + 1 \in DOMAIN B /\ C[i] = B[i + 1]
                /\ 1 \in DOMAIN C /\ 1 \in DOMAIN B
                /\ \A i \in DOMAIN B : B[i].round \in Nat
                /\ \A i \in DOMAIN B : B[1].round <= B[i].round
<1>n. PICK n : n = Len(net)
  OBVIOUS
<1>c0. PICK C : C = Tail(B)
  OBVIOUS
<1>f. /\ Chain(B) /\ AnswersFollow(B)
      /\ net # << >> /\ net' = Tail(net) /\ UNCHANGED <<current, round, announcing>>
      /\ fetch' = [c \in DOMAIN fetch |->
                     IF fetch[c].behind = 0 THEN Stale(fetch[c])
                                            ELSE [fetch[c] EXCEPT !.behind = @ - 1]]
  BY DEF Stream, Receive, service
<1>b. /\ B \in Seq(Views) /\ n \in Nat /\ Len(B) = n + 1 /\ Len(net) = n
      /\ DOMAIN B = 1 .. n + 1 /\ DOMAIN net = 1 .. n
      /\ \A i \in DOMAIN B : IsView(B[i]) /\ B[i].round \in Nat
      /\ Told(B[n + 1])
  BY <1>n, <1>f, ChainFacts
<1>m. /\ Len(net') = n - 1 /\ n >= 1 /\ Head(net) = net[1] /\ DOMAIN net' = 1 .. n - 1
      /\ \A i \in DOMAIN net' : i + 1 \in DOMAIN net /\ net'[i] = net[i + 1]
  <2>1. net \in Seq(Event)
    BY DEF TypeInv, WireTypes
  <2>2. net' \in Seq(Event) /\ Len(net') = n - 1 /\ n >= 1 /\ Head(net) = net[1]
    BY <1>f, <1>b, <2>1, TailFacts
  <2>3. DOMAIN net' = 1 .. n - 1
    BY <2>2
  <2>4. ASSUME NEW i \in DOMAIN net' PROVE i + 1 \in DOMAIN net /\ net'[i] = net[i + 1]
    <3>1. i \in DOMAIN Tail(net)
      BY <1>f
    <3>2. i + 1 \in DOMAIN net /\ Tail(net)[i] = net[i + 1]
      BY <1>f, <2>1, <3>1, TailFacts
    <3> QED BY <1>f, <3>2
  <2> QED BY <2>2, <2>3, <2>4
<1>c. /\ C \in Seq(Views) /\ Len(C) = n /\ DOMAIN C = 1 .. n
      /\ \A i \in DOMAIN C : i + 1 \in DOMAIN B /\ C[i] = B[i + 1]
  <2>1. B # << >>
    BY <1>b
  <2>2. C \in Seq(Views) /\ Len(C) = n
    BY <1>c0, <1>b, <2>1, TailFacts
  <2> QED BY <1>c0, <1>b, <2>1, <2>2, TailFacts
<1>1. Chain(C)'
  <2>1. \A i \in DOMAIN net' : Fits(C[i], net'[i]) /\ C[i + 1] = After(C[i], net'[i])
    <3> SUFFICES ASSUME NEW i \in DOMAIN net'
                 PROVE  Fits(C[i], net'[i]) /\ C[i + 1] = After(C[i], net'[i])
      OBVIOUS
    <3>1. C[i] = B[i + 1] /\ C[i + 1] = B[(i + 1) + 1] /\ net'[i] = net[i + 1] /\ i + 1 \in DOMAIN net
      BY <1>b, <1>c, <1>m
    <3>2. Fits(B[i + 1], net[i + 1]) /\ B[(i + 1) + 1] = After(B[i + 1], net[i + 1])
      BY <1>f, <3>1 DEF Chain
    <3> HIDE DEF Fits, After
    <3> QED BY <3>1, <3>2
  <2>2. \A i \in DOMAIN C : Precedes(C[i], ActualView')
    <3> SUFFICES ASSUME NEW i \in DOMAIN C PROVE Precedes(C[i], ActualView')
      OBVIOUS
    <3>1. i + 1 \in DOMAIN B /\ C[i] = B[i + 1]
      BY <1>c
    <3>2. IsView(B[i + 1]) /\ Precedes(B[i + 1], ActualView)
      BY <1>f, <1>b, <3>1 DEF Chain
    <3> HIDE DEF IsView, Precedes, ActualView
    <3> QED BY <3>1, <3>2, StaysBehind
  <2>3. \A i, j \in DOMAIN C : i <= j => C[i].round <= C[j].round
    <3>1. \A i, j \in DOMAIN B : i <= j => B[i].round <= B[j].round
      BY <1>f DEF Chain
    <3> SUFFICES ASSUME NEW i \in DOMAIN C, NEW j \in DOMAIN C, i <= j
                 PROVE  C[i].round <= C[j].round
      OBVIOUS
    <3>2. /\ i + 1 \in DOMAIN B /\ j + 1 \in DOMAIN B /\ i + 1 <= j + 1
          /\ C[i] = B[i + 1] /\ C[j] = B[j + 1]
      BY <1>b, <1>c
    <3> QED BY <3>1, <3>2
  <2>4. Told(C[Len(C)])'
    <3>1. C[Len(C)] = B[n + 1]
      BY <1>b, <1>c, <1>m
    <3>2. Told(B[n + 1])'
      BY <1>b, <1>f DEF Told, ActualView
    <3> QED BY <3>1, <3>2
  <2>5. Len(C) = Len(net') + 1
    BY <1>c, <1>m, <1>b
  <2> HIDE DEF Told, Fits, After, Precedes, ActualView
  <2> QED BY <1>c, <2>1, <2>2, <2>3, <2>4, <2>5 DEF Chain
<1>2. AnswersFollow(C)'
  <2> SUFFICES ASSUME NEW c \in DOMAIN fetch', fetch'[c].step = "answered" /\ fetch'[c].fresh,
                      NEW i \in 1 .. fetch'[c].behind + 1
               PROVE  Precedes(C[i], fetch'[c])
    BY DEF AnswersFollow
  <2>1. c \in DOMAIN fetch /\ fetch[c] \in Fetch /\ fetch[c].behind <= n
    BY <1>f, <1>n DEF TypeInv, WireTypes
  <2>2. fetch[c].behind # 0
    BY <1>f, <2>1, StaleFacts
  <2>3. fetch[c].behind \in Nat /\ fetch'[c] = [fetch[c] EXCEPT !.behind = fetch[c].behind - 1]
    BY <1>f, <2>1, <2>2 DEF Fetch
  <2>4. /\ fetch'[c].behind = fetch[c].behind - 1 /\ fetch'[c].step = fetch[c].step
        /\ fetch'[c].fresh = fetch[c].fresh /\ fetch'[c].round = fetch[c].round
        /\ fetch'[c].state = fetch[c].state /\ fetch'[c].multiplier = fetch[c].multiplier
    BY <2>1, <2>3 DEF Fetch
  <2>5. i \in 1 .. fetch[c].behind /\ i + 1 \in 1 .. fetch[c].behind + 1
    BY <2>3, <2>4
  <2>6. Precedes(B[i + 1], fetch[c])
    BY <1>f, <2>1, <2>4, <2>5 DEF AnswersFollow
  <2>7. C[i] = B[i + 1]
    BY <1>c, <1>b, <2>1, <2>3, <2>5
  <2> QED BY <2>4, <2>6, <2>7 DEF Precedes
<1>3. C[1] = After(B[1], Head(net)) /\ Fits(B[1], Head(net))
  <2>1. 1 \in DOMAIN net /\ C[1] = B[1 + 1] /\ Head(net) = net[1]
    BY <1>b, <1>c, <1>m
  <2> HIDE DEF Fits, After
  <2> QED BY <1>f, <2>1 DEF Chain
<1>4. 1 \in DOMAIN C /\ 1 \in DOMAIN B /\ \A i \in DOMAIN B : B[1].round <= B[i].round
  <2>1. 1 \in DOMAIN C /\ 1 \in DOMAIN B
    BY <1>b, <1>c, <1>m
  <2>2. ASSUME NEW i \in DOMAIN B PROVE B[1].round <= B[i].round
    <3>1. 1 <= i
      BY <1>b
    <3>2. \A k, j \in DOMAIN B : k <= j => B[k].round <= B[j].round
      BY <1>f DEF Chain
    <3> QED BY <2>1, <3>1, <3>2
  <2> QED BY <2>1, <2>2
<1> QED BY <1>1, <1>2, <1>3, <1>4, <1>b, <1>c

\* A page that is not set back handles an event and is not set back: it shows what
\* the event said, or already showed something newer.
LEMMA HandledPage ==
  ASSUME TypeInv, RoundInv, [Next]_vars, Handle, NEW v \in Views, NEW e, e = Head(net),
         Fits(v, e), PageFollows(v), Precedes(After(v, e), ActualView')
  PROVE  PageFollows(After(v, e))'
<1>w. PICK w : w = After(v, e)
  OBVIOUS
<1> SUFFICES ASSUME informed'
             PROVE  link' = "up" /\ Precedes(w, PageView') /\ Precedes(PageView', ActualView')
  BY <1>w DEF PageFollows
<1>t. /\ net # << >> /\ e \in Event /\ link' = link /\ link = "up"
      /\ e.type \in {"state-changed", "multiplier-updated", "bet-placed", "bet-cashed-out", "crashed"}
      /\ store \in Store /\ One \in Nat
  <2>1. /\ e.type \in {"state-changed", "multiplier-updated", "bet-placed", "bet-cashed-out", "crashed"}
        /\ Receive(e.type)
    BY DEF Handle, StateChanged, MultiplierUpdated, BetPlaced, BetCashedOut, Crashed, Receive
  <2> QED BY <2>1, HeadFacts DEF TypeInv, WireTypes, PageTypes
<1>e. /\ IsView(e) /\ e.round \in Nat /\ e.state \in Shown /\ e.multiplier \in Nat
      /\ w \in Views /\ IsView(w) /\ v.round \in Nat /\ w.round \in Nat
      /\ Rank[v.state] \in Nat /\ Rank[w.state] \in Nat /\ v.multiplier \in Nat
  <2>1. IsView(e) /\ e.round \in Nat /\ e.state \in Shown /\ w \in Views /\ IsView(w) /\ IsView(v)
    BY <1>w, <1>t, ViewTypes
  <2> QED BY <2>1, RankFacts DEF IsView
<1>a. /\ Precedes(w, ActualView') /\ Precedes(v, w)
      /\ ActualView'.round \in Nat /\ Rank[ActualView'.state] \in Nat
      /\ ActualView'.multiplier \in Nat
  BY <1>w, NextViews, RankFacts DEF IsView, Fits
<1>p. /\ ref \in Nat /\ store.state \in Shown \cup {"null"} /\ AskedMultiplier \in Nat
      /\ AskedMultiplier >= One /\ Rank[store.state] \in Nat
  BY CurrentViews, RankFacts DEF IsView
<1>i. ASSUME informed
      PROVE  /\ v.round < ref \/ (v.round = ref /\ Rank[v.state] <= Rank[store.state]
                                  /\ v.multiplier <= AskedMultiplier)
             /\ \/ ref < ActualView'.round
                \/ /\ ref = ActualView'.round /\ Rank[store.state] <= Rank[ActualView'.state]
                   /\ AskedMultiplier <= ActualView'.multiplier
  <2>1. Precedes(v, PageView) /\ Precedes(PageView, ActualView) /\ IsView(PageView)
    BY <1>i, CurrentViews DEF PageFollows
  <2>2. Precedes(PageView, ActualView')
    <3> HIDE DEF PageView, ActualView, IsView, Precedes
    <3> QED BY <2>1, StaysBehind
  <2>3. PageView.round = ref /\ PageView.state = store.state /\ PageView.multiplier = AskedMultiplier
    BY CurrentViews
  <2> HIDE DEF PageView, ActualView, AskedMultiplier
  <2> QED BY <2>1, <2>2, <2>3 DEF Precedes
<1>q. PageView'.round = ref' /\ PageView'.state = store'.state
      /\ PageView'.multiplier = AskedMultiplier'
  BY NextViews
<1>1. CASE StateChanged /\ e.state = "betting"
  <2>1. ref' = e.round /\ store'.state = "betting" /\ store'.multiplier = 0
    BY <1>1, <1>t DEF StateChanged, Store
  <2>2. w = View(e.round, "betting", One)
    BY <1>1, <1>w DEF StateChanged, Receive, After
  <2>3. PageView' = w
    BY <2>1, <2>2 DEF PageView, View, AskedMultiplier
  <2> HIDE DEF PageView, ActualView, IsView, Precedes
  <2> QED BY <1>t, <1>e, <1>a, <2>3, PrecedesReflexive
<1>2. CASE StateChanged /\ e.state # "betting"
  <2>1. /\ ref' = e.round /\ store'.state = e.state /\ store'.multiplier = store.multiplier
        /\ e.type = "state-changed" /\ informed
    BY <1>2, <1>t DEF StateChanged, Receive, Store
  <2>2. e.state = "running" /\ v.round = e.round /\ w = View(e.round, "running", One)
    BY <1>2, <1>w, <2>1 DEF Fits, After
  <2>3. AskedMultiplier' = AskedMultiplier
    BY <2>1 DEF AskedMultiplier
  <2>4. w.round = e.round /\ w.state = "running" /\ w.multiplier = One
    BY <2>2 DEF View
  <2> HIDE DEF PageView, ActualView, AskedMultiplier, IsView
  <2>5. Precedes(w, PageView')
    BY <1>q, <1>p, <2>1, <2>2, <2>3, <2>4, RankFacts DEF Precedes
  <2>6. Precedes(PageView', ActualView')
    BY <1>q, <1>p, <1>i, <1>a, <1>e, <2>1, <2>2, <2>3, <2>4, RankFacts DEF Precedes
  <2> QED BY <1>t, <2>5, <2>6
<1>3. CASE MultiplierUpdated
  <2>1. /\ e.type = "multiplier-updated" /\ ref' = ref /\ informed
        /\ store' = IF e.round # ref THEN store ELSE [store EXCEPT !.multiplier = e.multiplier]
    BY <1>3 DEF MultiplierUpdated, Receive, ForAnotherRound
  <2>2. /\ v.round = e.round /\ v.state = "running"
        /\ w.round = e.round /\ w.state = "running" /\ w.multiplier = e.multiplier
    BY <1>w, <2>1 DEF Fits, After, View
  <2>3. e.multiplier >= One
    BY <1>t DEF TypeInv, WireTypes
  <2>4. CASE e.round # ref
    <3>1. AskedMultiplier' = AskedMultiplier /\ store'.state = store.state
      BY <2>1, <2>4 DEF AskedMultiplier
    <3> HIDE DEF PageView, ActualView, AskedMultiplier, IsView
    <3>2. Precedes(w, PageView') /\ Precedes(PageView', ActualView')
      BY <1>q, <1>p, <1>i, <1>a, <1>e, <2>1, <2>2, <2>4, <3>1 DEF Precedes
    <3> QED BY <1>t, <3>2
  <2>5. CASE e.round = ref
    <3>1. AskedMultiplier' = e.multiplier /\ store'.state = store.state
      BY <1>t, <1>e, <2>1, <2>3, <2>5 DEF AskedMultiplier, Store
    <3> HIDE DEF PageView, ActualView, AskedMultiplier, IsView
    <3>2. Precedes(w, PageView') /\ Precedes(PageView', ActualView')
      BY <1>q, <1>p, <1>i, <1>a, <1>e, <2>1, <2>2, <2>5, <3>1 DEF Precedes
    <3> QED BY <1>t, <3>2
  <2> QED BY <2>4, <2>5
<1>4. CASE BetPlaced \/ BetCashedOut
  <2>1. /\ e.type \in {"bet-placed", "bet-cashed-out"} /\ ref' = ref /\ informed
        /\ store'.state = store.state /\ store'.multiplier = store.multiplier
    BY <1>4, <1>t DEF BetPlaced, BetCashedOut, Receive, Store
  <2>2. w = v /\ AskedMultiplier' = AskedMultiplier
    BY <1>w, <2>1 DEF After, AskedMultiplier
  <2> HIDE DEF PageView, ActualView, AskedMultiplier, IsView
  <2>3. Precedes(w, PageView') /\ Precedes(PageView', ActualView')
    BY <1>q, <1>p, <1>i, <1>a, <1>e, <2>1, <2>2 DEF Precedes
  <2> QED BY <1>t, <2>3
<1>5. CASE Crashed
  <2>1. /\ e.type = "crashed" /\ ref' = ref /\ informed
        /\ e.round # ref => store' = store
        /\ e.round = ref => store'.state = "crashed" /\ store'.multiplier = e.multiplier
    BY <1>5, <1>t DEF Crashed, Receive, ForAnotherRound, Store
  <2>2. /\ v.round = e.round
        /\ w.round = e.round /\ w.state = "crashed" /\ w.multiplier = e.multiplier
    BY <1>w, <2>1 DEF Fits, After, View
  <2>3. e.multiplier >= One
    BY <1>t DEF TypeInv, WireTypes
  <2>4. CASE e.round # ref
    <3>1. AskedMultiplier' = AskedMultiplier /\ store'.state = store.state
      BY <2>1, <2>4 DEF AskedMultiplier
    <3> HIDE DEF PageView, ActualView, AskedMultiplier, IsView
    <3>2. Precedes(w, PageView') /\ Precedes(PageView', ActualView')
      BY <1>q, <1>p, <1>i, <1>a, <1>e, <2>1, <2>2, <2>4, <3>1 DEF Precedes
    <3> QED BY <1>t, <3>2
  <2>5. CASE e.round = ref
    <3>1. AskedMultiplier' = e.multiplier
      BY <1>e, <2>1, <2>3, <2>5 DEF AskedMultiplier
    <3> HIDE DEF PageView, ActualView, AskedMultiplier, IsView
    <3>2. Precedes(w, PageView') /\ Precedes(PageView', ActualView')
      BY <1>q, <1>a, <1>e, <2>1, <2>2, <2>5, <3>1, RankFacts DEF Precedes
    <3> QED BY <1>t, <3>2
  <2> QED BY <2>4, <2>5
<1> QED BY <1>1, <1>2, <1>3, <1>4, <1>5 DEF Handle

\* The rows stay true when an event is handled.
LEMMA HandledRows ==
  ASSUME TypeInv, WireInv, [Next]_vars, Handle, NEW B, NEW C, RowsFollow(B),
         C[1] = After(B[1], Head(net)), Fits(B[1], Head(net)),
         \A i \in DOMAIN C : i + 1 \in DOMAIN B /\ C[i] = B[i + 1],
         1 \in DOMAIN C, 1 \in DOMAIN B,
         \A i \in DOMAIN B : B[i].round \in Nat,
         \A i \in DOMAIN B : B[1].round <= B[i].round
  PROVE  RowsFollow(C)'
<1>e. PICK e : e = Head(net)
  OBVIOUS
<1>t. /\ net # << >> /\ e \in Event /\ e = net[1] /\ 1 \in DOMAIN net
      /\ UNCHANGED <<bets, link>> /\ store \in Store /\ Len(fetch') = Len(fetch)
  <2>1. \E type : Receive(type)
    BY DEF Handle, StateChanged, MultiplierUpdated, BetPlaced, BetCashedOut, Crashed
  <2>2. fetch \in Seq(Fetch) /\ store \in Store /\ WireTypes
    BY DEF TypeInv, WireTypes, PageTypes
  <2>3. Len(fetch') = Len(fetch)
    BY <2>1, <2>2 DEF Receive
  <2> QED BY <1>e, <2>1, <2>2, <2>3, HeadFacts
<1>c. /\ \A i \in DOMAIN C : C[i].round \in Nat /\ B[1].round <= C[i].round
      /\ \A i \in DOMAIN C : \E j \in DOMAIN B : B[j].round <= C[i].round /\ B[j].round \in Nat
  OBVIOUS
<1>1. CASE StateChanged /\ e.state = "betting"
  <2>1. store'.bets = [b \in Bet |-> "absent"]
    BY <1>1, <1>e, <1>t DEF StateChanged, Store
  <2> QED BY <2>1 DEF RowsFollow
<1>2. ASSUME C[1].round = B[1].round,
             \A x \in Bet : store'.bets[x] = "cashed" => store.bets[x] = "cashed"
      PROVE  RowsFollow(C)'
  BY <1>2, <1>t, <1>c, RowsStay
<1>3. CASE StateChanged /\ e.state # "betting"
  <2>1. store'.bets = store.bets /\ e.type = "state-changed"
    BY <1>3, <1>e, <1>t DEF StateChanged, Receive, Store
  <2>2. C[1].round = B[1].round
    BY <1>3, <1>e, <2>1 DEF Fits, After, View
  <2> QED BY <1>2, <2>1, <2>2
<1>4. CASE MultiplierUpdated \/ Crashed
  <2>1. store'.bets = store.bets /\ e.type \in {"multiplier-updated", "crashed"}
    BY <1>4, <1>e, <1>t DEF MultiplierUpdated, Crashed, Receive, Store
  <2>2. C[1].round = B[1].round
    BY <1>e, <2>1 DEF Fits, After, View
  <2> QED BY <1>2, <2>1, <2>2
<1>5. CASE BetPlaced
  <2>1. e.type = "bet-placed"
    BY <1>5, <1>e DEF BetPlaced, Receive
  <2>2. C[1].round = B[1].round
    BY <1>e, <2>1 DEF After
  <2>3. \/ store' = store
        \/ store' = [store EXCEPT !.bets = [store.bets EXCEPT ![e.bet] = "pending"]]
    BY <1>5, <1>e DEF BetPlaced
  <2>4. \A x \in Bet : store'.bets[x] = "cashed" => store.bets[x] = "cashed"
    BY <1>t, <2>3 DEF Store
  <2> QED BY <1>2, <2>2, <2>4
<1>6. CASE BetCashedOut
  <2>1. e.type = "bet-cashed-out"
    BY <1>6, <1>e DEF BetCashedOut, Receive
  <2>2. C[1].round = B[1].round /\ B[1].round = e.round
    BY <1>e, <2>1 DEF Fits, After
  <2>3. e.bet \in Bet /\ bets[e.bet].state = "CASHED_OUT" /\ bets[e.bet].round = e.round
    BY <1>t, <2>1 DEF WireInv
  <2>4. \/ store' = store
        \/ store' = [store EXCEPT !.bets = [store.bets EXCEPT ![e.bet] = "cashed"]]
    BY <1>6, <1>e DEF BetCashedOut
  <2> SUFFICES ASSUME NEW x \in Bet, store'.bets[x] = "cashed"
               PROVE  /\ bets'[x].state = "CASHED_OUT"
                      /\ \A i \in DOMAIN C : bets'[x].round <= C[i].round
                      /\ Len(fetch') <= 1 /\ link' = "up" => bets'[x].round = C[1].round
    BY DEF RowsFollow
  <2>5. CASE x = e.bet
    BY <1>t, <1>c, <2>2, <2>3, <2>5
  <2>6. CASE store.bets[x] = "cashed"
    <3>1. /\ bets[x].state = "CASHED_OUT"
          /\ \A i \in DOMAIN B : bets[x].round <= B[i].round
          /\ Len(fetch) <= 1 /\ link = "up" => bets[x].round = B[1].round
      BY <2>6 DEF RowsFollow
    <3> QED BY <1>t, <2>2, <3>1
  <2>7. x = e.bet \/ store.bets[x] = "cashed"
    BY <1>t, <2>4 DEF Store
  <2> QED BY <2>5, <2>6, <2>7
<1> QED BY <1>1, <1>3, <1>4, <1>5, <1>6 DEF Handle

\* An event is handled.
LEMMA StreamHandles ==
  ASSUME TypeInv, RoundInv, WireInv, [Next]_vars, NEW B, Stream(B), Handle
  PROVE  \E C : Stream(C)'
<1>1. PICK type : Receive(type)
  BY DEF Handle, StateChanged, MultiplierUpdated, BetPlaced, BetCashedOut, Crashed
<1>2. PICK C : /\ Chain(C)' /\ AnswersFollow(C)'
               /\ C[1] = After(B[1], Head(net)) /\ Fits(B[1], Head(net))
               /\ \A i \in DOMAIN C : i + 1 \in DOMAIN B /\ C[i] = B[i + 1]
               /\ 1 \in DOMAIN C /\ 1 \in DOMAIN B
               /\ \A i \in DOMAIN B : B[i].round \in Nat
               /\ \A i \in DOMAIN B : B[1].round <= B[i].round
  BY <1>1, StreamAdvances
<1>3. PageFollows(B[1]) /\ RowsFollow(B) /\ Chain(B)
  BY DEF Stream
<1>4. PageFollows(C[1])'
  <2>1. PICK e : e = Head(net)
    OBVIOUS
  <2>2. PICK v : v = B[1]
    OBVIOUS
  <2>3. v \in Views
    BY <1>3, <2>2, ChainFacts
  <2>4. Precedes(C[1], ActualView')
    BY <1>2 DEF Chain
  <2>5. C[1] = After(v, e) /\ Fits(v, e) /\ PageFollows(v)
    BY <1>2, <1>3, <2>1, <2>2
  <2>6. PageFollows(After(v, e))'
    <3> HIDE DEF Precedes, ActualView, Fits, After, PageFollows
    <3>1. Precedes(After(v, e), ActualView')
      BY <2>4, <2>5
    <3> QED BY <2>1, <2>3, <2>5, <3>1, HandledPage
  <2> QED BY <2>5, <2>6 DEF PageFollows, After
<1>5. RowsFollow(C)'
  BY <1>2, <1>3, HandledRows
<1> QED BY <1>2, <1>4, <1>5 DEF Stream

\* Every step leads from a stream to a stream.
LEMMA StreamInvStep ==
  TypeInv /\ RoundInv /\ RequestInv /\ WireInv /\ StreamInv /\ [Next]_vars => StreamInv'
<1> SUFFICES ASSUME TypeInv, RoundInv, RequestInv, WireInv, StreamInv, [Next]_vars
             PROVE  \E C : Stream(C)'
  BY DEF StreamInv
<1>b. PICK B : Stream(B)
  BY DEF StreamInv
<1>1. ASSUME NEW e, Sent(e), Emit(e), UNCHANGED <<link, page, informed>>
      PROVE  \E C : Stream(C)'
  BY <1>b, <1>1, StreamGrows, StreamLoses
<1>2. CASE Connect \/ Disconnect
  BY <1>b, <1>2, StreamReconnects
<1>3. CASE LinkBreaks
  BY <1>b, <1>3, StreamBreaks
<1>4. CASE \E c \in 1 .. MaxConnections : Fetching(c)
  BY <1>b, <1>4, StreamAnswers
<1>5. CASE Handle
  BY <1>b, <1>5, StreamHandles
<1>6. CASE NewRound \/ \E c \in CrashMultiplier : StartRound(c)
  BY <1>b, <1>6, StreamSilent
<1>7. CASE /\ UNCHANGED <<current, round, announcing, link, net, fetch, ref, informed>>
           /\ store' = store \/ store' = [store EXCEPT !.myBetId = call.bet]
  BY <1>b, <1>7, StreamRests
<1> QED BY <1>1, <1>2, <1>3, <1>4, <1>5, <1>6, <1>7, StreamFrame

\* The page has been told nothing of the first round.
LEMMA StreamInvInit == Init => StreamInv
<1> SUFFICES ASSUME Init PROVE \E B : Stream(B)
  BY DEF StreamInv
<1>1. TypeInv
  BY TypeInvInit
<1>2. PICK v : v = ActualView
  OBVIOUS
<1>3. PICK B : B = <<v>>
  OBVIOUS
<1>4. net = << >> /\ fetch = << >> /\ ~ announcing /\ ~ informed
      /\ \A x \in Bet : store.bets[x] = "absent"
  BY DEF Init
<1>5. v \in Views /\ Told(v) /\ Precedes(v, ActualView) /\ v.round \in Nat
  BY <1>1, <1>2, <1>4, CurrentViews, PrecedesReflexive DEF Told, Views
<1>6. /\ B \in Seq(Views) /\ Len(B) = 1 /\ DOMAIN B = {1} /\ B[1] = v
      /\ Len(net) = 0 /\ DOMAIN net = {} /\ DOMAIN fetch = {}
  BY <1>3, <1>4, <1>5
<1>7. Chain(B)
  <2> HIDE DEF Told, Precedes, ActualView
  <2> QED BY <1>5, <1>6 DEF Chain
<1> QED BY <1>4, <1>6, <1>7 DEF Stream, AnswersFollow, PageFollows, RowsFollow

\* Connections are counted, and answers keep what they say.
LEMMA AnswersKept ==
  ASSUME TypeInv, [Next]_vars
  PROVE  /\ Len(fetch') >= Len(fetch)
         /\ \A c \in DOMAIN fetch' : fetch'[c].step = "answered" =>
              \/ /\ c \in DOMAIN fetch /\ fetch[c].step = "answered"
                 /\ fetch'[c].round = fetch[c].round /\ fetch'[c].state = fetch[c].state
                 /\ fetch'[c].multiplier = fetch[c].multiplier
              \/ /\ fetch'[c].round = current /\ fetch'[c].state = Lower[round.state]
                 /\ fetch'[c].multiplier = round.multiplier
                 /\ UNCHANGED <<current, round>>
<1>t. /\ WireTypes /\ fetch \in Seq(Fetch) /\ Len(fetch) \in Nat
      /\ \A c \in DOMAIN fetch : fetch[c] \in Fetch
  BY DEF TypeInv, WireTypes
<1>k. ASSUME DOMAIN fetch' = DOMAIN fetch, Len(fetch') = Len(fetch),
             \A c \in DOMAIN fetch :
               \/ fetch'[c] = fetch[c]
               \/ /\ fetch'[c].round = fetch[c].round /\ fetch'[c].state = fetch[c].state
                  /\ fetch'[c].multiplier = fetch[c].multiplier
                  /\ fetch'[c].step = fetch[c].step
      PROVE  /\ Len(fetch') >= Len(fetch)
             /\ \A c \in DOMAIN fetch' : fetch'[c].step = "answered" =>
                  /\ c \in DOMAIN fetch /\ fetch[c].step = "answered"
                  /\ fetch'[c].round = fetch[c].round /\ fetch'[c].state = fetch[c].state
                  /\ fetch'[c].multiplier = fetch[c].multiplier
  BY <1>t, <1>k
<1>1. ASSUME NEW e, Emit(e)
      PROVE  /\ DOMAIN fetch' = DOMAIN fetch /\ Len(fetch') = Len(fetch)
             /\ \A c \in DOMAIN fetch :
                  \/ fetch'[c] = fetch[c]
                  \/ /\ fetch'[c].round = fetch[c].round /\ fetch'[c].state = fetch[c].state
                     /\ fetch'[c].multiplier = fetch[c].multiplier
                     /\ fetch'[c].step = fetch[c].step
  <2>1. CASE fetch' = fetch
    BY <2>1
  <2>2. CASE fetch' = [c \in DOMAIN fetch |-> Stale(fetch[c])]
    <3>1. DOMAIN fetch' = DOMAIN fetch /\ Len(fetch') = Len(fetch)
      BY <1>t, <2>2
    <3>2. ASSUME NEW c \in DOMAIN fetch
          PROVE  /\ fetch'[c].round = fetch[c].round /\ fetch'[c].state = fetch[c].state
                 /\ fetch'[c].multiplier = fetch[c].multiplier
                 /\ fetch'[c].step = fetch[c].step
      <4>1. fetch'[c] = Stale(fetch[c]) /\ fetch[c] \in Fetch
        BY <1>t, <2>2
      <4> QED BY <4>1, StaleFacts
    <3> QED BY <3>1, <3>2
  <2> QED BY <1>1, <2>1, <2>2 DEF Emit
<1>2. CASE Connect
  <2>1. fetch' = Append(fetch, Asked)
    BY <1>2 DEF Connect
  <2>2. Len(fetch') = Len(fetch) + 1
    BY <1>t, <2>1
  <2>3. \A c \in DOMAIN fetch' :
          fetch'[c].step = "asked" \/ (c \in DOMAIN fetch /\ fetch'[c] = fetch[c])
    BY <1>t, <2>1 DEF Asked
  <2> QED BY <1>t, <2>2, <2>3
<1>3. CASE LinkBreaks
  <2>1. fetch' = [c \in DOMAIN fetch |->
                    [(IF Len(net) > fetch[c].behind THEN Stale(fetch[c]) ELSE fetch[c])
                       EXCEPT !.behind = 0]]
    BY <1>3 DEF LinkBreaks
  <2>2. ASSUME NEW c \in DOMAIN fetch
        PROVE  /\ fetch'[c].round = fetch[c].round /\ fetch'[c].state = fetch[c].state
               /\ fetch'[c].multiplier = fetch[c].multiplier
               /\ fetch'[c].step = fetch[c].step
    <3> DEFINE f == IF Len(net) > fetch[c].behind THEN Stale(fetch[c]) ELSE fetch[c]
    <3>1. /\ f \in Fetch /\ f.round = fetch[c].round /\ f.state = fetch[c].state
          /\ f.multiplier = fetch[c].multiplier /\ f.step = fetch[c].step
      BY <1>t, StaleFacts
    <3>2. fetch'[c] = [f EXCEPT !.behind = 0]
      BY <2>1
    <3> HIDE DEF f
    <3> QED BY <3>1, <3>2 DEF Fetch
  <2>3. DOMAIN fetch' = DOMAIN fetch /\ Len(fetch') = Len(fetch)
    BY <1>t, <2>1
  <2> QED BY <1>k, <2>2, <2>3
<1>4. CASE Disconnect
  BY <1>k, <1>t, <1>4 DEF Disconnect
<1>5. ASSUME NEW c \in 1 .. MaxConnections, Fetching(c)
      PROVE  /\ Len(fetch') >= Len(fetch)
             /\ \A d \in DOMAIN fetch' : fetch'[d].step = "answered" =>
                  \/ d \in DOMAIN fetch /\ fetch'[d] = fetch[d]
                  \/ /\ fetch'[d].round = current /\ fetch'[d].state = Lower[round.state]
                     /\ fetch'[d].multiplier = round.multiplier
                     /\ UNCHANGED <<current, round>>
  <2>1. CASE FetchAnswered(c)
    BY <1>t, <2>1 DEF FetchAnswered, service
  <2>2. CASE FetchFailed(c) \/ FetchDelivered(c)
    BY <1>t, <2>2, RequestRecords DEF FetchFailed, FetchDelivered
  <2> QED BY <1>5, <2>1, <2>2 DEF Fetching
<1>6. ASSUME NEW type, Receive(type)
      PROVE  /\ DOMAIN fetch' = DOMAIN fetch /\ Len(fetch') = Len(fetch)
             /\ \A c \in DOMAIN fetch :
                  /\ fetch'[c].round = fetch[c].round /\ fetch'[c].state = fetch[c].state
                  /\ fetch'[c].multiplier = fetch[c].multiplier
                  /\ fetch'[c].step = fetch[c].step
  <2>1. fetch' = [c \in DOMAIN fetch |->
                    IF fetch[c].behind = 0 THEN Stale(fetch[c])
                                           ELSE [fetch[c] EXCEPT !.behind = @ - 1]]
    BY <1>6 DEF Receive
  <2>2. DOMAIN fetch' = DOMAIN fetch /\ Len(fetch') = Len(fetch)
    BY <1>t, <2>1
  <2>3. ASSUME NEW c \in DOMAIN fetch
        PROVE  /\ fetch'[c].round = fetch[c].round /\ fetch'[c].state = fetch[c].state
               /\ fetch'[c].multiplier = fetch[c].multiplier
               /\ fetch'[c].step = fetch[c].step
    <3>1. fetch[c] \in Fetch
      BY <1>t
    <3>2. CASE fetch[c].behind = 0
      <4>1. fetch'[c] = Stale(fetch[c])
        BY <2>1, <3>2
      <4> QED BY <3>1, <4>1, StaleFacts
    <3>3. CASE fetch[c].behind # 0
      <4>1. fetch'[c] = [fetch[c] EXCEPT !.behind = fetch[c].behind - 1]
        BY <2>1, <3>3
      <4> QED BY <3>1, <4>1 DEF Fetch
    <3> QED BY <3>2, <3>3
  <2> QED BY <2>2, <2>3
<1>7. CASE Handle
  <2>1. \E type : Receive(type)
    BY <1>7 DEF Handle, StateChanged, MultiplierUpdated, BetPlaced, BetCashedOut, Crashed
  <2> QED BY <1>k, <1>6, <2>1
<1>8. CASE UNCHANGED fetch
  BY <1>k, <1>8
<1>9. ASSUME NEW e, Emit(e)
      PROVE  /\ Len(fetch') >= Len(fetch)
             /\ \A c \in DOMAIN fetch' : fetch'[c].step = "answered" =>
                  /\ c \in DOMAIN fetch /\ fetch[c].step = "answered"
                  /\ fetch'[c].round = fetch[c].round /\ fetch'[c].state = fetch[c].state
                  /\ fetch'[c].multiplier = fetch[c].multiplier
  BY <1>k, <1>1, <1>9
<1> QED BY <1>2, <1>3, <1>4, <1>5, <1>7, <1>8, <1>9, WireFrame

\* Nothing has been asked, told or shown.
LEMMA WireInvInit == Init => WireInv
BY DEF Init, WireInv

\* Every step keeps WireInv.
LEMMA WireInvStep ==
  TypeInv /\ RoundInv /\ RequestInv /\ WireInv /\ [Next]_vars => WireInv'
<1> SUFFICES ASSUME TypeInv, RoundInv, RequestInv, WireInv, [Next]_vars PROVE WireInv'
  OBVIOUS
<1>t. /\ WireTypes /\ fetch \in Seq(Fetch) /\ Len(fetch) \in Nat /\ net \in Seq(Event)
      /\ store \in Store /\ fetch' \in Seq(Fetch) /\ Len(net) \in Nat
      /\ \A c \in DOMAIN fetch : fetch[c] \in Fetch
      /\ \A c \in DOMAIN fetch' : fetch'[c] \in Fetch
  <2>1. TypeInv'
    BY TypeInvStep
  <2> QED BY <2>1 DEF TypeInv, WireTypes, PageTypes
<1>1. ASSUME NEW c \in DOMAIN fetch', fetch'[c].step = "answered"
      PROVE  Precedes(fetch'[c], ActualView')
  <2>1. CASE /\ c \in DOMAIN fetch /\ fetch[c].step = "answered"
             /\ fetch'[c].round = fetch[c].round /\ fetch'[c].state = fetch[c].state
             /\ fetch'[c].multiplier = fetch[c].multiplier
    <3>1. Precedes(fetch[c], ActualView) /\ IsView(fetch[c])
      BY <1>t, <2>1, ViewTypes DEF WireInv
    <3>2. Precedes(fetch[c], ActualView')
      <4> HIDE DEF Precedes, ActualView, IsView
      <4> QED BY <3>1, StaysBehind
    <3> HIDE DEF ActualView
    <3> QED BY <2>1, <3>2 DEF Precedes
  <2>2. CASE /\ fetch'[c].round = current /\ fetch'[c].state = Lower[round.state]
             /\ fetch'[c].multiplier = round.multiplier
             /\ UNCHANGED <<current, round>>
    <3>1. /\ fetch'[c].round = ActualView'.round /\ fetch'[c].state = ActualView'.state
          /\ fetch'[c].multiplier = ActualView'.multiplier
      BY <2>2, NextViews
    <3>2. Precedes(ActualView', ActualView')
      BY NextViews, PrecedesReflexive
    <3> HIDE DEF ActualView
    <3> QED BY <3>1, <3>2 DEF Precedes
  <2> QED BY <1>1, <2>1, <2>2, AnswersKept
<1>2. \A i \in DOMAIN net' : net'[i].type = "bet-cashed-out" =>
        /\ net'[i].bet \in Bet
        /\ bets'[net'[i].bet].state = "CASHED_OUT"
        /\ bets'[net'[i].bet].round = net'[i].round
  <2>1. ASSUME NEW e, e \in Event, e.type = "bet-cashed-out",
               e.bet \in Bet, bets[e.bet].state = "CASHED_OUT", bets[e.bet].round = e.round
        PROVE  bets'[e.bet].state = "CASHED_OUT" /\ bets'[e.bet].round = e.round
    BY <2>1, PayoutsStay
  <2>2. ASSUME NEW i \in DOMAIN net, net[i].type = "bet-cashed-out"
        PROVE  /\ net[i].bet \in Bet
               /\ bets'[net[i].bet].state = "CASHED_OUT"
               /\ bets'[net[i].bet].round = net[i].round
    <3>1. /\ net[i] \in Event /\ net[i].bet \in Bet /\ bets[net[i].bet].state = "CASHED_OUT"
          /\ bets[net[i].bet].round = net[i].round
      BY <1>t, <2>2 DEF WireInv
    <3> QED BY <2>1, <2>2, <3>1
  <2>3. ASSUME NEW e, Sent(e), e.type = "bet-cashed-out"
        PROVE  e.bet \in Bet /\ bets[e.bet].state = "CASHED_OUT" /\ bets[e.bet].round = e.round
    <3>1. /\ CashOutSaved /\ call.bet \in BetsOf(bets, current)
          /\ e = EventOf("bet-cashed-out", call.bet)
      BY <2>3 DEF Sent, EventOf
    <3>2. e.bet = call.bet /\ e.round = current
      BY <3>1 DEF EventOf, CashOutSaved, service
    <3> QED BY <3>1, <3>2 DEF CashOutSaved, BetsOf, RequestInv, RequestsAreServed
  <2>4. ASSUME NEW e, Sent(e), Emit(e)
        PROVE  \A i \in DOMAIN net' : net'[i].type = "bet-cashed-out" =>
                 (i \in DOMAIN net /\ net'[i] = net[i]) \/ net'[i] = e
    <3>1. e \in Event
      BY <2>4, ServiceTypesStep, SentFacts
    <3>2. net' = Append(net, e) \/ net' = net
      BY <2>4 DEF Emit
    <3>3. CASE net' = Append(net, e)
      <4>1. DOMAIN net' = 1 .. Len(net) + 1 /\ net'[Len(net) + 1] = e
            /\ DOMAIN net = 1 .. Len(net) /\ \A i \in 1 .. Len(net) : net'[i] = net[i]
        BY <1>t, <3>1, <3>3
      <4> QED BY <1>t, <4>1
    <3>4. CASE net' = net
      BY <3>4
    <3> QED BY <3>2, <3>3, <3>4
  <2>5. CASE \E e : Sent(e) /\ Emit(e) /\ UNCHANGED <<link, page, informed>>
    <3>1. PICK e : Sent(e) /\ Emit(e)
      BY <2>5
    <3>2. e \in Event
      BY <3>1, ServiceTypesStep, SentFacts
    <3>3. e.type = "bet-cashed-out" =>
            e.bet \in Bet /\ bets'[e.bet].state = "CASHED_OUT" /\ bets'[e.bet].round = e.round
      BY <2>1, <2>3, <3>1, <3>2
    <3> QED BY <2>2, <2>4, <3>1, <3>3
  <2>6. CASE Handle
    <3>1. net # << >> /\ net' = Tail(net)
      BY <2>6
      DEF Handle, StateChanged, MultiplierUpdated, BetPlaced, BetCashedOut, Crashed, Receive
    <3>2. \A i \in DOMAIN net' : i + 1 \in DOMAIN net /\ net'[i] = net[i + 1]
      BY <1>t, <3>1, TailFacts
    <3> QED BY <2>2, <3>2
  <2>7. CASE LinkBreaks
    BY <2>7 DEF LinkBreaks
  <2>8. CASE Connect \/ Disconnect \/ (\E c \in 1 .. MaxConnections : Fetching(c))
             \/ UNCHANGED <<link, net, fetch>>
    <3>1. net' = net
      BY <2>8 DEF Connect, Disconnect, Fetching, FetchAnswered, FetchFailed, FetchDelivered
    <3> QED BY <2>2, <3>1
  <2> QED BY <2>5, <2>6, <2>7, <2>8, WireFrame
<1>3. ASSUME fetch' = << >>
      PROVE  link' = "down" /\ \A x \in Bet : store'.bets[x] = "absent"
  <2>1. fetch = << >>
    <3>1. Len(fetch') >= Len(fetch) /\ Len(fetch') = 0
      BY <1>3, AnswersKept
    <3> QED BY <1>t, <3>1
  <2>2. link = "down" /\ \A x \in Bet : store.bets[x] = "absent"
    BY <2>1 DEF WireInv
  <2>3. ~ Connect
    <3>1. ASSUME Connect PROVE FALSE
      <4>1. fetch' = Append(fetch, Asked)
        BY <3>1 DEF Connect
      <4> QED BY <1>t, <1>3, <4>1
    <3> QED BY <3>1
  <2>4. ~ LinkBreaks /\ ~ Disconnect
    BY <2>2 DEF LinkBreaks, Disconnect
  <2>5. ~ Handle
    <3>1. net = << >>
      BY <2>2, <1>t DEF WireTypes
    <3> QED BY <3>1
        DEF Handle, StateChanged, MultiplierUpdated, BetPlaced, BetCashedOut, Crashed, Receive
  <2>6. ~ \E c \in 1 .. MaxConnections : Fetching(c)
    BY <2>1 DEF Fetching, FetchAnswered, FetchFailed, FetchDelivered
  <2>7. link' = link /\ (store' = store \/ store' = [store EXCEPT !.myBetId = call.bet])
    BY <2>3, <2>4, <2>5, <2>6, StreamFrame DEF page, NewRound, StartRound
  <2>8. store'.bets = store.bets
    BY <1>t, <2>7 DEF Store
  <2> QED BY <2>2, <2>7, <2>8
<1> QED BY <1>1, <1>2, <1>3 DEF WireInv

-----------------------------------------------------------------------------
(* The history of crashes *)

\* The third part of ShownOutcomesAreTrue.
HistoryInv ==
  \A i \in DOMAIN store.history :
    store.history[i].type = "cashed" =>
      \E b \in Bet : /\ bets[b].state = "CASHED_OUT"
                     /\ bets[b].round <= store.history[i].round
                     /\ Len(fetch) <= 1 => bets[b].round = store.history[i].round

\* Only a crash in the round the page shows adds to the history.
LEMMA HistoryMoves ==
  ASSUME TypeInv, [Next]_vars
  PROVE  \/ store'.history = store.history
         \/ /\ Crashed /\ Head(net).round = ref
            /\ store'.history = <<[round |-> ref, type |-> HistoryType]>> \o store.history
<1>t. store \in Store
  BY DEF TypeInv, PageTypes
<1>1. CASE Connect \/ LinkBreaks \/ Disconnect \/ CycleState \/ CashOutAccepted
  BY <1>1 DEF Connect, LinkBreaks, Disconnect, CycleState, CashOutAccepted, page
<1>2. CASE \E c \in 1 .. MaxConnections : FetchDelivered(c)
  BY <1>t, <1>2 DEF FetchDelivered, Store
<1>3. CASE PlaceAccepted
  BY <1>t, <1>3 DEF PlaceAccepted, Store
<1>4. CASE StateChanged \/ MultiplierUpdated \/ BetPlaced \/ BetCashedOut
  BY <1>t, <1>4 DEF StateChanged, MultiplierUpdated, BetPlaced, BetCashedOut, Store
<1>5. CASE Crashed
  BY <1>t, <1>5 DEF Crashed, ForAnotherRound, Store
<1>6. CASE UNCHANGED <<link, ref, store, localState, position, informed>>
  BY <1>6
<1> QED BY <1>1, <1>2, <1>3, <1>4, <1>5, <1>6, PageFrame DEF Handle

\* Every step keeps HistoryInv.
LEMMA HistoryInvStep ==
  TypeInv /\ StreamInv /\ HistoryInv /\ [Next]_vars => HistoryInv'
<1> SUFFICES ASSUME TypeInv, StreamInv, HistoryInv, [Next]_vars PROVE HistoryInv'
  OBVIOUS
<1>t. /\ store \in Store /\ fetch \in Seq(Fetch) /\ Len(fetch) \in Nat
      /\ Len(fetch') \in Nat /\ Len(fetch') >= Len(fetch)
  <2>1. TypeInv'
    BY TypeInvStep
  <2> QED BY <2>1, AnswersKept DEF TypeInv, WireTypes, PageTypes
<1>1. ASSUME NEW r, NEW b \in Bet, bets[b].state = "CASHED_OUT", bets[b].round <= r,
             Len(fetch) <= 1 => bets[b].round = r
      PROVE  \E a \in Bet : /\ bets'[a].state = "CASHED_OUT"
                            /\ bets'[a].round <= r
                            /\ Len(fetch') <= 1 => bets'[a].round = r
  BY <1>t, <1>1, PayoutsStay
<1>2. ASSUME NEW i \in DOMAIN store.history, store.history[i].type = "cashed"
      PROVE  \E a \in Bet : /\ bets'[a].state = "CASHED_OUT"
                            /\ bets'[a].round <= store.history[i].round
                            /\ Len(fetch') <= 1 => bets'[a].round = store.history[i].round
  BY <1>1, <1>2 DEF HistoryInv
<1>3. CASE store'.history = store.history
  BY <1>2, <1>3 DEF HistoryInv
<1>4. CASE /\ Crashed /\ Head(net).round = ref
           /\ store'.history = <<[round |-> ref, type |-> HistoryType]>> \o store.history
  <2>1. ASSUME HistoryType = "cashed"
        PROVE  \E a \in Bet : /\ bets'[a].state = "CASHED_OUT"
                              /\ bets'[a].round <= ref
                              /\ Len(fetch') <= 1 => bets'[a].round = ref
    <3>1. PICK B : Stream(B)
      BY DEF StreamInv
    <3>2. store.myBetId \in Bet /\ store.bets[store.myBetId] = "cashed"
      BY <1>t, <2>1 DEF HistoryType, Store, BetId
    <3>3. net # << >> /\ Head(net) = net[1] /\ 1 \in DOMAIN net /\ net[1].type = "crashed"
          /\ link = "up"
      <4>1. Receive("crashed")
        BY <1>4 DEF Crashed
      <4>2. WireTypes
        BY DEF TypeInv
      <4> QED BY <4>1, <4>2, HeadFacts DEF WireTypes
    <3>4. Fits(B[1], net[1]) /\ 1 \in DOMAIN B
      <4>1. Chain(B)
        BY <3>1 DEF Stream
      <4>2. 1 \in DOMAIN B
        BY <4>1, ChainFacts
      <4> QED BY <3>3, <4>1, <4>2 DEF Chain
    <3>5. B[1].round = ref
      BY <1>4, <3>3, <3>4 DEF Fits
    <3>6. /\ bets[store.myBetId].state = "CASHED_OUT" /\ bets[store.myBetId].round <= ref
          /\ Len(fetch) <= 1 => bets[store.myBetId].round = ref
      BY <3>1, <3>2, <3>3, <3>4, <3>5 DEF Stream, RowsFollow
    <3> QED BY <1>1, <3>2, <3>6
  <2>2. PICK h : h = [round |-> ref, type |-> HistoryType]
    OBVIOUS
  <2>3. h.round = ref /\ h.type = HistoryType /\ store'.history = <<h>> \o store.history
    BY <1>4, <2>2
  <2>4. ASSUME NEW i \in DOMAIN store'.history
        PROVE  \/ store'.history[i] = h
               \/ \E j \in DOMAIN store.history : store'.history[i] = store.history[j]
    <3>1. store.history \in Seq([round : RoundId, type : {"none", "cashed", "crashed"}])
      BY <1>t DEF Store
    <3>2. CASE i = 1
      BY <2>3, <3>1, <3>2
    <3>3. CASE i # 1
      <4>1. i - 1 \in DOMAIN store.history /\ store'.history[i] = store.history[i - 1]
        BY <2>3, <2>4, <3>1, <3>3
      <4> QED BY <4>1
    <3> QED BY <3>2, <3>3
  <2> SUFFICES ASSUME NEW i \in DOMAIN store'.history, store'.history[i].type = "cashed"
               PROVE  \E a \in Bet : /\ bets'[a].state = "CASHED_OUT"
                                     /\ bets'[a].round <= store'.history[i].round
                                     /\ Len(fetch') <= 1 => bets'[a].round = store'.history[i].round
    BY DEF HistoryInv
  <2>5. CASE store'.history[i] = h
    BY <2>1, <2>3, <2>5
  <2>6. CASE \E j \in DOMAIN store.history : store'.history[i] = store.history[j]
    <3>1. PICK j \in DOMAIN store.history : store'.history[i] = store.history[j]
      BY <2>6
    <3>2. store.history[j].type = "cashed"
      BY <3>1
    <3> QED BY <1>2, <3>1, <3>2
  <2> QED BY <2>4, <2>5, <2>6
<1> QED BY <1>3, <1>4, HistoryMoves

-----------------------------------------------------------------------------
(* The theorems                                                            *)

ClientInv == TypeInv /\ RoundInv /\ RequestInv /\ WireInv /\ StreamInv /\ HistoryInv

\* The inductive invariant: rounds, requests, the wire, the stream of events and
\* the history of crashes.
THEOREM ClientInvariant == Spec => []ClientInv
<1>1. Init => ClientInv
  <2>1. Init => HistoryInv
    BY DEF Init, HistoryInv
  <2> QED BY <2>1, TypeInvInit, RoundInvInit, RequestInvInit, WireInvInit, StreamInvInit DEF ClientInv
<1>2. ClientInv /\ [Next]_vars => ClientInv'
  BY TypeInvStep, RoundInvStep, RequestInvStep, WireInvStep, StreamInvStep, HistoryInvStep
  DEF ClientInv
<1> QED BY <1>1, <1>2, PTL DEF Spec

\* An informed page is no further than the service, and with nothing under way no
\* less far either.
LEMMA InformedPage ==
  ASSUME ClientInv, informed
  PROVE  /\ link = "up" /\ Precedes(PageView, ActualView)
         /\ Quiet => Precedes(ActualView, PageView)
<1>1. PICK B : Stream(B)
  BY DEF ClientInv, StreamInv
<1>2. TypeInv /\ Chain(B) /\ PageFollows(B[1])
  BY <1>1 DEF ClientInv, Stream
<1>3. link = "up" /\ Precedes(B[1], PageView) /\ Precedes(PageView, ActualView)
  BY <1>2 DEF PageFollows
<1>4. ASSUME Quiet PROVE Precedes(ActualView, PageView)
  <2>1. Len(net) = 0 /\ ~ announcing
    BY <1>4 DEF Quiet
  <2>2. Told(B[1])
    BY <1>2, <2>1, ChainFacts
  <2>3. B[1] = ActualView
    BY <2>1, <2>2 DEF Told
  <2> HIDE DEF ActualView, PageView, Precedes
  <2> QED BY <1>3, <2>3
<1> QED BY <1>3, <1>4

\* A quiet page in sync shows the round, its state and its multiplier.
LEMMA InvShowsTheRound == ClientInv => QuietPageIsInSync
<1> SUFFICES ASSUME ClientInv, Quiet, informed
             PROVE  /\ ref = current
                    /\ store.state = Lower[round.state]
                    /\ store.multiplier \in {round.multiplier} \cup
                                            (IF round.multiplier = One THEN {0} ELSE {})
  BY DEF QuietPageIsInSync
<1>1. TypeInv
  BY DEF ClientInv
<1>2. /\ PageView.round = ActualView.round /\ PageView.state = ActualView.state
      /\ PageView.multiplier = ActualView.multiplier
  <2>1. /\ Precedes(PageView, ActualView) /\ Precedes(ActualView, PageView)
        /\ IsView(PageView) /\ IsView(ActualView)
    BY <1>1, InformedPage, CurrentViews
  <2> HIDE DEF PageView, ActualView, Precedes, IsView
  <2> QED BY <2>1, PrecedesAntisymmetric
<1>3. ref = current /\ store.state = Lower[round.state] /\ AskedMultiplier = round.multiplier
  BY <1>1, <1>2, CurrentViews
<1>4. store.multiplier \in Nat
  BY <1>1 DEF TypeInv, PageTypes, Store
<1> QED BY <1>3, <1>4 DEF AskedMultiplier

\* THEOREM: once all is quiet the page shows what the service has.
THEOREM QuietPagesAreInSync == Spec => []QuietPageIsInSync
BY ClientInvariant, InvShowsTheRound, PTL

\* A click on cash out names what the round has reached.
LEMMA InvAsksNoMore ==
  ClientInv /\ ClickCashOut /\ informed =>
    ref < current \/ (ref = current /\ call'.multiplier <= round.multiplier)
<1> SUFFICES ASSUME ClientInv, ClickCashOut, informed
             PROVE  ref < current \/ (ref = current /\ call'.multiplier <= round.multiplier)
  OBVIOUS
<1>1. call'.multiplier = AskedMultiplier
  BY DEF ClickCashOut
<1>2. Precedes(PageView, ActualView) /\ TypeInv
  BY InformedPage DEF ClientInv
<1>3. ref < current \/ (ref = current /\ AskedMultiplier <= round.multiplier)
  BY <1>2, CurrentViews DEF Precedes
<1> QED BY <1>1, <1>3

\* THEOREM: the page asks for no more than the round it shows has reached.
THEOREM AsksForWhatIsThere == Spec => AsksNoMoreThanReached
<1>1. ClientInv /\ [Next]_vars =>
        [ClickCashOut /\ informed =>
           ref < current \/ (ref = current /\ call'.multiplier <= round.multiplier)]_vars
  BY InvAsksNoMore
<1> QED BY <1>1, ClientInvariant, PTL DEF Spec, AsksNoMoreThanReached

\* A position the quiet page shows as open is open.
LEMMA InvPositionIsOpen == ClientInv => ShownPositionIsOpen
<1> SUFFICES ASSUME ClientInv, Quiet, informed, ~ Loading,
                    position.state = "pending", bets[position.betId].round = ref
             PROVE  bets[position.betId].state = "PENDING" \/ position.betId \in untold
  BY DEF ShownPositionIsOpen
<1> DEFINE b == position.betId
<1>1. /\ ref = current /\ store.state = Lower[round.state]
  BY InvShowsTheRound DEF QuietPageIsInSync
<1>2. /\ b \in Bet /\ bets[b] \in BetRecord /\ round.state \in {"BETTING", "RUNNING", "CRASHED"}
      /\ round \in RoundRecord
  BY DEF ClientInv, TypeInv, PageTypes, ServiceTypes, RoundRecord
<1>3. bets[b].state # "ABSENT"
  BY DEF ClientInv, RequestInv, PositionsAreTrue
<1>4. CASE bets[b].state = "CASHED_OUT"
  <2>1. \/ b \in untold
        \/ call.kind = "cashOut" /\ call.bet = b
        \/ position.betId = b => position.state = "cashed_out"
    BY <1>2, <1>4 DEF ClientInv, RequestInv, PayoutsAreTold
  <2> QED BY <2>1 DEF Loading
<1>5. CASE bets[b].state = "LOST"
  <2>1. round.state = "CRASHED"
    BY <1>1, <1>2, <1>5 DEF ClientInv, RoundInv
  <2>2. ShownState = "crashed"
    BY <1>1, <2>1 DEF Lower, ShownState, Connected, Quiet
  <2> QED BY <2>2 DEF ClientInv, RequestInv, PositionsAreTrue
<1> QED BY <1>2, <1>3, <1>4, <1>5 DEF BetRecord

\* THEOREM: an open position of the quiet page can still be cashed out.
THEOREM OpenPositionsAreOpen == Spec => []ShownPositionIsOpen
BY ClientInvariant, InvPositionIsOpen, PTL

\* What the page shows as an outcome is the outcome.
LEMMA InvOutcomesAreTrue == ClientInv => ShownOutcomesAreTrue
<1> SUFFICES ASSUME ClientInv PROVE ShownOutcomesAreTrue
  OBVIOUS
<1>1. position.state = "cashed_out" /\ position.betId # NoBet =>
        /\ bets[position.betId].state = "CASHED_OUT"
        /\ bets[position.betId].cashOutMultiplier = position.multiplier
  BY DEF ClientInv, RequestInv, PositionsAreTrue
<1>2. position.state = "lost" /\ ~ Loading =>
        bets[position.betId].state # "CASHED_OUT" \/ position.betId \in untold
  BY DEF ClientInv, RequestInv, PayoutsAreTold, TypeInv, PageTypes, Loading
<1> QED BY <1>1, <1>2 DEF ClientInv, HistoryInv, ShownOutcomesAreTrue

\* THEOREM: payouts, losses and green rounds on the page are true.
THEOREM OutcomesAreTrue == Spec => []ShownOutcomesAreTrue
BY ClientInvariant, InvOutcomesAreTrue, PTL

=============================================================================
