-------------------------- MODULE DemoService_proof --------------------------
(***************************************************************************)
(* Proofs about DemoService: any number of users, bets, rounds, logins and *)
(* wallet creations, with failures and crashes.                            *)
(***************************************************************************)
EXTENDS DemoServiceProps, RoundLifecycle_proof, FiniteSetTheorems

-----------------------------------------------------------------------------
(* The demo plays the same game *)

\* A transfer of the demo is a publish of the game that succeeds or fails, and
\* everything else of the demo leaves the game alone or is a step of it.
LEMMA GameStep == [DemoNext]_demoVars => [Next]_vars
<1> SUFFICES ASSUME DemoNext PROVE [Next]_vars
  BY DEF demoVars, vars
<1>1. CASE OtherSteps
  BY <1>1 DEF OtherSteps, Next, PlaceStep, CashOutStep
<1>2. ASSUME NEW k \in Opening, OpeningStep(k) PROVE UNCHANGED vars
  BY <1>2
  DEF OpeningStep, OpeningArrives, GetFinds, GetThrows, CreateRefused, CreateFindsNone,
      Inserted, CreateFails, OpeningUnchanged
<1>3. ASSUME NEW b \in Bet, NEW way \in Way, TransferStep(b, way) PROVE [Next]_vars
  <2>1. CASE TransferFinds(b, way)
    BY <2>1 DEF TransferFinds
  <2>2. CASE TransferSaved(b, way)
    BY <2>2 DEF TransferSaved, Answer, PublishSucceeds, Next, PlaceStep, CashOutStep
  <2>3. CASE TransferThrows(b, way) \/ TransferSavedSilently(b, way)
    BY <2>3
    DEF TransferThrows, TransferSavedSilently, Answer, PublishFails, Next, PlaceStep,
        CashOutStep
  <2> QED BY <1>3, <2>1, <2>2, <2>3 DEF TransferStep
<1>4. CASE DemoCrash
  BY <1>4 DEF DemoCrash, Next
<1> QED BY <1>1, <1>2, <1>3, <1>4 DEF DemoNext

\* The demo is the game with another publisher: whatever is proved of rounds,
\* bets, timers and nonces of the Games service holds in the demo as well.
THEOREM DemoPlaysTheGame == DemoSpec => Spec
<1>1. DemoInit => Init
  BY DEF DemoInit
<1> QED BY <1>1, GameStep, PTL DEF DemoSpec, Spec

-----------------------------------------------------------------------------
(* Wallets are opened by calls that overlap, or once *)

OpeningTypeOK ==
  /\ opened \subseteq Opening
  /\ opening \in [Opening -> {"idle", "get", "find", "insert", "done"}]

\* Two calls that have both passed the look-up overlapped, whether their rows
\* are written by now or not.
PastLookUp(k) == k \in opened \/ opening[k] = "insert"

OpeningInv ==
  /\ OpeningTypeOK
  /\ \A k \in opened : opening[k] = "done"
  /\ \A k, l \in Opening :
       k # l /\ Creator[k] = Creator[l] /\ PastLookUp(k) /\ PastLookUp(l) =>
         {k, l} \in overlapped

\* No step but those of logins and creations opens a wallet.
LEMMA OpeningSteps ==
  ASSUME [DemoNext]_demoVars
  PROVE  \/ \E k \in Opening : OpeningStep(k)
         \/ UNCHANGED <<opened, opening, overlapped>>
         \/ DemoCrash
<1>1. CASE OtherSteps
  BY <1>1 DEF OtherSteps, walletVars
<1>2. ASSUME NEW b \in Bet, NEW way \in Way, TransferStep(b, way)
      PROVE  UNCHANGED <<opened, opening, overlapped>>
  BY <1>2
  DEF TransferStep, TransferFinds, TransferSaved, TransferThrows, TransferSavedSilently,
      Answer
<1>3. CASE UNCHANGED demoVars
  BY <1>3 DEF demoVars, walletVars
<1> QED BY <1>1, <1>2, <1>3 DEF DemoNext

\* A call that finds no wallet goes on to insert one; the row appears later.
LEMMA OpeningInvStep == OpeningInv /\ [DemoNext]_demoVars => OpeningInv'
<1> SUFFICES ASSUME OpeningInv, [DemoNext]_demoVars PROVE OpeningInv'
  OBVIOUS
<1>t. OpeningTypeOK
  BY DEF OpeningInv
<1>1. ASSUME NEW k \in Opening, NEW step \in {"get", "find", "done"},
             opening[k] \in {"idle", "get", "find", "insert"},
             Continue(k, step), UNCHANGED <<opened, overlapped>>
      PROVE  OpeningInv'
  <2>1. \A l \in Opening : PastLookUp(l)' => PastLookUp(l)
    BY <1>t, <1>1 DEF PastLookUp, Continue, OpeningTypeOK
  <2>2. OpeningTypeOK' /\ \A l \in opened' : opening'[l] = "done"
    BY <1>t, <1>1 DEF OpeningInv, Continue, OpeningTypeOK
  <2> QED BY <1>1, <2>1, <2>2 DEF OpeningInv
<1>2. ASSUME NEW k \in Opening, CreateFindsNone(k) PROVE OpeningInv'
  <2>1. \A l \in Opening : PastLookUp(l)' => PastLookUp(l) \/ l = k
    BY <1>t, <1>2 DEF PastLookUp, CreateFindsNone, Continue, OpeningTypeOK
  <2>2. \A l \in Opening : l # k /\ Creator[l] = Creator[k] /\ PastLookUp(l) =>
          {k, l} \in overlapped'
    <3>1. \A l \in opened : Creator[l] # Creator[k]
      BY <1>t, <1>2 DEF CreateFindsNone, AlreadyExists, WalletsOf
    <3> QED BY <1>2, <3>1 DEF PastLookUp, CreateFindsNone
  <2>3. overlapped \subseteq overlapped' /\ \A l \in Opening : {k, l} = {l, k}
    BY <1>2 DEF CreateFindsNone
  <2>4. OpeningTypeOK' /\ \A l \in opened' : opening'[l] = "done"
    BY <1>t, <1>2 DEF OpeningInv, CreateFindsNone, Continue, OpeningTypeOK
  <2>5. ASSUME NEW l \in Opening, NEW m \in Opening, l # m, Creator[l] = Creator[m],
               PastLookUp(l)', PastLookUp(m)'
        PROVE  {l, m} \in overlapped'
    BY <2>1, <2>2, <2>3, <2>5 DEF OpeningInv
  <2> QED BY <2>4, <2>5 DEF OpeningInv
<1>3. ASSUME NEW k \in Opening, Inserted(k) PROVE OpeningInv'
  <2>1. \A l \in Opening : PastLookUp(l)' => PastLookUp(l)
    BY <1>t, <1>3 DEF PastLookUp, Inserted, Continue, OpeningTypeOK
  <2>2. OpeningTypeOK' /\ \A l \in opened' : opening'[l] = "done"
    BY <1>t, <1>3 DEF OpeningInv, Inserted, Continue, OpeningTypeOK
  <2> QED BY <1>3, <2>1, <2>2 DEF OpeningInv, Inserted
<1>4. ASSUME NEW k \in Opening, OpeningStep(k) PROVE OpeningInv'
  BY <1>1, <1>2, <1>3, <1>4
  DEF OpeningStep, OpeningArrives, GetFinds, GetThrows, CreateRefused, CreateFails,
      OpeningUnchanged
<1>5. CASE UNCHANGED <<opened, opening, overlapped>>
  BY <1>5 DEF OpeningInv, OpeningTypeOK, PastLookUp
<1>6. CASE DemoCrash
  <2>1. \A l \in Opening : PastLookUp(l)' => PastLookUp(l)
    BY <1>6 DEF PastLookUp, DemoCrash
  <2>2. OpeningTypeOK' /\ \A l \in opened' : opening'[l] = "done"
    BY <1>t, <1>6 DEF OpeningInv, DemoCrash, OpeningTypeOK
  <2> QED BY <1>6, <2>1, <2>2 DEF OpeningInv, DemoCrash
<1> QED BY <1>4, <1>5, <1>6, OpeningSteps

\* "Wallet already exists for user" is kept but for overlapping calls, whatever
\* fails, is repeated or crashes, for any number of users and calls.
THEOREM SecondWallets == DemoSpec => []SecondWalletNeedsOverlap
<1>1. DemoInit => OpeningInv
  BY DEF DemoInit, OpeningInv, OpeningTypeOK, PastLookUp
<1>2. DemoSpec => []OpeningInv
  BY <1>1, OpeningInvStep, PTL DEF DemoSpec
<1>3. OpeningInv => SecondWalletNeedsOverlap
  BY DEF OpeningInv, OpeningTypeOK, PastLookUp, SecondWalletNeedsOverlap
<1> QED BY <1>2, <1>3, PTL
-----------------------------------------------------------------------------
(* Transfers *)

\* A transfer writes what it computed from the wallet it found: the stake was
\* covered there, so no balance is ever negative.
FoundInv ==
  /\ found \in [Bet -> [Way -> SUBSET FoundWallet]]
  /\ \A b \in Bet, way \in Way :
       found[b][way] = {} \/ \E wallet \in FoundWallet : found[b][way] = {wallet}
  /\ \A b \in Bet : \A wallet \in found[b]["debit"] :
       wallet.balance >= RoundTrip(Amount[b])

TransferInv ==
  /\ FoundInv
  /\ balance \in [Opening -> Nat]
  /\ saves \in [Bet -> [Way -> Nat]]
  /\ raced \subseteq Player
  /\ overlapped \subseteq SUBSET Opening

\* A conversion loses at most a centavo of an amount of at least two.
LEMMA RoundTripIsNat ==
  /\ \A n \in Nat : RoundTrip(n) \in Nat
  /\ \A b \in Bet : Amount[b] \in Nat
BY InexactAssumption, AmountAssumption DEF RoundTrip

\* The transfer that a step saves, finds or ends; other steps leave the money alone.
LEMMA MoneySteps ==
  ASSUME [DemoNext]_demoVars
  PROVE  \/ UNCHANGED <<opened, balance, found, saves, raced>>
         \/ DemoCrash
         \/ \E k \in Opening : Inserted(k)
         \/ \E b \in Bet, way \in Way :
              \/ TransferFinds(b, way)
              \/ TransferThrows(b, way)
              \/ TransferSaved(b, way) \/ TransferSavedSilently(b, way)
<1>1. CASE OtherSteps
  BY <1>1 DEF OtherSteps, walletVars, ledgers
<1>2. ASSUME NEW k \in Opening, OpeningStep(k)
      PROVE  Inserted(k) \/ UNCHANGED <<opened, balance, found, saves, raced>>
  BY <1>2
  DEF OpeningStep, OpeningArrives, GetFinds, GetThrows, CreateRefused, CreateFindsNone,
      CreateFails, OpeningUnchanged, ledgers
<1>3. CASE UNCHANGED demoVars
  BY <1>3 DEF demoVars, walletVars, ledgers
<1> QED BY <1>1, <1>2, <1>3 DEF DemoNext, TransferStep

\* Look-ups overlap only with calls that are there.
LEMMA OverlapsType ==
  ASSUME overlapped \subseteq SUBSET Opening, [DemoNext]_demoVars
  PROVE  overlapped' \subseteq SUBSET Opening
<1>1. CASE UNCHANGED overlapped
  BY <1>1
<1>2. ASSUME NEW k \in Opening, OpeningStep(k) PROVE overlapped' \subseteq SUBSET Opening
  <2>1. CASE CreateFindsNone(k)
    BY <2>1 DEF CreateFindsNone
  <2>2. CASE ~ CreateFindsNone(k)
    BY <1>2, <2>2
    DEF OpeningStep, OpeningArrives, GetFinds, GetThrows, CreateRefused, Inserted,
        CreateFails, OpeningUnchanged
  <2> QED BY <2>1, <2>2
<1>3. CASE DemoCrash
  BY <1>3 DEF DemoCrash
<1> QED BY <1>1, <1>2, <1>3, OpeningSteps

\* Finding, saving and ending a transfer keep the invariant.
LEMMA TransferInvStep ==
  TypeInv /\ OpeningTypeOK /\ TransferInv /\ [DemoNext]_demoVars => TransferInv'
<1> SUFFICES ASSUME TypeInv, OpeningTypeOK, TransferInv, [DemoNext]_demoVars
             PROVE  TransferInv'
  OBVIOUS
<1>t. /\ bets \in [Bet -> BetRecord] /\ \A b \in Bet : bets[b].winnings \in Nat
      /\ balance \in [Opening -> Nat] /\ found \in [Bet -> [Way -> SUBSET FoundWallet]]
      /\ saves \in [Bet -> [Way -> Nat]] /\ raced \subseteq Player
  BY DEF TypeInv, TypeOK, BetRecord, TransferInv, FoundInv
<1>o. overlapped' \subseteq SUBSET Opening
  BY OverlapsType DEF TransferInv
<1>w. "debit" \in Way /\ "credit" \in Way
  BY DEF Way
<1>f. ASSUME found' \in [Bet -> [Way -> SUBSET FoundWallet]],
             \A b \in Bet, way \in Way : found'[b][way] \in {{}, found[b][way]}
      PROVE  FoundInv'
  <2>1. \A b \in Bet, way \in Way :
          found'[b][way] = {} \/ \E wallet \in FoundWallet : found'[b][way] = {wallet}
    BY <1>f DEF TransferInv, FoundInv
  <2>2. \A b \in Bet : \A wallet \in found'[b]["debit"] :
          wallet.balance >= RoundTrip(Amount[b])
    BY <1>f, <1>w DEF TransferInv, FoundInv
  <2> QED BY <1>f, <2>1, <2>2 DEF FoundInv
<1>1. CASE UNCHANGED <<opened, balance, found, saves, raced>>
  BY <1>1, <1>o DEF TransferInv, FoundInv
<1>2. CASE DemoCrash
  <2>1. FoundInv'
    BY <1>2, <1>f DEF DemoCrash, NotYet
  <2> QED BY <1>2, <1>o, <2>1 DEF TransferInv, DemoCrash, ledgers
<1>3. ASSUME NEW k \in Opening, Inserted(k) PROVE TransferInv'
  <2>1. balance' \in [Opening -> Nat]
    BY <1>t, <1>3, OpeningAssumption DEF Inserted
  <2> QED BY <1>3, <1>o, <2>1 DEF TransferInv, FoundInv, Inserted, ledgers
<1>4. ASSUME NEW b \in Bet, NEW way \in Way, TransferFinds(b, way) PROVE TransferInv'
  <2>1. PICK row \in WalletsOf(PlayerOf[b]) :
          /\ Accepts(way, balance[row], TransferAmount(b, way))
          /\ found' = [found EXCEPT ![b][way] = {[row |-> row, balance |-> balance[row]]}]
    BY <1>4 DEF TransferFinds
  <2> DEFINE wallet == [row |-> row, balance |-> balance[row]]
  <2>2. wallet \in FoundWallet
    BY <1>t DEF WalletsOf, OpeningTypeOK, FoundWallet
  <2>3. way = "debit" => wallet.balance >= RoundTrip(Amount[b])
    BY <2>1 DEF Accepts, TransferAmount
  <2> HIDE DEF wallet
  <2>4. found' = [found EXCEPT ![b][way] = {wallet}]
    BY <2>1 DEF wallet
  <2>5. \A a \in Bet, w \in Way :
          found'[a][w] = IF a = b /\ w = way THEN {wallet} ELSE found[a][w]
    BY <1>t, <2>4
  <2>6. found' \in [Bet -> [Way -> SUBSET FoundWallet]]
    BY <1>t, <2>2, <2>4
  <2>7. UNCHANGED <<balance, saves, raced>>
    BY <1>4 DEF TransferFinds, ledgers
  <2>8. ASSUME NEW a \in Bet, NEW w \in Way
        PROVE  found'[a][w] = {} \/ \E known \in FoundWallet : found'[a][w] = {known}
    <3>1. CASE a = b /\ w = way
      <4>1. found'[a][w] = {wallet}
        BY <2>5, <3>1
      <4> QED BY <2>2, <4>1, Zenon
    <3>2. CASE ~ (a = b /\ w = way)
      <4>1. found'[a][w] = found[a][w]
        BY <2>5, <3>2
      <4>2. found[a][w] = {} \/ \E known \in FoundWallet : found[a][w] = {known}
        BY DEF TransferInv, FoundInv
      <4> QED BY <4>1, <4>2, Zenon
    <3> QED BY <3>1, <3>2
  <2>9. \A a \in Bet : \A known \in found'[a]["debit"] :
          known.balance >= RoundTrip(Amount[a])
    BY <1>w, <2>3, <2>5 DEF TransferInv, FoundInv
  <2>10. FoundInv'
    BY <2>6, <2>8, <2>9 DEF FoundInv
  <2> QED BY <1>o, <2>7, <2>10 DEF TransferInv
<1>5. ASSUME NEW b \in Bet, NEW way \in Way, found' = [found EXCEPT ![b][way] = {}]
      PROVE  FoundInv'
  BY <1>t, <1>f, <1>5
<1>6. ASSUME NEW b \in Bet, NEW way \in Way, TransferThrows(b, way) PROVE TransferInv'
  <2>1. found' = [found EXCEPT ![b][way] = {}] /\ UNCHANGED <<balance, saves, raced>>
    BY <1>6 DEF TransferThrows, Answer, ledgers
  <2> QED BY <1>o, <1>5, <2>1 DEF TransferInv
<1>7. ASSUME NEW b \in Bet, NEW way \in Way,
             TransferSaved(b, way) \/ TransferSavedSilently(b, way)
      PROVE  TransferInv'
  <2>1. found' = [found EXCEPT ![b][way] = {}]
    BY <1>7 DEF TransferSaved, TransferSavedSilently, Answer
  <2>2. PICK wallet \in found[b][way] : Commit(b, way, wallet)
    BY <1>7 DEF TransferSaved, TransferSavedSilently
  <2>3. wallet \in FoundWallet /\ wallet.balance \in Nat /\ wallet.row \in Opening
    BY <1>t DEF FoundWallet
  <2>4. TransferAmount(b, way) \in Nat
    BY <1>t, RoundTripIsNat DEF TransferAmount
  <2>5. Moved(way, wallet.balance, TransferAmount(b, way)) \in Nat
    <3>1. CASE way = "debit"
      <4>1. wallet.balance >= TransferAmount(b, way)
        BY <3>1 DEF TransferInv, FoundInv, TransferAmount
      <4> QED BY <2>3, <2>4, <3>1, <4>1 DEF Moved
    <3> QED BY <2>3, <2>4, <3>1 DEF Moved
  <2>6. balance' \in [Opening -> Nat]
    BY <1>t, <2>2, <2>3, <2>5 DEF Commit
  <2>7. saves' \in [Bet -> [Way -> Nat]]
    BY <1>t, <2>2 DEF Commit
  <2>8. raced' \subseteq Player
    BY <1>t, <2>2, PlayerAssumption DEF Commit
  <2> QED BY <1>o, <1>5, <2>1, <2>6, <2>7, <2>8 DEF TransferInv
<1> QED BY <1>1, <1>2, <1>3, <1>4, <1>6, <1>7, MoneySteps

\* Every variable of the demo keeps its type, and no wallet gets below zero.
THEOREM DemoTypeCorrect == DemoSpec => []DemoTypeOK
<1>1. DemoInit => TypeInv /\ OpeningInv /\ TransferInv
  <2> SUFFICES ASSUME DemoInit PROVE TypeInv /\ OpeningInv /\ TransferInv
    OBVIOUS
  <2>1. TypeInv
    BY TypeInvInit DEF DemoInit
  <2>2. OpeningInv
    BY DEF DemoInit, OpeningInv, OpeningTypeOK, PastLookUp
  <2>3. TransferInv
    BY DEF DemoInit, TransferInv, FoundInv, NotYet, Way
  <2> QED BY <2>1, <2>2, <2>3
<1>2. OpeningInv => OpeningTypeOK
  BY DEF OpeningInv
<1>3. DemoSpec => [](TypeInv /\ OpeningInv /\ TransferInv)
  BY <1>1, <1>2, GameStep, TypeInvStep, OpeningInvStep, TransferInvStep, PTL DEF DemoSpec
<1>4. TypeInv /\ OpeningInv /\ TransferInv => DemoTypeOK
  <2> SUFFICES ASSUME TypeInv, OpeningInv, TransferInv PROVE DemoTypeOK
    OBVIOUS
  <2>1. Cardinality({}) = 0 /\ \A wallet : Cardinality({wallet}) = 1
    BY FS_EmptySet, FS_Singleton
  <2>2. ASSUME NEW b \in Bet, NEW way \in Way
        PROVE  found[b][way] \subseteq FoundWallet /\ Cardinality(found[b][way]) <= 1
    <3>1. CASE found[b][way] = {}
      BY <2>1, <3>1
    <3>2. ASSUME NEW wallet \in FoundWallet, found[b][way] = {wallet}
          PROVE  found[b][way] \subseteq FoundWallet /\ Cardinality(found[b][way]) <= 1
      <4>1. Cardinality(found[b][way]) = 1
        BY <2>1, <3>2, Zenon
      <4> QED BY <3>2, <4>1
    <3> QED BY <3>1, <3>2 DEF TransferInv, FoundInv
  <2> QED BY <2>2 DEF DemoTypeOK, TypeInv, OpeningInv, OpeningTypeOK, TransferInv
<1> QED BY <1>3, <1>4, PTL

-----------------------------------------------------------------------------
(* Each transfer moves money once                                          *)

\* A request that has still to publish has not been paid for: its transfer ends
\* with the publish, and no second request can place or cash out the same bet.
UnpaidInv ==
  \A b \in Bet :
    /\ bets[b].state = "ABSENT" \/ placing[b].step # "idle" => saves[b]["debit"] = 0
    /\ bets[b].state # "CASHED_OUT" \/ cashing[b].step # "idle" => saves[b]["credit"] = 0

\* A save of a transfer comes with the end of its request and leaves the bets alone.
LEMMA CommitSteps ==
  ASSUME TypeInv, TransferInv, [DemoNext]_demoVars
  PROVE  \/ saves' = saves
         \/ \E b \in Bet, way \in Way :
              /\ saves' = [saves EXCEPT ![b][way] = @ + 1]
              /\ bets' = bets
              /\ IF way = "debit"
                   THEN /\ placing[b].step # "idle" /\ placing' = [placing EXCEPT ![b] = Idle]
                        /\ cashing' = cashing
                   ELSE /\ cashing[b].step # "idle" /\ cashing' = [cashing EXCEPT ![b] = Idle]
                        /\ placing' = placing
<1>1. ASSUME NEW b \in Bet, NEW way \in Way,
             TransferSaved(b, way) \/ TransferSavedSilently(b, way)
      PROVE  /\ saves' = [saves EXCEPT ![b][way] = @ + 1]
             /\ PublishSucceeds(b, way) \/ PublishFails(b, way)
  BY <1>1 DEF TransferSaved, TransferSavedSilently, Commit, Answer
<1>2. ASSUME NEW b \in Bet, NEW way \in Way, PublishSucceeds(b, way) \/ PublishFails(b, way)
      PROVE  /\ bets' = bets
             /\ IF way = "debit"
                  THEN /\ placing[b].step # "idle" /\ placing' = [placing EXCEPT ![b] = Idle]
                       /\ cashing' = cashing
                  ELSE /\ cashing[b].step # "idle" /\ cashing' = [cashing EXCEPT ![b] = Idle]
                       /\ placing' = placing
  BY <1>2
  DEF PublishSucceeds, PublishFails, PlacePublished, PlacePublishFails, CashOutPublished,
      CashOutPublishFails, game
<1>3. ASSUME NEW b \in Bet, NEW way \in Way, TransferFinds(b, way) \/ TransferThrows(b, way)
      PROVE  saves' = saves
  BY <1>3 DEF TransferFinds, TransferThrows, ledgers
<1>4. CASE DemoCrash \/ \E k \in Opening : Inserted(k)
  BY <1>4 DEF DemoCrash, Inserted, ledgers
<1> QED BY <1>1, <1>2, <1>3, <1>4, MoneySteps

\* Placing and cashing out start unpaid, and paying ends the request.
LEMMA UnpaidInvStep ==
  TypeInv /\ GameInv /\ EventInv /\ TransferInv /\ UnpaidInv /\ [DemoNext]_demoVars
    => UnpaidInv'
<1> SUFFICES ASSUME TypeInv, GameInv, EventInv, TransferInv, UnpaidInv, [DemoNext]_demoVars
             PROVE  UnpaidInv'
  OBVIOUS
<1>t. /\ saves \in [Bet -> [Way -> Nat]]
      /\ placing \in [Bet -> Call] /\ cashing \in [Bet -> Call]
  BY DEF TransferInv, TypeInv, TypeOK
<1>g. [Next]_vars
  BY GameStep
<1>b. \A b \in Bet : /\ bets'[b].state = "ABSENT" => bets[b].state = "ABSENT"
                     /\ bets[b].state = "CASHED_OUT" => bets'[b].state = "CASHED_OUT"
  BY <1>g, BetsStep
<1>r. \A b \in Bet :
        /\ placing'[b].step # "idle" => placing[b].step # "idle" \/ bets[b].state = "ABSENT"
        /\ cashing'[b].step # "idle" => cashing[b].step # "idle" \/ bets[b].state = "PENDING"
  BY <1>g, RequestSteps
<1>1. CASE saves' = saves
  BY <1>1, <1>b, <1>r DEF UnpaidInv
<1>2. ASSUME NEW b \in Bet,
             saves' = [saves EXCEPT ![b]["debit"] = @ + 1], bets' = bets,
             placing[b].step # "idle", placing' = [placing EXCEPT ![b] = Idle],
             cashing' = cashing
      PROVE  UnpaidInv'
  <2>1. \A a \in Bet : /\ saves'[a]["credit"] = saves[a]["credit"]
                       /\ a # b => saves'[a] = saves[a]
    BY <1>t, <1>2 DEF Way
  <2>2. bets[b].state # "ABSENT" /\ placing'[b].step = "idle"
    BY <1>t, <1>2 DEF EventInv, Idle
  <2>3. \A a \in Bet : a # b => placing'[a] = placing[a]
    BY <1>t, <1>2
  <2> QED BY <1>2, <2>1, <2>2, <2>3 DEF UnpaidInv
<1>3. ASSUME NEW b \in Bet,
             saves' = [saves EXCEPT ![b]["credit"] = @ + 1], bets' = bets,
             cashing[b].step # "idle", cashing' = [cashing EXCEPT ![b] = Idle],
             placing' = placing
      PROVE  UnpaidInv'
  <2>1. \A a \in Bet : /\ saves'[a]["debit"] = saves[a]["debit"]
                       /\ a # b => saves'[a] = saves[a]
    BY <1>t, <1>3 DEF Way
  <2>2. bets[b].state = "CASHED_OUT" /\ cashing'[b].step = "idle"
    BY <1>t, <1>3 DEF EventInv, Idle
  <2>3. \A a \in Bet : a # b => cashing'[a] = cashing[a]
    BY <1>t, <1>3
  <2> QED BY <1>3, <2>1, <2>2, <2>3 DEF UnpaidInv
<1> QED BY <1>1, <1>2, <1>3, CommitSteps DEF Way

DemoInv == TypeInv /\ GameInv /\ EventInv /\ NothingElseWon /\ TransferInv /\ UnpaidInv

\* Everything the refinement rests on holds in every state of the demo.
LEMMA DemoInvariant == DemoSpec => [](DemoInv /\ OpeningInv)
<1>1. DemoInit => DemoInv /\ OpeningInv
  <2> SUFFICES ASSUME DemoInit PROVE DemoInv /\ OpeningInv
    OBVIOUS
  <2>1. Init
    BY DEF DemoInit
  <2>2. TypeInv /\ GameInv /\ EventInv /\ NothingElseWon
    BY <2>1, TypeInvInit, GameInvInit, EventInvInit, NothingElseWonKept
  <2>3. TransferInv
    BY DEF DemoInit, TransferInv, FoundInv, NotYet, Way
  <2>4. UnpaidInv
    BY DEF DemoInit, UnpaidInv, Way
  <2>5. OpeningInv
    BY DEF DemoInit, OpeningInv, OpeningTypeOK, PastLookUp
  <2> QED BY <2>2, <2>3, <2>4, <2>5 DEF DemoInv
<1>2. DemoInv /\ OpeningInv /\ [DemoNext]_demoVars => DemoInv' /\ OpeningInv'
  BY GameStep, TypeInvStep, GameInvStep, EventInvStep, NothingElseWonKept,
     OpeningInvStep, TransferInvStep, UnpaidInvStep
  DEF DemoInv, OpeningInv
<1> QED BY <1>1, <1>2, PTL DEF DemoSpec

-----------------------------------------------------------------------------
(* The promise about money                                                 *)

\* What has moved: a stake or a payout whose transfer has been saved.
LEMMA MovesFacts ==
  \A move :
    move \in Moves <=>
      \/ \E b \in Bet : saves[b]["debit"] > 0 /\ move = <<b, "debit", 0, saves[b]["debit"]>>
      \/ \E b \in Bet : /\ saves[b]["credit"] > 0
                        /\ move = <<b, "credit", bets[b].winnings, saves[b]["credit"]>>
BY DEF Moves

\* Without a save nothing moves, since winnings stay what they were credited as;
\* a save is the one debit or the one credit of its bet.
LEMMA MovesAsPromised ==
  ASSUME DemoInv, [DemoNext]_demoVars
  PROVE  \/ Moves' = Moves
         \/ /\ outcomes' = outcomes
            /\ \E b \in Bet : Payments!Debit(b) \/ Payments!Credit(b)
<1>t. /\ saves \in [Bet -> [Way -> Nat]] /\ bets \in [Bet -> BetRecord]
      /\ TypeInv /\ GameInv /\ TransferInv /\ EventInv /\ UnpaidInv
  BY DEF DemoInv, TransferInv, TypeInv, TypeOK
<1>b. \A b \in Bet : bets[b].state = "CASHED_OUT" => bets'[b] = bets[b]
  BY <1>t, GameStep, BetsStep
<1>1. CASE saves' = saves
  <2>1. \A b \in Bet : saves[b]["credit"] > 0 => bets'[b].winnings = bets[b].winnings
    BY <1>t, <1>b DEF UnpaidInv
  <2> QED BY <1>1, <2>1 DEF Moves
<1>2. ASSUME NEW b \in Bet, saves' = [saves EXCEPT ![b]["debit"] = @ + 1], bets' = bets,
             placing[b].step # "idle"
      PROVE  outcomes' = outcomes /\ Payments!Debit(b)
  <2>1. saves[b]["debit"] = 0 /\ bets[b].state # "ABSENT"
    BY <1>t, <1>2 DEF UnpaidInv, EventInv
  <2>2. /\ saves'[b]["debit"] = 1
        /\ \A a \in Bet : /\ a # b => saves'[a]["debit"] = saves[a]["debit"]
                          /\ saves'[a]["credit"] = saves[a]["credit"]
    BY <1>t, <1>2, <2>1 DEF Way
  <2>3. ~ Payments!Moved(b, "debit")
    BY <2>1, MovesFacts DEF Payments!Moved
  <2>4. Moves' = Moves \cup {<<b, "debit", 0, 1>>}
    BY <1>2, <2>1, <2>2 DEF Moves
  <2>5. outcomes[b] # Payments!NoOutcome
    BY <1>t, <2>1 DEF outcomes, OutcomeOf, Payments!NoOutcome, BetRecord
  <2>6. outcomes' = outcomes
    BY <1>2 DEF outcomes
  <2> QED BY <2>3, <2>4, <2>5, <2>6 DEF Payments!Debit, outcomes
<1>3. ASSUME NEW b \in Bet, saves' = [saves EXCEPT ![b]["credit"] = @ + 1], bets' = bets,
             cashing[b].step # "idle"
      PROVE  outcomes' = outcomes /\ Payments!Credit(b)
  <2>1. saves[b]["credit"] = 0 /\ bets[b].state = "CASHED_OUT"
    BY <1>t, <1>3 DEF UnpaidInv, EventInv
  <2>2. /\ saves'[b]["credit"] = 1
        /\ \A a \in Bet : /\ a # b => saves'[a]["credit"] = saves[a]["credit"]
                          /\ saves'[a]["debit"] = saves[a]["debit"]
    BY <1>t, <1>3, <2>1 DEF Way
  <2>3. ~ Payments!Moved(b, "credit")
    BY <2>1, MovesFacts DEF Payments!Moved
  <2>4. Moves' = Moves \cup {<<b, "credit", bets[b].winnings, 1>>}
    BY <1>3, <2>1, <2>2 DEF Moves
  <2>5. outcomes[b].result = "won" /\ outcomes[b].payout = bets[b].winnings
    BY <2>1 DEF outcomes, OutcomeOf
  <2>6. outcomes' = outcomes
    BY <1>3 DEF outcomes
  <2> QED BY <2>3, <2>4, <2>5, <2>6 DEF Payments!Credit, outcomes
<1> QED BY <1>t, <1>1, <1>2, <1>3, CommitSteps DEF Way

\* A step of the demo is one of the promise or changes nothing it speaks of.
LEMMA PaymentStep ==
  DemoInv /\ [DemoNext]_demoVars => [Payments!PaymentNext]_(Payments!payments)
<1> SUFFICES ASSUME DemoInv, [DemoNext]_demoVars
             PROVE  Payments!PaymentNext \/ UNCHANGED <<outcomes, Moves>>
  BY DEF Payments!payments, outcomes
<1>1. CASE Moves' = Moves
  BY <1>1, GameStep, OutcomesAsPromised
  DEF DemoInv, Payments!PaymentNext, Payments!Place, Payments!Win, Payments!Lose, outcomes,
      Payments!NoOutcome, Payments!OpenOutcome, Payments!LostOutcome,
      NoOutcome, OpenOutcome, LostOutcome
<1>2. CASE \E b \in Bet : Payments!Debit(b) \/ Payments!Credit(b)
  BY <1>2 DEF Payments!PaymentNext
<1> QED BY <1>1, <1>2, MovesAsPromised

\* The demo keeps the promise about money for any number of users, bets and
\* rounds: without broker, claims or retries, and with handlers that interleave,
\* fail and die, a stake is taken at most once and only for a placed bet, and a
\* payout is given at most once, only for a cashed-out bet, and is what it won.
THEOREM DemoPays == DemoSpec => ImplementsPayments
<1>1. DemoInit => Payments!PaymentInit
  BY DEF DemoInit, Init, Payments!PaymentInit, Moves, OutcomeOf, AbsentBet, Way,
         Payments!NoOutcome
<1> QED
  BY <1>1, DemoInvariant, PaymentStep, PTL
  DEF DemoSpec, ImplementsPayments, Payments!PaymentSpec

-----------------------------------------------------------------------------
(* Sums over finite sets.  A wallet or a bet may be taken first, last or     *)
(* anywhere: the sum is the same, and one change of a value changes it by    *)
(* as much.                                                                  *)

\* A collection of subsets of a finite set has a least one: what induction over
\* finite sets says, in a form the provers can use.
LEMMA LeastSet ==
  ASSUME NEW S, IsFiniteSet(S), NEW T, T \subseteq SUBSET S, T # {}
  PROVE  \E x \in T : \A y \in T : y \subseteq x => y = x
<1>1. IsWellFoundedOn(StrictSubsetOrdering(S), SUBSET S)
  BY FS_StrictSubsetOrderingWellFounded, FS_FiniteSubsetsOfFinite
<1>2. \E x \in T : \A y \in T : ~ (<<y, x>> \in StrictSubsetOrdering(S))
  <2> DEFINE R == StrictSubsetOrdering(S)
  <2>1. IsWellFoundedOn(R, SUBSET S)
    BY <1>1
  <2> HIDE DEF R
  <2>2. \E x \in T : \A y \in T : ~ (<<y, x>> \in R)
    BY <2>1, WFMin
  <2> QED BY <2>2 DEF R
<1> QED BY <1>2 DEF StrictSubsetOrdering

\* The recursive function behind a sum of the community modules.
Pick(s) == CHOOSE x \in s : TRUE

Body(S, value, g) ==
  [s \in SUBSET S |-> IF s = {} THEN 0 ELSE value[Pick(s)] + g[s \ {Pick(s)}]]

Iter(S, value) == CHOOSE g : g = Body(S, value, g)

\* A sum is what its recursive function returns for the whole set.
LEMMA TotalIsIter ==
  ASSUME NEW S, NEW value PROVE Total(S, value) = Iter(S, value)[S]
BY DEF Total, MapThenSumSet, MapThenFoldSet, Iter, Body, Pick

\* Two folds of functions that agree are the same fold.
LEMMA OneFold ==
  ASSUME NEW S, IsFiniteSet(S), NEW v, NEW w, \A x \in S : v[x] = w[x],
         NEW g, g = Body(S, v, g), NEW h, h = Body(S, w, h)
  PROVE  g = h
<1> DEFINE differ == {s \in SUBSET S : g[s] # h[s]}
<1>1. /\ g = [s \in SUBSET S |-> g[s]] /\ h = [s \in SUBSET S |-> h[s]]
      /\ g[{}] = 0 /\ h[{}] = 0
      /\ \A s \in SUBSET S : s # {} =>
           /\ g[s] = v[Pick(s)] + g[s \ {Pick(s)}]
           /\ h[s] = w[Pick(s)] + h[s \ {Pick(s)}]
  BY DEF Body
<1>2. ASSUME differ # {} PROVE FALSE
  <2>1. PICK s \in differ : \A t \in differ : t \subseteq s => t = s
    <3>1. differ \subseteq SUBSET S
      OBVIOUS
    <3> HIDE DEF differ
    <3> QED BY <1>2, <3>1, LeastSet
  <2>2. s # {}
    BY <1>1, <2>1
  <2>3. Pick(s) \in s
    BY <2>2 DEF Pick
  <2>4. s \ {Pick(s)} \notin differ
    BY <2>1, <2>3
  <2>5. g[s \ {Pick(s)}] = h[s \ {Pick(s)}] /\ v[Pick(s)] = w[Pick(s)]
    BY <2>1, <2>3, <2>4
  <2> QED BY <1>1, <2>1, <2>2, <2>5
<1> QED BY <1>1, <1>2

\* A fold over a set is a fold over its subsets.
LEMMA PartOfFold ==
  ASSUME NEW S, NEW v, NEW g, g = Body(S, v, g), NEW T \in SUBSET S
  PROVE  LET f == [s \in SUBSET T |-> g[s]] IN f = Body(T, v, f)
<1> DEFINE f == [s \in SUBSET T |-> g[s]]
<1>1. \A s \in SUBSET T : f[s] = IF s = {} THEN 0 ELSE v[Pick(s)] + f[s \ {Pick(s)}]
  <2> TAKE s \in SUBSET T
  <2>1. g[s] = IF s = {} THEN 0 ELSE v[Pick(s)] + g[s \ {Pick(s)}]
    BY DEF Body
  <2>2. s \ {Pick(s)} \in SUBSET T
    OBVIOUS
  <2> QED BY <2>1, <2>2
<1> HIDE DEF f
<1>2. f = [s \in SUBSET T |-> f[s]]
  BY DEF f
<1>3. f = Body(T, v, f)
  BY <1>1, <1>2 DEF Body
<1> QED BY <1>3 DEF f

\* Over a finite set there is a fold.
LEMMA FoldExists ==
  ASSUME NEW S, IsFiniteSet(S), NEW v
  PROVE  Iter(S, v) = Body(S, v, Iter(S, v))
<1> DEFINE without == {s \in SUBSET S : ~ \E g : g = Body(s, v, g)}
<1>1. ASSUME without # {} PROVE FALSE
  <2>1. PICK x \in without : \A y \in without : y \subseteq x => y = x
    <3>1. without \subseteq SUBSET S
      OBVIOUS
    <3> HIDE DEF without
    <3> QED BY <1>1, <3>1, LeastSet
  <2>2. \A t \in SUBSET x : t # x => Iter(t, v) = Body(t, v, Iter(t, v))
    BY <2>1 DEF Iter
  <2> DEFINE rest(t) == t \ {Pick(t)}
             G == [t \in SUBSET x |->
                     IF t = {} THEN 0 ELSE v[Pick(t)] + Iter(rest(t), v)[rest(t)]]
  <2>3. \A t \in SUBSET x : IsFiniteSet(t)
    BY <2>1, FS_Subset
  <2>4. ASSUME NEW t \in SUBSET x, t # x PROVE Iter(t, v)[t] = G[t]
    <3>1. CASE t = {}
      <4>1. Iter(t, v)[t] = Body(t, v, Iter(t, v))[t]
        BY <2>2, <2>4
      <4> QED BY <3>1, <4>1 DEF Body
    <3>2. CASE t # {}
      <4> DEFINE u == rest(t)
                 f == [s \in SUBSET u |-> Iter(t, v)[s]]
      <4>1. Pick(t) \in t
        BY <3>2 DEF Pick
      <4>2. u \in SUBSET x /\ u # x /\ u \in SUBSET t
        BY <4>1
      <4>3. f = Body(u, v, f)
        <5> DEFINE g == Iter(t, v)
        <5>1. g = Body(t, v, g)
          BY <2>2, <2>4
        <5>2. [s \in SUBSET u |-> g[s]] = Body(u, v, [s \in SUBSET u |-> g[s]])
          <6> HIDE DEF g, u
          <6> QED BY <4>2, <5>1, PartOfFold
        <5> QED BY <5>2
      <4>4. Iter(u, v) = Body(u, v, Iter(u, v)) /\ IsFiniteSet(u)
        BY <2>2, <2>3, <4>2
      <4>5. Iter(u, v) = f
        <5> HIDE DEF f, u
        <5> QED BY <4>3, <4>4, OneFold
      <4>6. Iter(u, v)[u] = Iter(t, v)[u]
        BY <4>5
      <4>7. Iter(t, v)[t] = Body(t, v, Iter(t, v))[t]
        BY <2>2, <2>4
      <4>8. Body(t, v, Iter(t, v))[t] = v[Pick(t)] + Iter(t, v)[u]
        BY <3>2 DEF Body
      <4> QED BY <3>2, <4>6, <4>7, <4>8
    <3> QED BY <3>1, <3>2
  <2>5. ASSUME NEW t \in SUBSET x, t # {} PROVE G[t] = v[Pick(t)] + G[rest(t)]
    <3>1. Pick(t) \in t
      BY <2>5 DEF Pick
    <3>2. rest(t) \in SUBSET x /\ rest(t) # x
      BY <3>1
    <3>3. Iter(rest(t), v)[rest(t)] = G[rest(t)]
      BY <2>4, <3>2
    <3> QED BY <2>5, <3>3
  <2>6. G = [t \in SUBSET x |-> G[t]] /\ G[{}] = 0
    OBVIOUS
  <2> HIDE DEF G
  <2>7. G = Body(x, v, G)
    BY <2>5, <2>6 DEF Body
  <2> QED BY <2>1, <2>7
<1>2. \E g : g = Body(S, v, g)
  BY <1>1
<1> QED BY <1>2 DEF Iter

\* A sum is what CHOOSE takes from the set first and the sum of the rest.
LEMMA TotalStep ==
  ASSUME NEW S, IsFiniteSet(S), NEW v
  PROVE  Total(S, v) = IF S = {} THEN 0 ELSE v[Pick(S)] + Total(S \ {Pick(S)}, v)
<1> DEFINE u == S \ {Pick(S)}
           f == [s \in SUBSET u |-> Iter(S, v)[s]]
<1>1. Iter(S, v) = Body(S, v, Iter(S, v)) /\ Iter(u, v) = Body(u, v, Iter(u, v))
  BY FoldExists, FS_Subset
<1>2. f = Body(u, v, f)
  BY <1>1, PartOfFold
<1>3. Iter(u, v) = f
  <2>1. IsFiniteSet(u)
    BY FS_Subset
  <2> HIDE DEF f, u
  <2> QED BY <1>1, <1>2, <2>1, OneFold
<1>4. Iter(u, v)[u] = Iter(S, v)[u]
  BY <1>3
<1>5. Iter(S, v)[S] = Body(S, v, Iter(S, v))[S]
  BY <1>1
<1> QED BY <1>4, <1>5, TotalIsIter DEF Body

\* A sum of integers is an integer.
LEMMA TotalIsInt ==
  ASSUME NEW S, IsFiniteSet(S), NEW v, \A x \in S : v[x] \in Int
  PROVE  Total(S, v) \in Int
<1> DEFINE bad == {s \in SUBSET S : Total(s, v) \notin Int}
<1>1. ASSUME bad # {} PROVE FALSE
  <2>1. PICK s \in bad : \A t \in bad : t \subseteq s => t = s
    <3>1. bad \subseteq SUBSET S
      OBVIOUS
    <3> HIDE DEF bad
    <3> QED BY <1>1, <3>1, LeastSet
  <2>2. Total(s, v) = IF s = {} THEN 0 ELSE v[Pick(s)] + Total(s \ {Pick(s)}, v)
    BY <2>1, FS_Subset, TotalStep
  <2>3. s # {}
    BY <2>1, <2>2
  <2>4. Pick(s) \in s
    BY <2>3 DEF Pick
  <2>5. Total(s \ {Pick(s)}, v) \in Int /\ v[Pick(s)] \in Int
    BY <2>1, <2>4
  <2> QED BY <2>1, <2>2, <2>3, <2>5
<1> QED BY <1>1

\* Any element may be taken first.
LEMMA TotalTakes ==
  ASSUME NEW S, IsFiniteSet(S), NEW v, \A x \in S : v[x] \in Int, NEW a \in S
  PROVE  Total(S, v) = v[a] + Total(S \ {a}, v)
<1> DEFINE bad == {s \in SUBSET S : \E x \in s : Total(s, v) # v[x] + Total(s \ {x}, v)}
<1>1. ASSUME bad # {} PROVE FALSE
  <2>1. PICK s \in bad : \A t \in bad : t \subseteq s => t = s
    <3>1. bad \subseteq SUBSET S
      OBVIOUS
    <3> HIDE DEF bad
    <3> QED BY <1>1, <3>1, LeastSet
  <2>2. PICK x \in s : Total(s, v) # v[x] + Total(s \ {x}, v)
    BY <2>1
  <2> DEFINE p == Pick(s)
  <2>3. p \in s
    BY <2>2 DEF Pick
  <2>4. Total(s, v) = v[p] + Total(s \ {p}, v)
    BY <2>1, <2>2, FS_Subset, TotalStep
  <2>5. x # p
    BY <2>2, <2>4
  <2> HIDE DEF p
  <2>6. Total(s \ {p}, v) = v[x] + Total((s \ {p}) \ {x}, v)
    <3>1. s \ {p} \notin bad /\ x \in s \ {p} /\ s \ {p} \in SUBSET S
      BY <2>1, <2>2, <2>3, <2>5
    <3> QED BY <3>1
  <2>7. Total(s \ {x}, v) = v[p] + Total((s \ {x}) \ {p}, v)
    <3>1. s \ {x} \notin bad /\ p \in s \ {x} /\ s \ {x} \in SUBSET S
      BY <2>1, <2>2, <2>3, <2>5
    <3> QED BY <3>1
  <2>8. (s \ {p}) \ {x} = (s \ {x}) \ {p}
    OBVIOUS
  <2>9. v[x] \in Int /\ v[p] \in Int /\ Total((s \ {p}) \ {x}, v) \in Int
    <3>1. \A y \in (s \ {p}) \ {x} : v[y] \in Int
      BY <2>1
    <3>2. IsFiniteSet((s \ {p}) \ {x})
      BY <2>1, FS_Subset
    <3> QED BY <2>1, <2>2, <2>3, <3>1, <3>2, TotalIsInt
  <2> QED BY <2>2, <2>4, <2>6, <2>7, <2>8, <2>9
<1> QED BY <1>1

\* Functions that agree have the same sum.
LEMMA TotalsAgree ==
  ASSUME NEW S, IsFiniteSet(S), NEW v, NEW w, \A x \in S : v[x] = w[x]
  PROVE  Total(S, v) = Total(S, w)
<1>1. Iter(S, v) = Body(S, v, Iter(S, v)) /\ Iter(S, w) = Body(S, w, Iter(S, w))
  BY FoldExists
<1>2. Iter(S, v) = Iter(S, w)
  BY <1>1, OneFold
<1> QED BY <1>2, TotalIsIter

\* One value more or less changes the sum by as much.
LEMMA TotalChanges ==
  ASSUME NEW S, IsFiniteSet(S), NEW a \in S, NEW v, NEW w,
         \A x \in S : v[x] \in Int /\ w[x] \in Int,
         \A x \in S : x # a => w[x] = v[x]
  PROVE  Total(S, w) = Total(S, v) + (w[a] - v[a])
<1> DEFINE rest == S \ {a}
<1>1. Total(S, v) = v[a] + Total(rest, v) /\ Total(S, w) = w[a] + Total(rest, w)
  BY TotalTakes
<1>2. IsFiniteSet(rest) /\ \A x \in rest : v[x] = w[x] /\ v[x] \in Int
  BY FS_Subset
<1>3. Total(rest, v) = Total(rest, w) /\ Total(rest, v) \in Int
  BY <1>2, TotalsAgree, TotalIsInt
<1> QED BY <1>1, <1>3

\* So does one value of an element that is added where it counted for nothing.
LEMMA TotalGrows ==
  ASSUME NEW S, IsFiniteSet(S), NEW a, NEW v, NEW w,
         \A x \in S \cup {a} : v[x] \in Int /\ w[x] \in Int,
         \A x \in S : x # a => w[x] = v[x],
         a \notin S => v[a] = 0
  PROVE  Total(S \cup {a}, w) = Total(S, v) + (w[a] - v[a])
<1>1. CASE a \in S
  <2>1. S \cup {a} = S
    BY <1>1
  <2>2. Total(S, w) = Total(S, v) + (w[a] - v[a])
    BY <1>1, TotalChanges
  <2> QED BY <2>1, <2>2
<1>2. CASE a \notin S
  <2>1. IsFiniteSet(S \cup {a}) /\ (S \cup {a}) \ {a} = S
    BY <1>2, FS_AddElement
  <2>2. Total(S \cup {a}, w) = w[a] + Total(S, w)
    BY <2>1, TotalTakes
  <2>3. Total(S, w) = Total(S, v) /\ Total(S, v) \in Int
    BY <1>2, TotalsAgree, TotalIsInt
  <2> QED BY <1>2, <2>2, <2>3
<1> QED BY <1>1, <1>2

-----------------------------------------------------------------------------
(* The money in the wallets                                                *)

Paid == {b \in Bet : \E way \in Way : saves[b][way] > 0}

\* The sums are over finitely many wallets and bets, and a transfer saves to a
\* wallet of the user it is for.
LedgerInv ==
  /\ IsFiniteSet(opened)
  /\ IsFiniteSet(Paid)
  /\ \A b \in Bet, way \in Way : \A wallet \in found[b][way] :
       wallet.row \in WalletsOf(PlayerOf[b])

\* What a save of a transfer does to the wallet, the ledgers and the bets.
LEMMA SavedTransfer ==
  ASSUME DemoInv, NEW b \in Bet, NEW way \in Way,
         TransferSaved(b, way) \/ TransferSavedSilently(b, way)
  PROVE  /\ \E wallet \in found[b][way] : Commit(b, way, wallet)
         /\ found' = [found EXCEPT ![b][way] = {}]
         /\ UNCHANGED <<opened, bets>>
         /\ saves[b][way] = 0
<1>1. PublishSucceeds(b, way) \/ PublishFails(b, way)
  BY DEF TransferSaved, TransferSavedSilently, Answer
<1>2. bets' = bets /\ IF way = "debit" THEN placing[b].step # "idle" ELSE cashing[b].step # "idle"
  BY <1>1
  DEF PublishSucceeds, PublishFails, PlacePublished, PlacePublishFails, CashOutPublished,
      CashOutPublishFails, game
<1>3. saves[b][way] = 0
  BY <1>2 DEF DemoInv, UnpaidInv, Way
<1> QED BY <1>2, <1>3 DEF TransferSaved, TransferSavedSilently, Answer

\* At most one wallet and one bet more at a time, and a wallet that has been
\* found stays where it is.
LEMMA LedgerInvStep ==
  DemoInv /\ OpeningInv /\ LedgerInv /\ [DemoNext]_demoVars => LedgerInv'
<1> SUFFICES ASSUME DemoInv, OpeningInv, LedgerInv, [DemoNext]_demoVars
             PROVE  LedgerInv'
  OBVIOUS
<1>t. /\ saves \in [Bet -> [Way -> Nat]]
      /\ found \in [Bet -> [Way -> SUBSET FoundWallet]]
  BY DEF DemoInv, TransferInv, FoundInv
<1>f. ASSUME opened \subseteq opened',
             \A b \in Bet, way \in Way : \A wallet \in found'[b][way] :
               wallet \in found[b][way] \/ wallet.row \in WalletsOf(PlayerOf[b])
      PROVE  \A b \in Bet, way \in Way : \A wallet \in found'[b][way] :
               wallet.row \in WalletsOf(PlayerOf[b])'
  BY <1>f DEF LedgerInv, WalletsOf
<1>1. CASE UNCHANGED <<opened, balance, found, saves, raced>>
  BY <1>1 DEF LedgerInv, Paid, WalletsOf
<1>2. CASE DemoCrash
  <2>1. UNCHANGED <<opened, saves>> /\ \A b \in Bet, way \in Way : found'[b][way] = {}
    BY <1>2 DEF DemoCrash, NotYet, ledgers
  <2> QED BY <1>f, <2>1 DEF LedgerInv, Paid
<1>3. ASSUME NEW k \in Opening, Inserted(k) PROVE LedgerInv'
  <2>1. opened' = opened \cup {k} /\ UNCHANGED <<found, saves>>
    BY <1>3 DEF Inserted, ledgers
  <2>2. IsFiniteSet(opened')
    BY <2>1, FS_AddElement DEF LedgerInv
  <2> QED BY <1>f, <2>1, <2>2 DEF LedgerInv, Paid
<1>4. ASSUME NEW b \in Bet, NEW way \in Way, TransferFinds(b, way) PROVE LedgerInv'
  <2>1. PICK row \in WalletsOf(PlayerOf[b]) :
          found' = [found EXCEPT ![b][way] = {[row |-> row, balance |-> balance[row]]}]
    BY <1>4 DEF TransferFinds
  <2>2. \A a \in Bet, w \in Way : \A wallet \in found'[a][w] :
          wallet \in found[a][w] \/ wallet.row \in WalletsOf(PlayerOf[a])
    BY <1>t, <2>1
  <2>3. UNCHANGED <<opened, saves>>
    BY <1>4 DEF TransferFinds, ledgers
  <2> QED BY <1>f, <2>2, <2>3 DEF LedgerInv, Paid
<1>5. ASSUME NEW b \in Bet, NEW way \in Way, found' = [found EXCEPT ![b][way] = {}]
      PROVE  \A a \in Bet, w \in Way : found'[a][w] \subseteq found[a][w]
  BY <1>t, <1>5
<1>6. ASSUME NEW b \in Bet, NEW way \in Way, TransferThrows(b, way) PROVE LedgerInv'
  <2>1. found' = [found EXCEPT ![b][way] = {}] /\ UNCHANGED <<opened, saves>>
    BY <1>6 DEF TransferThrows, Answer, ledgers
  <2> QED BY <1>f, <1>5, <2>1 DEF LedgerInv, Paid
<1>7. ASSUME NEW b \in Bet, NEW way \in Way,
             TransferSaved(b, way) \/ TransferSavedSilently(b, way)
      PROVE  LedgerInv'
  <2>1. /\ found' = [found EXCEPT ![b][way] = {}] /\ opened' = opened
        /\ saves' = [saves EXCEPT ![b][way] = @ + 1]
    BY <1>7, SavedTransfer DEF Commit
  <2>2. Paid' = Paid \cup {b}
    BY <1>t, <2>1 DEF Paid
  <2>3. IsFiniteSet(Paid')
    BY <2>2, FS_AddElement DEF LedgerInv
  <2> QED BY <1>f, <1>5, <2>1, <2>3 DEF LedgerInv
<1> QED BY <1>1, <1>2, <1>3, <1>4, <1>6, <1>7, MoneySteps

\* The equation of MoneyAddsUp, for one user.
AddsUp(u) ==
  Total(WalletsOf(u), balance) + Total(PaidBets(u), Debited)
    = Total(WalletsOf(u), OpeningBalance) + Total(PaidBets(u), Credited)

\* Every sum of the equation is over a finite set, and of integers.
LEMMA SumsAreFinite ==
  ASSUME DemoInv, OpeningInv, LedgerInv, NEW u \in Player
  PROVE  /\ IsFiniteSet(WalletsOf(u)) /\ IsFiniteSet(PaidBets(u))
         /\ \A k \in Opening : balance[k] \in Int /\ OpeningBalance[k] \in Int
         /\ \A b \in Bet : Debited[b] \in Int /\ Credited[b] \in Int
         /\ WalletsOf(u) \subseteq Opening
         /\ Total(WalletsOf(u), balance) \in Int /\ Total(WalletsOf(u), OpeningBalance) \in Int
         /\ Total(PaidBets(u), Debited) \in Int /\ Total(PaidBets(u), Credited) \in Int
<1>1. WalletsOf(u) \subseteq opened /\ PaidBets(u) \subseteq Paid /\ opened \subseteq Opening
  BY DEF WalletsOf, PaidBets, Paid, OpeningInv, OpeningTypeOK
<1>2. IsFiniteSet(WalletsOf(u)) /\ IsFiniteSet(PaidBets(u))
  BY <1>1, FS_Subset DEF LedgerInv
<1>3. \A k \in Opening : balance[k] \in Int /\ OpeningBalance[k] \in Int
  BY OpeningAssumption DEF DemoInv, TransferInv
<1>4. ASSUME NEW b \in Bet PROVE Debited[b] \in Int /\ Credited[b] \in Int
  <2>1. saves[b]["debit"] \in Nat /\ saves[b]["credit"] \in Nat
    BY DEF DemoInv, TransferInv, Way
  <2>2. RoundTrip(Amount[b]) \in Nat /\ RoundTrip(bets[b].winnings) \in Nat
    BY RoundTripIsNat DEF DemoInv, TypeInv, TypeOK, BetRecord
  <2>3. \A m, n \in Nat : m * n \in Int
    OBVIOUS
  <2> QED BY <2>1, <2>2, <2>3 DEF Debited, Credited
<1>5. \A k \in WalletsOf(u) : balance[k] \in Int /\ OpeningBalance[k] \in Int
  BY <1>1, <1>3
<1>6. \A b \in PaidBets(u) : Debited[b] \in Int /\ Credited[b] \in Int
  BY <1>4 DEF PaidBets
<1>7. Total(WalletsOf(u), balance) \in Int /\ Total(WalletsOf(u), OpeningBalance) \in Int
  BY <1>2, <1>5, TotalIsInt
<1>8. Total(PaidBets(u), Debited) \in Int /\ Total(PaidBets(u), Credited) \in Int
  BY <1>2, <1>6, TotalIsInt
<1> QED BY <1>1, <1>2, <1>3, <1>4, <1>7, <1>8

\* A user whose wallets, balances, transfers and winnings a step leaves alone.
LEMMA OthersStayEven ==
  ASSUME DemoInv, OpeningInv, LedgerInv, NEW u \in Player, AddsUp(u),
         WalletsOf(u)' = WalletsOf(u),
         \A k \in WalletsOf(u) : balance'[k] = balance[k],
         \A b \in Bet : PlayerOf[b] = u =>
           /\ saves'[b] = saves[b]
           /\ saves[b]["credit"] = 0 \/ bets'[b].winnings = bets[b].winnings,
         \A b \in Bet : bets'[b].winnings \in Nat
  PROVE  AddsUp(u)'
<1>1. PaidBets(u)' = PaidBets(u)
  BY DEF PaidBets
<1>2. ASSUME NEW b \in PaidBets(u) PROVE Debited'[b] = Debited[b] /\ Credited'[b] = Credited[b]
  <2>1. b \in Bet /\ saves'[b] = saves[b]
    BY DEF PaidBets
  <2>2. CASE saves[b]["credit"] = 0
    <3>1. \A n \in Nat : 0 * RoundTrip(n) = 0
      BY RoundTripIsNat
    <3>2. bets[b].winnings \in Nat
      BY <2>1 DEF DemoInv, TypeInv, TypeOK, BetRecord
    <3> QED BY <2>1, <2>2, <3>1, <3>2 DEF Debited, Credited
  <2>3. CASE bets'[b].winnings = bets[b].winnings
    BY <2>1, <2>3 DEF Debited, Credited
  <2> QED BY <2>1, <2>2, <2>3 DEF PaidBets
<1>3. /\ Total(WalletsOf(u), balance') = Total(WalletsOf(u), balance)
      /\ Total(PaidBets(u), Debited') = Total(PaidBets(u), Debited)
      /\ Total(PaidBets(u), Credited') = Total(PaidBets(u), Credited)
  BY <1>2, SumsAreFinite, TotalsAgree
<1> QED BY <1>1, <1>3 DEF AddsUp

\* A new wallet adds its opening balance to both sides.
LEMMA OpeningStaysEven ==
  ASSUME DemoInv, OpeningInv, LedgerInv, NEW k \in Opening, Inserted(k),
         NEW u \in Player, AddsUp(u)
  PROVE  AddsUp(u)'
<1>1. /\ opened' = opened \cup {k} /\ k \notin opened
      /\ balance' = [balance EXCEPT ![k] = OpeningBalance[k]]
      /\ UNCHANGED <<bets, saves>>
  BY DEF Inserted, OpeningInv, ledgers, vars
<1>2. /\ balance \in [Opening -> Nat] /\ \A b \in Bet : bets[b].winnings \in Nat
      /\ opened \subseteq Opening
  BY DEF DemoInv, TransferInv, TypeInv, TypeOK, BetRecord, OpeningInv, OpeningTypeOK
<1>3. CASE Creator[k] # u
  <2>1. WalletsOf(u)' = WalletsOf(u) /\ k \notin WalletsOf(u)
    BY <1>1, <1>3 DEF WalletsOf
  <2>2. \A l \in WalletsOf(u) : balance'[l] = balance[l]
    BY <1>1, <1>2, <2>1 DEF WalletsOf
  <2> QED BY <1>1, <1>2, <2>1, <2>2, OthersStayEven
<1>4. CASE Creator[k] = u
  <2> DEFINE old == WalletsOf(u)
             new == old \cup {k}
  <2>1. WalletsOf(u)' = new /\ k \notin old /\ new \ {k} = old
    BY <1>1, <1>4 DEF WalletsOf
  <2>2. \A l \in old : balance'[l] = balance[l]
    BY <1>1, <1>2, <2>1 DEF WalletsOf
  <2>3. balance'[k] = OpeningBalance[k] /\ OpeningBalance[k] \in Int
    BY <1>1, <1>2, OpeningAssumption
  <2>4. IsFiniteSet(old) /\ IsFiniteSet(new) /\ old \subseteq Opening
    BY SumsAreFinite, FS_AddElement
  <2>5. \A l \in new : balance'[l] \in Int /\ OpeningBalance[l] \in Int
    BY <2>2, <2>3, <2>4, SumsAreFinite
  <2>6. /\ Total(new, balance') = balance'[k] + Total(old, balance')
        /\ Total(new, OpeningBalance) = OpeningBalance[k] + Total(old, OpeningBalance)
    <3> HIDE DEF new, old
    <3> QED BY <2>1, <2>4, <2>5, TotalTakes DEF new
  <2>7. Total(old, balance') = Total(old, balance)
    BY <2>2, <2>4, TotalsAgree
  <2>8. PaidBets(u)' = PaidBets(u) /\ Debited' = Debited /\ Credited' = Credited
    BY <1>1 DEF PaidBets, Debited, Credited
  <2>9. /\ Total(old, balance) \in Int /\ Total(old, OpeningBalance) \in Int
        /\ Total(PaidBets(u), Debited) \in Int /\ Total(PaidBets(u), Credited) \in Int
    BY SumsAreFinite
  <2>10. Total(old, balance) + Total(PaidBets(u), Debited)
           = Total(old, OpeningBalance) + Total(PaidBets(u), Credited)
    BY DEF AddsUp
  <2>11. AddsUp(u)' <=> Total(new, balance') + Total(PaidBets(u), Debited)
                          = Total(new, OpeningBalance) + Total(PaidBets(u), Credited)
    BY <2>1, <2>8 DEF AddsUp
  <2> HIDE DEF old, new
  <2> QED BY <2>3, <2>6, <2>7, <2>9, <2>10, <2>11
<1> QED BY <1>3, <1>4

\* A save moves as much from or to the wallets of its user as it adds to the
\* ledger of his bets, if the wallet is as it was found.
LEMMA SavingStaysEven ==
  ASSUME DemoInv, OpeningInv, LedgerInv, NEW b \in Bet, NEW way \in Way,
         TransferSaved(b, way) \/ TransferSavedSilently(b, way),
         NEW u \in Player \ raced', AddsUp(u)
  PROVE  AddsUp(u)'
<1>1. PICK wallet \in found[b][way] : Commit(b, way, wallet)
  BY SavedTransfer
<1>2. UNCHANGED <<opened, bets>> /\ saves[b][way] = 0
  BY SavedTransfer
<1>3. /\ saves \in [Bet -> [Way -> Nat]] /\ balance \in [Opening -> Nat]
      /\ \A a \in Bet : bets[a].winnings \in Nat
      /\ wallet.row \in WalletsOf(PlayerOf[b]) /\ WalletsOf(PlayerOf[b]) \subseteq Opening
      /\ wallet.balance \in Nat
  BY DEF DemoInv, TransferInv, FoundInv, TypeInv, TypeOK, BetRecord, LedgerInv,
         OpeningInv, OpeningTypeOK, WalletsOf, FoundWallet
<1> DEFINE amount == TransferAmount(b, way)
           moved == Moved(way, wallet.balance, amount)
<1>4. /\ balance' = [balance EXCEPT ![wallet.row] = moved]
      /\ saves' = [saves EXCEPT ![b][way] = @ + 1]
      /\ u \notin raced' => u \notin raced /\ (u = PlayerOf[b] => balance[wallet.row] = wallet.balance)
  BY <1>1 DEF Commit
<1>5. WalletsOf(u)' = WalletsOf(u)
  BY <1>2 DEF WalletsOf
<1>6. CASE PlayerOf[b] # u
  <2>1. wallet.row \notin WalletsOf(u)
    BY <1>3, <1>6 DEF WalletsOf
  <2>2. \A k \in WalletsOf(u) : balance'[k] = balance[k]
    BY <1>3, <1>4, <2>1, SumsAreFinite
  <2>3. \A a \in Bet : PlayerOf[a] = u => saves'[a] = saves[a]
    BY <1>3, <1>4, <1>6
  <2> QED BY <1>2, <1>3, <1>5, <2>2, <2>3, OthersStayEven
<1>7. CASE PlayerOf[b] = u
  <2> DEFINE old == PaidBets(u)
             have == wallet.balance
  <2>1. amount \in Nat
    BY <1>3, RoundTripIsNat DEF TransferAmount
  <2>2. moved \in Int /\ moved - have = IF way = "debit" THEN - amount ELSE amount
    BY <1>3, <2>1 DEF Moved
  <2>3. balance[wallet.row] = have
    BY <1>4, <1>7
  <2> HIDE DEF amount, moved, have
  <2>4. Total(WalletsOf(u), balance') = Total(WalletsOf(u), balance) + (moved - have)
    <3>1. balance'[wallet.row] = moved
      BY <1>3, <1>4
    <3>2. \A k \in WalletsOf(u) : k # wallet.row => balance'[k] = balance[k]
      BY <1>3, <1>4, SumsAreFinite
    <3>3. \A k \in WalletsOf(u) : balance[k] \in Int /\ balance'[k] \in Int
      BY <2>2, <3>1, <3>2, SumsAreFinite
    <3> QED BY <1>3, <1>7, <2>3, <3>1, <3>2, <3>3, SumsAreFinite, TotalChanges
  <2>5. old' = old \cup {b} /\ (b \notin old => saves[b]["debit"] = 0 /\ saves[b]["credit"] = 0)
    BY <1>3, <1>4, <1>7 DEF PaidBets, Way
  <2>6. /\ Debited'[b] - Debited[b] = IF way = "debit" THEN amount ELSE 0
        /\ Credited'[b] - Credited[b] = IF way = "debit" THEN 0 ELSE amount
        /\ b \notin old => Debited[b] = 0 /\ Credited[b] = 0
        /\ Debited'[b] \in Int /\ Credited'[b] \in Int
    <3>1. /\ saves'[b]["debit"] = IF way = "debit" THEN 1 ELSE saves[b]["debit"]
          /\ saves'[b]["credit"] = IF way = "debit" THEN saves[b]["credit"] ELSE 1
          /\ way = "debit" => saves[b]["debit"] = 0
          /\ way # "debit" => saves[b]["credit"] = 0
      BY <1>2, <1>3, <1>4 DEF Way
    <3>2. amount = IF way = "debit" THEN RoundTrip(Amount[b]) ELSE RoundTrip(bets[b].winnings)
      BY DEF amount, TransferAmount
    <3>3. RoundTrip(Amount[b]) \in Nat /\ RoundTrip(bets[b].winnings) \in Nat
      BY <1>3, RoundTripIsNat
    <3>4. \A n \in Nat : 0 * n = 0 /\ 1 * n = n
      OBVIOUS
    <3>5. Debited[b] \in Int /\ Credited[b] \in Int
      BY SumsAreFinite
    <3>6. /\ Debited[b] = saves[b]["debit"] * RoundTrip(Amount[b])
          /\ Debited'[b] = saves'[b]["debit"] * RoundTrip(Amount[b])
          /\ Credited[b] = saves[b]["credit"] * RoundTrip(bets[b].winnings)
          /\ Credited'[b] = saves'[b]["credit"] * RoundTrip(bets[b].winnings)
      BY <1>2 DEF Debited, Credited
    <3>7. CASE way = "debit"
      <4>1. Debited[b] = 0 /\ Debited'[b] = amount /\ Credited'[b] = Credited[b]
        BY <3>1, <3>2, <3>3, <3>4, <3>6, <3>7
      <4> QED BY <2>1, <2>5, <3>3, <3>4, <3>5, <3>6, <3>7, <4>1
    <3>8. CASE way # "debit"
      <4>1. Credited[b] = 0 /\ Credited'[b] = amount /\ Debited'[b] = Debited[b]
        BY <3>1, <3>2, <3>3, <3>4, <3>6, <3>8
      <4> QED BY <2>1, <2>5, <3>3, <3>4, <3>5, <3>6, <3>8, <4>1
    <3> QED BY <3>7, <3>8
  <2>7. \A a \in old : a # b => Debited'[a] = Debited[a] /\ Credited'[a] = Credited[a]
    BY <1>2, <1>3, <1>4 DEF Debited, Credited, PaidBets
  <2>8. \A a \in old \cup {b} :
          /\ Debited[a] \in Int /\ Debited'[a] \in Int
          /\ Credited[a] \in Int /\ Credited'[a] \in Int
    BY <2>6, <2>7, SumsAreFinite DEF PaidBets
  <2>9. /\ Total(old \cup {b}, Debited') = Total(old, Debited) + (Debited'[b] - Debited[b])
        /\ Total(old \cup {b}, Credited') = Total(old, Credited) + (Credited'[b] - Credited[b])
    <3>1. IsFiniteSet(old)
      BY SumsAreFinite
    <3> DEFINE debits == Debited
               debits2 == Debited'
               credits == Credited
               credits2 == Credited'
    <3>2. /\ \A a \in old \cup {b} : debits[a] \in Int /\ debits2[a] \in Int
          /\ \A a \in old : a # b => debits2[a] = debits[a]
          /\ b \notin old => debits[b] = 0
      BY <2>6, <2>7, <2>8
    <3>3. /\ \A a \in old \cup {b} : credits[a] \in Int /\ credits2[a] \in Int
          /\ \A a \in old : a # b => credits2[a] = credits[a]
          /\ b \notin old => credits[b] = 0
      BY <2>6, <2>7, <2>8
    <3> HIDE DEF old, debits, debits2, credits, credits2
    <3>4. Total(old \cup {b}, debits2) = Total(old, debits) + (debits2[b] - debits[b])
      BY <3>1, <3>2, TotalGrows
    <3>5. Total(old \cup {b}, credits2) = Total(old, credits) + (credits2[b] - credits[b])
      BY <3>1, <3>3, TotalGrows
    <3> QED BY <3>4, <3>5 DEF debits, debits2, credits, credits2
  <2>10. /\ Total(WalletsOf(u), balance) \in Int /\ Total(WalletsOf(u), OpeningBalance) \in Int
         /\ Total(old, Debited) \in Int /\ Total(old, Credited) \in Int
    BY SumsAreFinite
  <2>11. Total(WalletsOf(u), balance) + Total(old, Debited)
           = Total(WalletsOf(u), OpeningBalance) + Total(old, Credited)
    BY DEF AddsUp
  <2>12. AddsUp(u)' <=> Total(WalletsOf(u), balance') + Total(old \cup {b}, Debited')
                          = Total(WalletsOf(u), OpeningBalance) + Total(old \cup {b}, Credited')
    BY <1>5, <2>5 DEF AddsUp
  <2> HIDE DEF old
  <2> QED BY <2>1, <2>2, <2>4, <2>6, <2>9, <2>10, <2>11, <2>12
<1> QED BY <1>6, <1>7

\* Every step of the demo keeps the equation of every user it does not race.
LEMMA MoneyStep ==
  DemoInv /\ OpeningInv /\ LedgerInv /\ MoneyAddsUp /\ [DemoNext]_demoVars /\ TypeInv'
    => MoneyAddsUp'
<1> SUFFICES ASSUME DemoInv, OpeningInv, LedgerInv, MoneyAddsUp, [DemoNext]_demoVars,
                    TypeInv', NEW u \in Player \ raced'
             PROVE  AddsUp(u)'
  BY DEF MoneyAddsUp, AddsUp
<1>1. u \notin raced => AddsUp(u)
  BY DEF MoneyAddsUp, AddsUp
<1>2. \A b \in Bet : /\ saves[b]["credit"] = 0 \/ bets'[b].winnings = bets[b].winnings
                     /\ bets'[b].winnings \in Nat
  BY GameStep, BetsStep DEF DemoInv, UnpaidInv, TransferInv, Way, TypeInv, TypeOK, BetRecord
<1>3. ASSUME UNCHANGED <<opened, balance, saves, raced>> PROVE AddsUp(u)'
  <2>1. WalletsOf(u)' = WalletsOf(u)
    BY <1>3 DEF WalletsOf
  <2> QED BY <1>1, <1>2, <1>3, <2>1, OthersStayEven
<1>4. CASE DemoCrash
  BY <1>3, <1>4 DEF DemoCrash, ledgers
<1>5. ASSUME NEW k \in Opening, Inserted(k) PROVE AddsUp(u)'
  BY <1>1, <1>5, OpeningStaysEven DEF Inserted, ledgers
<1>6. ASSUME NEW b \in Bet, NEW way \in Way, TransferFinds(b, way) \/ TransferThrows(b, way)
      PROVE  AddsUp(u)'
  BY <1>3, <1>6 DEF TransferFinds, TransferThrows, Answer, ledgers
<1>7. ASSUME NEW b \in Bet, NEW way \in Way,
             TransferSaved(b, way) \/ TransferSavedSilently(b, way)
      PROVE  AddsUp(u)'
  <2>1. raced \subseteq raced'
    BY <1>7 DEF TransferSaved, TransferSavedSilently, Commit
  <2> QED BY <1>1, <1>7, <2>1, SavingStaysEven
<1> QED BY <1>3, <1>4, <1>5, <1>6, <1>7, MoneySteps

\* No money appears or gets lost in the demo but by a race of two transfers of
\* one user: for any number of users, wallets and bets, whatever fails, is
\* repeated or crashes, and in whatever order the transfers are saved.
THEOREM DemoMoney == DemoSpec => []MoneyAddsUp
<1>1. DemoInit => LedgerInv /\ MoneyAddsUp
  <2> SUFFICES ASSUME DemoInit PROVE LedgerInv /\ MoneyAddsUp
    OBVIOUS
  <2>1. opened = {} /\ Paid = {} /\ \A u : WalletsOf(u) = {} /\ PaidBets(u) = {}
    BY DEF DemoInit, Paid, WalletsOf, PaidBets
  <2>2. LedgerInv
    BY <2>1, FS_EmptySet DEF LedgerInv, DemoInit, NotYet, Way
  <2>3. \A v : Total({}, v) = 0
    BY TotalStep, FS_EmptySet
  <2> QED BY <2>1, <2>2, <2>3 DEF MoneyAddsUp
<1>2. DemoInv => TypeInv
  BY DEF DemoInv
<1> QED BY <1>1, <1>2, DemoInvariant, LedgerInvStep, MoneyStep, PTL DEF DemoSpec

=============================================================================
