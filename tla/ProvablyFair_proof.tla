------------------------- MODULE ProvablyFair_proof -------------------------
(* Proofs about ProvablyFair. *)
EXTENDS ProvablyFairProps, TLAPS

\* The configured range is in order and within what CrashPoint.create accepts
\* (the default is both), and no generator is forced.
ConfigInRange ==
  /\ PointMin >= 130 /\ PointMax <= 1000 /\ PointMin <= PointMax
  /\ PointOverride = 0

USE DEF NoSeed

-----------------------------------------------------------------------------
(* The formula *)

\* The raw point is an integer.
LEMMA RawPointType ==
  ASSUME NEW h \in 0 .. (Words - 1)
  PROVE  RawPoint(h) \in Int
<1>1. Words - h \in Nat \ {0} /\ 100 * Words - h \in Int BY WordAssumption
<1>2. (100 * Words - h) \div (Words - h) \in Int BY <1>1
<1> QED BY <1>2 DEF RawPoint

\* Math.min(max, Math.max(min, x)) of the generator and Math.max(min,
\* Math.min(max, x)) of the verification are the same, and in the range.
LEMMA FormulasAgree ==
  ASSUME ConfigInRange, NEW h \in 0 .. (Words - 1)
  PROVE  /\ ProvablyFairPoint(h) = Clamp(PointMin, PointMax, RawPoint(h))
         /\ ProvablyFairPoint(h) \in Int
         /\ CanCreate(ProvablyFairPoint(h))
BY RawPointType, ConfigAssumption
   DEF ConfigInRange, ProvablyFairPoint, Clamp, CanCreate

\* Whatever is configured, the generator returns an integer.
LEMMA GenerateType ==
  ASSUME NEW s \in Seed, NEW c \in ClientSeed, NEW n \in Nonce
  PROVE  Generate(Hmac(s, c, n)) \in Int
<1>1. Word(s, c, n) \in 0 .. (Words - 1) BY WordAssumption
<1>2. RawPoint(Word(s, c, n)) \in Int BY <1>1, RawPointType
<1> QED BY <1>2, ConfigAssumption DEF Generate, Hmac, ProvablyFairPoint

-----------------------------------------------------------------------------
(* Types *)

\* Between them, the nonce and the armed betting timers never overtake the
\* number of rounds; verifications die with the process; rounds still to come
\* are unborn.
Counting ==
  /\ alive => nonce + betting <= current + 1
  /\ verifying # {} => alive
  /\ \A r \in Round : r > current => rounds[r].state = "NONE"

TypeInv == TypeOK /\ Counting

\* The initial state has the right types.
LEMMA InitTypeInv == Init => TypeInv
<1> SUFFICES ASSUME Init PROVE TypeInv
  OBVIOUS
<1>1. NoRound \in RoundRecord BY DEF NoRound, RoundRecord
<1>2. rounds \in [Round -> RoundRecord] BY <1>1 DEF Init
<1>3. \A r \in Round : rounds[r].state = "NONE" BY DEF Init, NoRound
<1>4. 0 \in 0 .. MaxRounds /\ 1 \in Nonce BY BoundsAssumption DEF Nonce
<1>5. /\ alive = FALSE /\ serverSeed = 0 /\ clientSeed \in ClientSeed
      /\ nonce = 1 /\ nextSeed = 1 /\ current = 0
      /\ betting = 0 /\ loops = 0 /\ pauses = 0
      /\ failed = {} /\ verifying = {} /\ revealed = {} /\ announced = 0 /\ verdicts = {}
  BY DEF Init
<1>6. /\ alive => serverSeed # NoSeed /\ current # 0
      /\ verifying \subseteq {r \in Round : rounds[r].state = "CRASHED"}
      /\ Counting
  BY <1>3, <1>5 DEF Counting
<1>7. /\ serverSeed \in Seed \cup {NoSeed}
      /\ clientSeed \in ClientSeed /\ nonce \in Nonce
      /\ nextSeed \in Nat \ {0} /\ current \in 0 .. MaxRounds
      /\ betting \in Nat /\ loops \in Nat /\ pauses \in Nat
      /\ failed \subseteq Round /\ revealed \subseteq Seed /\ announced \in Seed \cup {NoSeed}
      /\ verdicts \subseteq Verdict
  BY <1>4, <1>5
<1>8. alive \in BOOLEAN BY <1>5
<1> QED BY <1>2, <1>6, <1>7, <1>8 DEF TypeInv, TypeOK

\* Opening a round keeps the rounds well typed and the counting right.
LEMMA OpenRoundType ==
  ASSUME TypeInv, OpenRound
  PROVE  /\ current' \in 1 .. MaxRounds /\ current' = current + 1
         /\ rounds' \in [Round -> RoundRecord]
         /\ \A r \in Round : r > current' => rounds'[r].state = "NONE"
         /\ \A r \in Round : rounds[r].state = "CRASHED" => rounds'[r] = rounds[r]
<1>1. current + 1 \in Round /\ current' = current + 1
  BY BoundsAssumption DEF OpenRound, TypeInv, TypeOK, Round
<1>2. rounds[current + 1].state = "NONE"
  BY <1>1, BoundsAssumption DEF TypeInv, TypeOK, Counting, Round
<1>3. rounds[current + 1] \in [state : {"NONE", "BETTING"}, crashPoint : {NoCrashPoint}]
  BY <1>1, <1>2 DEF TypeInv, TypeOK, RoundRecord
<1>4. rounds' = [rounds EXCEPT ![current + 1] = [@ EXCEPT !.state = "BETTING"]]
  BY DEF OpenRound
<1>5. [rounds[current + 1] EXCEPT !.state = "BETTING"] \in RoundRecord
  BY <1>3 DEF RoundRecord
<1> QED BY <1>1, <1>2, <1>4, <1>5, BoundsAssumption DEF TypeInv, TypeOK, Counting, Round

\* What a betting timer draws is a crash point record.
LEMMA DrawnPointType ==
  ASSUME TypeOK, alive
  PROVE  DrawnPoint \in CrashPointRecord /\ DrawnPoint.multiplier \in Int
<1>1. serverSeed \in Seed /\ clientSeed \in ClientSeed /\ nonce \in Nonce
  BY DEF TypeOK
<1>2. Generate(DrawnHash) \in Int BY <1>1, GenerateType DEF DrawnHash
<1>3. DrawnHash \in [seed : Seed, clientSeed : ClientSeed, nonce : Nonce]
  BY <1>1 DEF DrawnHash, Hmac
<1> QED BY <1>1, <1>2, <1>3 DEF DrawnPoint, CrashPointRecord

\* Every step keeps the types and the counting.
LEMMA NextTypeInv == TypeInv /\ [Next]_vars => TypeInv'
<1> SUFFICES ASSUME TypeInv, [Next]_vars PROVE TypeInv'
  OBVIOUS
<1> USE DEF TypeInv, TypeOK, Counting
<1>a. alive => current \in Round /\ nonce \in Nat /\ current \in Nat
  BY BoundsAssumption DEF Round, Nonce
<1>1. CASE Boot
  <2>1. nextSeed \in Seed BY <1>1, BoundsAssumption DEF Boot, Seed
  <2>2. OpenRound BY <1>1 DEF Boot
  <2>3. verifying' \subseteq {r \in Round : rounds'[r].state = "CRASHED"} /\ verifying' = {}
    BY <1>1 DEF Boot, verifyVars
  <2>4. 1 \in Nonce BY BoundsAssumption DEF Nonce
  <2> QED
    BY <1>1, <2>1, <2>2, <2>3, <2>4, OpenRoundType, BoundsAssumption, SeedAssumption
       DEF Boot, FreshSeed, verifyVars
<1>2. CASE Crash
  BY <1>2 DEF Crash
<1>3. ASSUME BettingTimerFires
      PROVE  /\ betting' \in Nat /\ current' = current /\ current \in Round
             /\ NextNonce \in Nonce /\ nonce + 1 + betting' <= current + 1
             /\ nonce + betting' <= current + 1
  BY <1>3, <1>a, BoundsAssumption DEF BettingTimerFires, Nonce, NextNonce
<1>4. CASE TransitionToRunning
  <2>1. BettingTimerFires /\ alive BY <1>4 DEF TransitionToRunning, BettingTimerFires
  <2>2. [state |-> "RUNNING", crashPoint |-> DrawnPoint] \in RoundRecord
    BY <2>1, DrawnPointType DEF RoundRecord
  <2>3. rounds' = [rounds EXCEPT ![current] = [state |-> "RUNNING", crashPoint |-> DrawnPoint]]
    BY <1>4 DEF TransitionToRunning
  <2>4. rounds' \in [Round -> RoundRecord] BY <2>2, <2>3
  <2>5. rounds[current].state = "BETTING" BY <1>4 DEF TransitionToRunning, AcceptsCrashPoint
  <2>6. loops' \in Nat BY <1>4 DEF TransitionToRunning
  <2>7. \A r \in Round : r # current => rounds'[r] = rounds[r] BY <2>3
  <2>8. verifying \subseteq {r \in Round : rounds'[r].state = "CRASHED"}
    BY <2>5, <2>7
  <2>9. \A r \in Round : r > current => rounds'[r].state = "NONE"
    BY <2>7, <1>3, <2>1, BoundsAssumption DEF Round
  <2> QED
    BY <1>3, <1>4, <2>1, <2>4, <2>6, <2>8, <2>9 DEF TransitionToRunning, BettingTimerFires, verifyVars, NextNonce
<1>5. CASE TransitionIsLate
  BY <1>5, <1>3 DEF TransitionIsLate, BettingTimerFires, verifyVars, NextNonce
<1>6. CASE TransitionIsRefused
  BY <1>6, <1>3 DEF TransitionIsRefused, BettingTimerFires, verifyVars
<1>7. CASE TransitionToCrashed
  <2>1. current \in Round /\ rounds[current].state = "RUNNING"
    BY <1>7, <1>a DEF TransitionToCrashed
  <2>2. rounds[current] \in [state : {"RUNNING", "CRASHED"}, crashPoint : CrashPointRecord]
    BY <2>1 DEF RoundRecord
  <2>3. rounds' = [rounds EXCEPT ![current] = [@ EXCEPT !.state = "CRASHED"]]
    BY <1>7 DEF TransitionToCrashed
  <2>4. [rounds[current] EXCEPT !.state = "CRASHED"] \in RoundRecord
    BY <2>2 DEF RoundRecord
  <2>5. rounds' \in [Round -> RoundRecord] BY <2>3, <2>4
  <2>6. \A r \in Round : r # current => rounds'[r] = rounds[r] BY <2>3
  <2>7. rounds'[current].state = "CRASHED" BY <2>1, <2>2, <2>3
  <2>8. verifying \subseteq {r \in Round : rounds'[r].state = "CRASHED"} BY <2>6, <2>7
  <2>9. loops' \in Nat /\ pauses' \in Nat BY <1>7 DEF TransitionToCrashed
  <2>10. \A r \in Round : r > current => rounds'[r].state = "NONE"
    BY <2>6, <1>a, <1>7, BoundsAssumption DEF Round, TransitionToCrashed
  <2> QED BY <1>7, <2>5, <2>8, <2>9, <2>10 DEF TransitionToCrashed, seedVars, verifyVars
<1>8. CASE LoopFails
  BY <1>8 DEF LoopFails, seedVars, verifyVars
<1>9. ASSUME PauseEnds \/ CreateRound PROVE TypeInv'
  <2>1. OpenRound /\ alive /\ betting' = betting + 1 /\ pauses' \in Nat
    BY <1>9 DEF PauseEnds, CreateRound, BettingArmed
  <2>2. UNCHANGED <<seedVars, loops, failed, verifyVars>>
    BY <1>9 DEF PauseEnds, CreateRound
  <2>3. verifying' \subseteq {r \in Round : rounds'[r].state = "CRASHED"}
    BY <2>1, <2>2, OpenRoundType DEF verifyVars
  <2>4. nonce + betting' <= current' + 1
    BY <2>1, <1>a, OpenRoundType
  <2> QED
    BY <2>1, <2>2, <2>3, <2>4, OpenRoundType, BoundsAssumption DEF seedVars, verifyVars
<1>10. CASE Status
  BY <1>10 DEF Status, roundVars, verifyVars
<1>11. CASE RevealServerSeed
  <2>1. nextSeed \in Seed BY <1>11, BoundsAssumption DEF RevealServerSeed, Seed
  <2> QED
    BY <1>11, <2>1, BoundsAssumption
       DEF RevealServerSeed, SeedAfterReveal, HashInReveal, FreshSeed, roundVars, verifyVars
<1>12. CASE SetClientSeed
  BY <1>12 DEF SetClientSeed, roundVars, verifyVars
<1>13. ASSUME NEW r \in Round, VerifyFinds(r) PROVE TypeInv'
  BY <1>13 DEF VerifyFinds, FindsForVerification, seedVars, roundVars
<1>14. ASSUME NEW r \in Round, VerifyAnswers(r) PROVE TypeInv'
  <2>1. r \in verifying /\ alive /\ serverSeed \in Seed BY <1>14 DEF VerifyAnswers
  <2> DEFINE v == [round |-> r, seed |-> serverSeed,
                   isValid |-> VerifyProvablyFair(rounds[r].crashPoint, serverSeed)]
  <2>2. VerifyProvablyFair(rounds[r].crashPoint, serverSeed) \in BOOLEAN
    BY DEF VerifyProvablyFair
  <2>3. v \in Verdict BY <2>1, <2>2 DEF Verdict
  <2> HIDE DEF v
  <2>4. verdicts' = verdicts \cup {v} BY <1>14 DEF VerifyAnswers, v
  <2> QED BY <1>14, <2>1, <2>3, <2>4 DEF VerifyAnswers, seedVars, roundVars
<1>15. CASE UNCHANGED vars
  BY <1>15 DEF vars
<1> QED
  BY <1>1, <1>2, <1>4, <1>5, <1>6, <1>7, <1>8, <1>9, <1>10, <1>11, <1>12, <1>13,
     <1>14, <1>15 DEF Next

\* The types and the counting hold in every reachable state.
LEMMA TypeInvariant == Spec => []TypeInv
BY InitTypeInv, NextTypeInv, PTL DEF Spec

\* Types hold for every range, override, set of seeds and number of rounds.
THEOREM TypeCorrect == Spec => []TypeOK
BY TypeInvariant, PTL DEF TypeInv

-----------------------------------------------------------------------------
(* Steps seen from the seeds and from the crash points *)

\* Only a draw gives a round a crash point.
LEMMA OthersKeepPoints ==
  ASSUME TypeInv, [Next]_vars, ~ TransitionToRunning
  PROVE  \A r \in Round : /\ rounds'[r].crashPoint = rounds[r].crashPoint
                          /\ r \in Drawn' <=> r \in Drawn
<1>1. CASE UNCHANGED rounds
  BY <1>1 DEF Drawn
<1>2. CASE OpenRound
  <2>1. current + 1 \in Round /\ rounds[current + 1].state = "NONE"
    BY <1>2, BoundsAssumption DEF OpenRound, TypeInv, TypeOK, Counting, Round
  <2>2. rounds[current + 1] \in [state : {"NONE", "BETTING"}, crashPoint : {NoCrashPoint}]
    BY <2>1 DEF TypeInv, TypeOK, RoundRecord
  <2>3. rounds' = [rounds EXCEPT ![current + 1] = [@ EXCEPT !.state = "BETTING"]]
    BY <1>2 DEF OpenRound
  <2>4. \A r \in Round : r # current + 1 => rounds'[r] = rounds[r]
    BY <2>3 DEF TypeInv, TypeOK
  <2>5. rounds'[current + 1].state = "BETTING"
    BY <2>1, <2>2, <2>3 DEF TypeInv, TypeOK
  <2>6. rounds'[current + 1].crashPoint = rounds[current + 1].crashPoint
    BY <2>1, <2>2, <2>3 DEF TypeInv, TypeOK
  <2> QED BY <2>1, <2>4, <2>5, <2>6 DEF Drawn
<1>3. CASE TransitionToCrashed
  <2>1. current \in Round /\ rounds[current].state = "RUNNING"
    BY <1>3, BoundsAssumption DEF TransitionToCrashed, TypeInv, TypeOK, Round
  <2>2. rounds[current] \in [state : {"RUNNING", "CRASHED"}, crashPoint : CrashPointRecord]
    BY <2>1 DEF TypeInv, TypeOK, RoundRecord
  <2>3. rounds' = [rounds EXCEPT ![current] = [@ EXCEPT !.state = "CRASHED"]]
    BY <1>3 DEF TransitionToCrashed
  <2>4. \A r \in Round : r # current => rounds'[r] = rounds[r]
    BY <2>3 DEF TypeInv, TypeOK
  <2>5. rounds'[current].state = "CRASHED"
    BY <2>1, <2>2, <2>3 DEF TypeInv, TypeOK
  <2>6. rounds'[current].crashPoint = rounds[current].crashPoint
    BY <2>1, <2>2, <2>3 DEF TypeInv, TypeOK
  <2> QED BY <2>1, <2>4, <2>5, <2>6 DEF Drawn
<1> QED
  BY <1>1, <1>2, <1>3
     DEF Next, vars, Boot, Crash, TransitionIsLate, TransitionIsRefused, LoopFails,
         PauseEnds, CreateRound, Status, RevealServerSeed, SetClientSeed,
         VerifyFinds, VerifyAnswers, roundVars

\* What a draw does.
LEMMA DrawStep ==
  ASSUME TypeInv, TransitionToRunning
  PROVE  /\ alive /\ current \in Round /\ current \notin Drawn
         /\ rounds'[current].crashPoint = DrawnPoint
         /\ Drawn' = Drawn \cup {current}
         /\ \A r \in Round : r # current => rounds'[r] = rounds[r]
         /\ nonce' = nonce + 1
         /\ UNCHANGED <<alive, serverSeed, nextSeed, revealed, announced, verdicts>>
<1>1. alive /\ BettingTimerFires BY DEF TransitionToRunning, BettingTimerFires
<1>2. current \in Round
  BY <1>1, BoundsAssumption DEF TypeInv, TypeOK, Round
<1>3. rounds[current].state = "BETTING"
  BY DEF TransitionToRunning, AcceptsCrashPoint
<1>4. rounds' = [rounds EXCEPT ![current] = [state |-> "RUNNING", crashPoint |-> DrawnPoint]]
  BY DEF TransitionToRunning
<1>5. rounds'[current] = [state |-> "RUNNING", crashPoint |-> DrawnPoint]
  BY <1>2, <1>4 DEF TypeInv, TypeOK
<1>6. \A r \in Round : r # current => rounds'[r] = rounds[r]
  BY <1>4 DEF TypeInv, TypeOK
<1>7. Drawn' = Drawn \cup {current} BY <1>2, <1>5, <1>6 DEF Drawn
<1> QED
  BY <1>1, <1>2, <1>3, <1>5, <1>6, <1>7
     DEF TransitionToRunning, BettingTimerFires, NextNonce, Drawn, verifyVars

\* A step keeps the server seed and does not lower the nonce, or it takes a
\* seed never seen before, or the process is gone.
LEMMA SeedAndNonce ==
  ASSUME TypeInv, [Next]_vars
  PROVE  /\ nextSeed' >= nextSeed
         /\ \/ serverSeed' = serverSeed /\ nonce' >= nonce
            \/ serverSeed' = nextSeed /\ nextSeed' = nextSeed + 1
            \/ serverSeed' = NoSeed
<1>1. nonce \in Nat /\ nextSeed \in Nat
  BY BoundsAssumption DEF TypeInv, TypeOK, Nonce
<1> QED
  BY <1>1
     DEF Next, vars, Boot, Crash, TransitionToRunning, TransitionIsLate,
         TransitionIsRefused, BettingTimerFires, NextNonce, TransitionToCrashed,
         LoopFails, PauseEnds, CreateRound, Status, RevealServerSeed,
         SeedAfterReveal, FreshSeed, SetClientSeed, VerifyFinds, VerifyAnswers,
         seedVars

-----------------------------------------------------------------------------
(* Nonces *)

\* Crash points come from seeds generated so far; those of the current seed
\* used nonces below the next one.
PointInv ==
  \A r \in Drawn :
    /\ SeedOf(r) \in Seed /\ SeedOf(r) < nextSeed
    /\ rounds[r].crashPoint.nonce \in Nat
    /\ SeedOf(r) = serverSeed => rounds[r].crashPoint.nonce < nonce

\* The current seed is one of those generated so far.
SeedBelow == serverSeed < nextSeed

NonceInv == PointInv /\ SeedBelow /\ HashesDistinct

\* Every step keeps nonces below the counter of their seed.
LEMMA NextNonceInv == TypeInv /\ NonceInv /\ [Next]_vars => NonceInv'
<1> SUFFICES ASSUME TypeInv, NonceInv, [Next]_vars PROVE NonceInv'
  OBVIOUS
<1>1. nonce \in Nat /\ nextSeed \in Nat /\ serverSeed \in Nat
  BY BoundsAssumption DEF TypeInv, TypeOK, Nonce, Seed
<1>2. SeedBelow'
  <2>1. nextSeed' \in Nat \ {0} /\ serverSeed' \in Nat
    BY NextTypeInv, BoundsAssumption DEF TypeInv, TypeOK, Seed
  <2> QED BY <1>1, <2>1, SeedAndNonce DEF SeedBelow, NonceInv
<1>3. CASE TransitionToRunning
  <2>1. DrawnPoint.hash.seed = serverSeed /\ DrawnPoint.nonce = nonce
    BY DEF DrawnPoint, DrawnHash, Hmac
  <2>2. serverSeed \in Seed BY <1>3, DrawStep DEF TypeInv, TypeOK
  <2>3. \A r \in Drawn : r \in Round /\ r # current
    BY <1>3, DrawStep DEF Drawn
  <2>4. \A r \in Drawn : SeedOf(r)' = SeedOf(r)
                           /\ rounds'[r].crashPoint.nonce = rounds[r].crashPoint.nonce
    BY <1>3, <2>3, DrawStep DEF SeedOf
  <2>5. rounds'[current].crashPoint.hash.seed = serverSeed /\ rounds'[current].crashPoint.nonce = nonce
    BY <1>3, <2>1, DrawStep DEF SeedOf, TransitionToRunning, BettingTimerFires
  <2>6. Drawn' = Drawn \cup {current} /\ nonce' = nonce + 1
          /\ serverSeed' = serverSeed /\ nextSeed' = nextSeed
    BY <1>3, DrawStep
  <2>7. rounds'[current].crashPoint.hash.seed \in Seed /\ rounds'[current].crashPoint.hash.seed < nextSeed
    BY <2>2, <2>5 DEF NonceInv, SeedBelow
  <2>8. PointInv'
    <3> SUFFICES ASSUME NEW r \in Drawn'
                 PROVE  /\ SeedOf(r)' \in Seed /\ SeedOf(r)' < nextSeed'
                        /\ rounds'[r].crashPoint.nonce \in Nat
                        /\ SeedOf(r)' = serverSeed' => rounds'[r].crashPoint.nonce < nonce'
      BY DEF PointInv
    <3>1. CASE r \in Drawn
      BY <1>1, <3>1, <2>4, <2>6 DEF NonceInv, PointInv
    <3>2. CASE r = current
      BY <1>1, <3>2, <2>5, <2>6, <2>7 DEF SeedOf
    <3> QED BY <3>1, <3>2, <2>6
  <2>9. \A r \in Drawn : SeedOf(r) # rounds'[current].crashPoint.hash.seed
                          \/ rounds[r].crashPoint.nonce # nonce
    BY <1>1, <2>5 DEF NonceInv, PointInv
  <2>10. HashesDistinct'
    BY <2>4, <2>5, <2>6, <2>9 DEF NonceInv, HashesDistinct, SeedOf
  <2> QED BY <1>2, <2>8, <2>10 DEF NonceInv
<1>4. CASE ~ TransitionToRunning
  <2>1. \A r \in Round : rounds'[r].crashPoint = rounds[r].crashPoint
                           /\ (r \in Drawn' <=> r \in Drawn)
    BY <1>4, OthersKeepPoints
  <2>2. Drawn' = Drawn
    BY <2>1 DEF Drawn
  <2>3. \A r \in Drawn : SeedOf(r)' = SeedOf(r)
                           /\ rounds'[r].crashPoint.nonce = rounds[r].crashPoint.nonce
    BY <2>1 DEF SeedOf, Drawn
  <2>4. nextSeed' \in Nat /\ nonce' \in Nat
    BY NextTypeInv, BoundsAssumption DEF TypeInv, TypeOK, Nonce
  <2>5. PointInv'
    <3> SUFFICES ASSUME NEW r \in Drawn
                 PROVE  /\ SeedOf(r) \in Seed /\ SeedOf(r) < nextSeed'
                        /\ rounds[r].crashPoint.nonce \in Nat
                        /\ SeedOf(r) = serverSeed' => rounds[r].crashPoint.nonce < nonce'
      BY <2>2, <2>3 DEF PointInv
    <3>1. SeedOf(r) \in Seed /\ SeedOf(r) < nextSeed /\ rounds[r].crashPoint.nonce \in Nat
            /\ (SeedOf(r) = serverSeed => rounds[r].crashPoint.nonce < nonce)
      BY DEF NonceInv, PointInv
    <3>2. SeedOf(r) \in Nat /\ SeedOf(r) # 0 BY <3>1, BoundsAssumption DEF Seed
    <3> QED BY <1>1, <2>4, <3>1, <3>2, SeedAndNonce
  <2>6. HashesDistinct' BY <2>2, <2>3 DEF NonceInv, HashesDistinct
  <2> QED BY <1>2, <2>5, <2>6 DEF NonceInv
<1> QED BY <1>3, <1>4

\* No nonce is used twice with one server seed, whatever is configured.
THEOREM NoncesOnce == Spec => []HashesDistinct
<1>1. Init => NonceInv
  BY DEF Init, NonceInv, PointInv, SeedBelow, HashesDistinct, Drawn, NoRound
<1>2. NonceInv => HashesDistinct BY DEF NonceInv
<1> QED BY <1>1, <1>2, NextNonceInv, TypeInvariant, PTL DEF Spec

-----------------------------------------------------------------------------
(* Crash points *)

\* A crash point never changes, whatever is configured.
THEOREM CrashPointsFixed == Spec => CrashPointsStay
<1>1. TypeInv /\ [Next]_vars => [\A r \in Drawn : ~ Draws(r)]_vars
  <2> SUFFICES ASSUME TypeInv, [Next]_vars, NEW r \in Drawn PROVE ~ Draws(r)
    OBVIOUS
  <2>1. r \in Round BY DEF Drawn
  <2>2. CASE TransitionToRunning
    BY <2>1, <2>2, DrawStep DEF Draws
  <2>3. CASE ~ TransitionToRunning
    BY <2>1, <2>3, OthersKeepPoints DEF Draws
  <2> QED BY <2>2, <2>3
<1> QED BY <1>1, TypeInvariant, PTL DEF Spec, CrashPointsStay

\* What was drawn verifies; the hash is the HMAC the row names.
LEMMA NextDrawVerifies ==
  ASSUME ConfigInRange, TypeInv, DrawVerifies, [Next]_vars
  PROVE  DrawVerifies'
<1>1. CASE TransitionToRunning
  <2>1. serverSeed \in Seed /\ clientSeed \in ClientSeed /\ nonce \in Nonce
    BY <1>1, DrawStep DEF TypeInv, TypeOK
  <2>2. Word(serverSeed, clientSeed, nonce) \in 0 .. (Words - 1)
    BY <2>1, WordAssumption
  <2>3. ~ Overridden BY DEF ConfigInRange, Overridden
  <2>4. DrawnPoint.multiplier =
          Clamp(PointMin, PointMax, RawPoint(Word(serverSeed, clientSeed, nonce)))
    BY <2>2, <2>3, FormulasAgree DEF DrawnPoint, DrawnHash, Hmac, Generate
  <2>5. VerifyProvablyFair(DrawnPoint, serverSeed)
    BY <2>4 DEF VerifyProvablyFair, DrawnPoint, DrawnHash, Hmac
  <2>6. DrawnPoint.hash.seed = serverSeed BY DEF DrawnPoint, DrawnHash, Hmac
  <2> SUFFICES ASSUME NEW r \in Drawn'
               PROVE  VerifyProvablyFair(rounds'[r].crashPoint, rounds'[r].crashPoint.hash.seed)
    BY DEF DrawVerifies, SeedOf, VerifyProvablyFair
  <2>7. CASE r = current BY <1>1, <2>5, <2>6, <2>7, DrawStep
  <2>8. CASE r # current
    <3>1. r \in Drawn /\ rounds'[r] = rounds[r] BY <1>1, <2>8, DrawStep DEF Drawn
    <3> QED BY <3>1 DEF DrawVerifies, SeedOf
  <2> QED BY <2>7, <2>8
<1>2. CASE ~ TransitionToRunning
  <2>1. Drawn' = Drawn BY <1>2, OthersKeepPoints DEF Drawn
  <2>2. \A r \in Drawn : rounds'[r].crashPoint = rounds[r].crashPoint
    BY <1>2, OthersKeepPoints DEF Drawn
  <2> QED BY <2>1, <2>2 DEF DrawVerifies, SeedOf, VerifyProvablyFair
<1> QED BY <1>1, <1>2

\* Every drawn round verifies with the seed it was drawn with, for every word
\* size, every HMAC and every range that CrashPoint.create takes.
THEOREM DrawnRoundsVerify ==
  ASSUME ConfigInRange
  PROVE  Spec => []DrawVerifies
<1>1. Init => DrawVerifies BY DEF Init, DrawVerifies, Drawn, NoRound
<1>2. TypeInv /\ DrawVerifies /\ [Next]_vars => DrawVerifies' BY NextDrawVerifies
<1> QED BY <1>1, <1>2, TypeInvariant, PTL DEF Spec

-----------------------------------------------------------------------------
(* Verdicts *)

VerdictInv ==
  \A v \in verdicts : v.round \in Drawn /\ (v.isValid <=> SeedOf(v.round) = v.seed)

\* The verification compares the whole HMAC, so another seed never passes.
LEMMA VerifyNamesSeed ==
  ASSUME DrawVerifies, NEW r \in Drawn, NEW s
  PROVE  VerifyProvablyFair(rounds[r].crashPoint, s) <=> SeedOf(r) = s
<1>1. VerifyProvablyFair(rounds[r].crashPoint, SeedOf(r)) BY DEF DrawVerifies
<1>2. ASSUME VerifyProvablyFair(rounds[r].crashPoint, s) PROVE SeedOf(r) = s
  BY <1>2 DEF VerifyProvablyFair, Hmac, SeedOf
<1> QED BY <1>1, <1>2

\* Every step keeps the verdicts exact.
LEMMA NextVerdictInv ==
  ASSUME TypeInv, DrawVerifies, VerdictInv, [Next]_vars
  PROVE  VerdictInv'
<1>1. \A r \in Drawn : r \in Drawn' /\ rounds'[r].crashPoint = rounds[r].crashPoint
  <2>1. CASE TransitionToRunning BY <2>1, DrawStep DEF Drawn
  <2>2. CASE ~ TransitionToRunning BY <2>2, OthersKeepPoints DEF Drawn
  <2> QED BY <2>1, <2>2
<1>2. CASE UNCHANGED verdicts
  BY <1>1, <1>2 DEF VerdictInv, SeedOf
<1>3. ASSUME NEW r \in Round, VerifyAnswers(r) PROVE VerdictInv'
  <2>1. r \in Drawn BY <1>3 DEF VerifyAnswers, TypeInv, TypeOK, Drawn
  <2> DEFINE w == [round |-> r, seed |-> serverSeed,
                   isValid |-> VerifyProvablyFair(rounds[r].crashPoint, serverSeed)]
  <2>2. w.round = r /\ w.seed = serverSeed
          /\ (w.isValid <=> VerifyProvablyFair(rounds[r].crashPoint, serverSeed))
    OBVIOUS
  <2>3. w.isValid <=> SeedOf(w.round) = w.seed
    BY <2>1, <2>2, VerifyNamesSeed
  <2>4. verdicts' = verdicts \cup {w} BY <1>3 DEF VerifyAnswers
  <2> HIDE DEF w
  <2> SUFFICES ASSUME NEW v \in verdicts'
               PROVE  v.round \in Drawn' /\ (v.isValid <=> SeedOf(v.round)' = v.seed)
    BY DEF VerdictInv, SeedOf
  <2>5. v.round \in Drawn /\ (v.isValid <=> SeedOf(v.round) = v.seed)
    BY <2>1, <2>2, <2>3, <2>4 DEF VerdictInv
  <2> QED BY <1>1, <2>5 DEF SeedOf
<1> QED
  BY <1>2, <1>3
     DEF Next, vars, Boot, Crash, TransitionToRunning, TransitionIsLate,
         TransitionIsRefused, BettingTimerFires, TransitionToCrashed, LoopFails,
         PauseEnds, CreateRound, Status, RevealServerSeed, SetClientSeed,
         VerifyFinds, verifyVars

\* The endpoint says VALID for the rounds of the seed of the moment, no others.
THEOREM VerdictsAreExact ==
  ASSUME ConfigInRange
  PROVE  Spec => []VerdictsTellTheSeed
<1>1. Init => VerdictInv BY DEF Init, VerdictInv
<1>2. TypeInv /\ DrawVerifies /\ VerdictInv /\ [Next]_vars => VerdictInv'
  BY NextVerdictInv
<1>3. VerdictInv => VerdictsTellTheSeed BY DEF VerdictInv, VerdictsTellTheSeed
<1> QED BY <1>1, <1>2, <1>3, TypeInvariant, DrawnRoundsVerify, PTL DEF Spec

-----------------------------------------------------------------------------
(* Seeds *)

\* Seeds given away are older than the current one, and the hash announced
\* last is that of the current one.
SeedInv ==
  /\ ~ alive => serverSeed = NoSeed
  /\ serverSeed < nextSeed
  /\ \A s \in revealed : s \in Nat /\ s < nextSeed /\ s # serverSeed /\ s # NoSeed
  /\ announced \in {NoSeed, serverSeed}

\* Every step keeps the current seed secret and announced.
LEMMA NextSeedInv == TypeInv /\ SeedInv /\ [Next]_vars => SeedInv'
<1> SUFFICES ASSUME TypeInv, SeedInv, [Next]_vars PROVE SeedInv'
  OBVIOUS
<1> USE DEF SeedInv
<1>0. nextSeed \in Nat /\ serverSeed \in Nat /\ (alive => serverSeed # NoSeed)
        /\ (~ alive => serverSeed = NoSeed)
  BY BoundsAssumption DEF TypeInv, TypeOK, Seed
<1>1. CASE Boot BY <1>0, <1>1 DEF Boot, FreshSeed
<1>2. CASE Crash BY <1>0, <1>2 DEF Crash
<1>3. CASE RevealServerSeed
  BY <1>0, <1>3 DEF RevealServerSeed, SeedAfterReveal, HashInReveal, FreshSeed
<1>4. CASE Status \/ SetClientSeed
  BY <1>0, <1>4 DEF Status, SetClientSeed
<1>5. CASE UNCHANGED <<alive, serverSeed, nextSeed, revealed, announced>>
  BY <1>5
<1> QED
  BY <1>1, <1>2, <1>3, <1>4, <1>5
     DEF Next, vars, TransitionToRunning, TransitionIsLate, TransitionIsRefused,
         BettingTimerFires, TransitionToCrashed, LoopFails, PauseEnds, CreateRound,
         VerifyFinds, VerifyAnswers, seedVars

\* The current seed is secret and announced in every reachable state.
LEMMA SeedInvariant == Spec => []SeedInv
<1>1. Init => SeedInv BY DEF Init, SeedInv
<1> QED BY <1>1, NextSeedInv, TypeInvariant, PTL DEF Spec

\* The seed of a draw.
LEMMA DrawnSeed ==
  ASSUME TypeInv, [Next]_vars, NEW r \in Round, Draws(r)
  PROVE  alive /\ rounds'[r].crashPoint.hash.seed = serverSeed
<1>1. TransitionToRunning BY OthersKeepPoints DEF Draws
<1>2. r = current BY <1>1, DrawStep DEF Draws
<1> QED BY <1>1, <1>2, DrawStep DEF DrawnPoint, DrawnHash, Hmac

\* No round is drawn with a revealed seed, or with any but the one announced last.
THEOREM DrawsAreCommitted == Spec => DrawsUseCommittedSeed
<1>1. TypeInv /\ SeedInv /\ [Next]_vars
        => [\A r \in Round : Draws(r) =>
              /\ SeedOf(r)' \notin revealed
              /\ announced \in {NoSeed, SeedOf(r)'}]_vars
  BY DrawnSeed DEF SeedInv, SeedOf
<1> QED BY <1>1, TypeInvariant, SeedInvariant, PTL DEF Spec, DrawsUseCommittedSeed

-----------------------------------------------------------------------------
(* Progress is always scheduled *)

\* Every step leaves the current round with what moves it on.
LEMMA NextDriven ==
  ASSUME TypeInv, Driven, [Next]_vars
  PROVE  Driven'
<1>0. betting \in Nat /\ loops \in Nat /\ pauses \in Nat /\ (alive => current \in Round)
  BY BoundsAssumption DEF TypeInv, TypeOK, Round
<1>1. ASSUME OpenRound, betting' > 0 PROVE Driven'
  <2>1. current' = current + 1 /\ current + 1 \in Round
    BY <1>1, BoundsAssumption DEF OpenRound, TypeInv, TypeOK, Round
  <2>2. rounds[current + 1].state = "NONE"
    BY <2>1, BoundsAssumption DEF TypeInv, TypeOK, Counting, Round
  <2>3. rounds[current + 1] \in [state : {"NONE", "BETTING"}, crashPoint : {NoCrashPoint}]
    BY <2>1, <2>2 DEF TypeInv, TypeOK, RoundRecord
  <2>4. rounds' = [rounds EXCEPT ![current + 1] = [@ EXCEPT !.state = "BETTING"]]
    BY <1>1 DEF OpenRound
  <2>5. rounds'[current + 1].state = "BETTING"
    BY <2>1, <2>3, <2>4 DEF TypeInv, TypeOK
  <2> QED BY <1>1, <2>1, <2>5 DEF Driven
<1>2. CASE Boot BY <1>1, <1>2 DEF Boot
<1>3. CASE PauseEnds \/ CreateRound
  BY <1>0, <1>1, <1>3 DEF PauseEnds, CreateRound, BettingArmed
<1>4. CASE Crash BY <1>4 DEF Crash, Driven
<1>5. CASE TransitionToRunning
  <2>1. rounds'[current].state = "RUNNING" /\ current' = current
    BY <1>0, <1>5
       DEF TransitionToRunning, BettingTimerFires, TypeInv, TypeOK
  <2>2. loops' > 0 \/ current \in failed'
    BY <1>0, <1>5 DEF TransitionToRunning
  <2> QED BY <2>1, <2>2 DEF Driven
<1>6. CASE TransitionIsLate
  BY <1>6 DEF TransitionIsLate, BettingTimerFires, AcceptsCrashPoint, Driven
<1>7. CASE TransitionIsRefused
  BY <1>7 DEF TransitionIsRefused, BettingTimerFires, AcceptsCrashPoint, Driven
<1>8. CASE TransitionToCrashed
  <2>1. current \in Round /\ rounds[current].state = "RUNNING" /\ current' = current
    BY <1>0, <1>8 DEF TransitionToCrashed
  <2>2. rounds[current] \in [state : {"RUNNING", "CRASHED"}, crashPoint : CrashPointRecord]
    BY <2>1 DEF TypeInv, TypeOK, RoundRecord
  <2>3. rounds' = [rounds EXCEPT ![current] = [@ EXCEPT !.state = "CRASHED"]]
    BY <1>8 DEF TransitionToCrashed
  <2>4. rounds'[current].state = "CRASHED"
    BY <2>1, <2>2, <2>3 DEF TypeInv, TypeOK
  <2>5. pauses' > 0 BY <1>0, <1>8 DEF TransitionToCrashed
  <2> QED BY <2>1, <2>4, <2>5 DEF Driven
<1>9. CASE LoopFails BY <1>9 DEF LoopFails, seedVars, Driven
<1>10. CASE UNCHANGED <<alive, roundVars>>
  BY <1>10 DEF roundVars, Driven
<1> QED
  BY <1>2, <1>3, <1>4, <1>5, <1>6, <1>7, <1>8, <1>9, <1>10
     DEF Next, vars, roundVars, seedVars, Status, RevealServerSeed, SetClientSeed,
         VerifyFinds, VerifyAnswers

\* Unless its draw failed, the current round always has what moves it on, with
\* any configuration and any use of POST /games/rounds.
THEOREM AlwaysDriven == Spec => []Driven
<1>1. Init => Driven BY DEF Init, Driven
<1>2. TypeInv /\ Driven /\ [Next]_vars => Driven' BY NextDriven
<1> QED BY <1>1, <1>2, TypeInvariant, PTL DEF Spec
=============================================================================
