---------------------------- MODULE ProvablyFair ----------------------------
(***************************************************************************)
(* How crash points come about and are verified: the server seed, client   *)
(* seed and nonce of RoundLifecycleService, the crash point generator, and *)
(* the verify use case.                                                    *)
(*                                                                         *)
(* Random values are fresh numbers: the k-th server seed ever generated is *)
(* k, and its SHA-256 hash is represented by the same number.  An          *)
(* HMAC-SHA256 is the triple it is computed from (seed, client seed,       *)
(* nonce), of which Word gives the first four bytes.  A multiplier is in   *)
(* hundredths.  Saves and bets are in RoundLifecycle; here a save can only *)
(* fail because the row does not take the value.                           *)
(***************************************************************************)
EXTENDS Integers

CONSTANTS
  ClientSeed,     \* the non-blank client seeds
  LongSeed,       \* those longer than the 255 characters of their column
  Words,          \* 2^32
  Word(_, _, _),  \* Word(s, c, n): the first bytes of the HMAC, as a number
  PointMin,       \* CRASH_POINT_MIN
  PointMax,       \* CRASH_POINT_MAX
  PointOverride,  \* CRASH_POINT_OVERRIDE, 0 when it is not set
  ManualRounds,   \* whether clients use POST /games/rounds
  MaxSeeds,       \* bound: server seeds ever generated
  MaxRounds       \* bound: rounds ever opened

NoSeed == 0
Seed == 1 .. MaxSeeds
Nonce == 1 .. (MaxRounds + 1)   \* a process arms at most MaxRounds betting timers

ASSUME BoundsAssumption == MaxSeeds \in Nat /\ MaxRounds \in Nat
ASSUME SeedAssumption == LongSeed \subseteq ClientSeed
ASSUME WordAssumption ==
  /\ Words \in Nat \ {0}
  /\ \A s \in Seed, c \in ClientSeed, n \in Nonce :
       Word(s, c, n) \in 0 .. (Words - 1)
ASSUME ConfigAssumption ==
  /\ PointMin \in Nat /\ PointMax \in Nat /\ PointOverride \in Nat
  /\ ManualRounds \in BOOLEAN

-----------------------------------------------------------------------------
(* The generator (crash-point-generator.ts) and its choice (app.module.ts) *)

Clamp(low, high, x) ==
  LET capped == IF x > high THEN high ELSE x
  IN  IF capped < low THEN low ELSE capped

\* h % 100 === 0 ? 1.0 : Math.floor((100 * e - h) / (e - h)) / 100
RawPoint(h) ==
  IF h % 100 = 0 THEN 100 ELSE (100 * Words - h) \div (Words - h)

\* Math.min(max, Math.max(min, raw))
ProvablyFairPoint(h) ==
  LET raised == IF RawPoint(h) < PointMin THEN PointMin ELSE RawPoint(h)
  IN  IF raised > PointMax THEN PointMax ELSE raised

Overridden == PointOverride # 0 /\ PointOverride \in PointMin .. PointMax

Generate(hash) ==
  IF Overridden THEN PointOverride
  ELSE ProvablyFairPoint(Word(hash.seed, hash.clientSeed, hash.nonce))

-----------------------------------------------------------------------------
(* CrashPoint *)

Hmac(s, c, n) == [seed |-> s, clientSeed |-> c, nonce |-> n]

CrashPointRecord ==
  [multiplier : Int,
   hash : [seed : Seed, clientSeed : ClientSeed, nonce : Nonce],
   clientSeed : ClientSeed,
   nonce : Nonce]

NoCrashPoint == [multiplier |-> 0]

\* CrashPoint.create accepts 1.3 to 10.0, whatever is configured
CanCreate(multiplier) == multiplier >= 130 /\ multiplier <= 1000

VerifyProvablyFair_anyHash(cp, s) ==
  cp.multiplier =
    Clamp(PointMin, PointMax, RawPoint(Word(s, cp.clientSeed, cp.nonce)))
VerifyProvablyFair_wholeRange(cp, s) ==
  /\ Hmac(s, cp.clientSeed, cp.nonce) = cp.hash
  /\ cp.multiplier = RawPoint(Word(s, cp.clientSeed, cp.nonce))

\* Hundredths differ by less than 0.01 when they are equal.
VerifyProvablyFair(cp, s) ==
  /\ Hmac(s, cp.clientSeed, cp.nonce) = cp.hash
  /\ cp.multiplier =
       Clamp(PointMin, PointMax, RawPoint(Word(s, cp.clientSeed, cp.nonce)))

-----------------------------------------------------------------------------
VARIABLES
  alive,       \* the process runs
  serverSeed,  \* _serverSeed, of which _serverSeedHash is the hash
  clientSeed,  \* _clientSeed
  nonce,       \* _nonce
  nextSeed,    \* the next server seed randomBytes will return
  current,     \* the round this.currentRound
  betting,     \* betting timers that are armed
  loops,       \* multiplier loops that run
  pauses,      \* pause timers that are armed
  rounds,      \* state and crash point of every round ever opened
  failed,      \* history: rounds whose draw was refused or not saved
  verifying,   \* rounds a verification has found in the database
  revealed,    \* history: the server seeds given away
  announced,   \* history: the last hash this process gave to anybody
  verdicts     \* history: answers of the verify endpoint

vars == <<alive, serverSeed, clientSeed, nonce, nextSeed, current,
          betting, loops, pauses, rounds, failed, verifying, revealed, announced, verdicts>>

seedVars == <<alive, serverSeed, clientSeed, nonce, nextSeed, revealed, announced>>
verifyVars == <<verifying, verdicts>>
roundVars == <<current, betting, loops, pauses, rounds, failed>>

Round == 1 .. MaxRounds

NoRound == [state |-> "NONE", crashPoint |-> NoCrashPoint]

Init ==
  /\ alive = FALSE
  /\ serverSeed = NoSeed /\ clientSeed \in ClientSeed \ LongSeed /\ nonce = 1
  /\ nextSeed = 1
  /\ current = 0
  /\ betting = 0 /\ loops = 0 /\ pauses = 0
  /\ rounds = [r \in Round |-> NoRound] /\ failed = {}
  /\ verifying = {} /\ revealed = {} /\ announced = NoSeed /\ verdicts = {}

-----------------------------------------------------------------------------
(* Process *)

\* generateSeed()
FreshSeed == nextSeed

\* initializeNewRound up to its save; the seeds stay
OpenRound ==
  /\ current < MaxRounds
  /\ current' = current + 1
  /\ rounds' = [rounds EXCEPT ![current + 1].state = "BETTING"]

\* constructor and onModuleInit; the seeds of an earlier process are gone
Boot ==
  /\ ~ alive
  /\ nextSeed <= MaxSeeds
  /\ alive' = TRUE
  /\ serverSeed' = FreshSeed
  /\ nextSeed' = nextSeed + 1
  /\ clientSeed' \in ClientSeed \ LongSeed
  /\ nonce' = 1
  /\ OpenRound
  /\ betting' = 1
  /\ UNCHANGED <<loops, pauses, failed, revealed, announced, verifyVars>>

Crash ==
  /\ alive
  /\ alive' = FALSE
  /\ serverSeed' = NoSeed
  /\ betting' = 0 /\ loops' = 0 /\ pauses' = 0
  /\ announced' = NoSeed
  /\ verifying' = {}
  /\ UNCHANGED <<clientSeed, nonce, nextSeed, current, rounds, failed, revealed, verdicts>>

-----------------------------------------------------------------------------
(* Rounds *)

NextNonce_reused == nonce
NextNonce_perRound == current + 2

\* this._nonce++
NextNonce == nonce + 1

DrawnHash == Hmac(serverSeed, clientSeed, nonce)

DrawnPoint ==
  [multiplier |-> Generate(DrawnHash), hash |-> DrawnHash,
   clientSeed |-> clientSeed, nonce |-> nonce]

\* setCrashPoint does not throw; a round in BETTING has no crash point yet
AcceptsCrashPoint(r) == rounds[r].state = "BETTING"

BettingTimerFires ==
  /\ alive /\ betting > 0
  /\ betting' = betting - 1
  /\ UNCHANGED <<alive, serverSeed, clientSeed, nextSeed, revealed, announced,
                 current, pauses, verifyVars>>

\* transitionToRunning: the draw is one turn of the event loop.  When the row
\* does not take the client seed the save rejects, which is logged, and the
\* multiplier loop is not started.
TransitionToRunning ==
  /\ BettingTimerFires
  /\ AcceptsCrashPoint(current)
  /\ CanCreate(DrawnPoint.multiplier)
  /\ nonce' = NextNonce
  /\ rounds' = [rounds EXCEPT ![current] = [state |-> "RUNNING",
                                            crashPoint |-> DrawnPoint]]
  /\ \/ clientSeed \notin LongSeed /\ loops' = loops + 1 /\ UNCHANGED failed
     \/ clientSeed \in LongSeed /\ failed' = failed \cup {current} /\ UNCHANGED loops

\* Another timer has started the round: setCrashPoint throws after _nonce++.
TransitionIsLate ==
  /\ BettingTimerFires
  /\ ~ AcceptsCrashPoint(current)
  /\ CanCreate(DrawnPoint.multiplier)
  /\ nonce' = NextNonce
  /\ UNCHANGED <<rounds, failed, loops>>

\* CrashPoint.create throws; the error is logged.
TransitionIsRefused ==
  /\ BettingTimerFires
  /\ ~ CanCreate(DrawnPoint.multiplier)
  /\ failed' = failed \cup {r \in {current} : AcceptsCrashPoint(r)}
  /\ UNCHANGED <<nonce, rounds, loops>>

\* a multiplier loop reaches the crash point
TransitionToCrashed ==
  /\ alive /\ loops > 0
  /\ rounds[current].state = "RUNNING"
  /\ rounds' = [rounds EXCEPT ![current].state = "CRASHED"]
  /\ loops' = loops - 1
  /\ pauses' = pauses + 1
  /\ UNCHANGED <<seedVars, current, betting, failed, verifyVars>>

\* updateMultiplier throws and the loop clears itself
LoopFails ==
  /\ alive /\ loops > 0
  /\ rounds[current].state # "RUNNING"
  /\ loops' = loops - 1
  /\ UNCHANGED <<seedVars, current, betting, pauses, rounds, failed, verifyVars>>

BettingArmed_withFirstBet == betting

\* startBettingPhase, at the end of initializeNewRound
BettingArmed == betting + 1

\* the timer armed by transitionToCrashed fires
PauseEnds ==
  /\ alive /\ pauses > 0
  /\ OpenRound
  /\ pauses' = pauses - 1
  /\ betting' = BettingArmed
  /\ UNCHANGED <<seedVars, loops, failed, verifyVars>>

\* POST /games/rounds
CreateRound ==
  /\ alive /\ ManualRounds
  /\ rounds[current].state = "CRASHED"
  /\ OpenRound
  /\ betting' = BettingArmed
  /\ UNCHANGED <<seedVars, loops, pauses, failed, verifyVars>>

-----------------------------------------------------------------------------
(* Seeds *)

\* GET /games/provably-fair
Status ==
  /\ alive
  /\ announced' = serverSeed
  /\ UNCHANGED <<alive, serverSeed, clientSeed, nonce, nextSeed, revealed,
                 roundVars, verifyVars>>

SeedAfterReveal_same == serverSeed
SeedAfterReveal == FreshSeed

\* the response carries the hash of the seed that replaces the revealed one
HashInReveal == SeedAfterReveal

\* POST /games/provably-fair/reveal
RevealServerSeed ==
  /\ alive
  /\ nextSeed <= MaxSeeds
  /\ revealed' = revealed \cup {serverSeed}
  /\ serverSeed' = SeedAfterReveal
  /\ nextSeed' = nextSeed + 1
  /\ announced' = HashInReveal
  /\ UNCHANGED <<alive, clientSeed, nonce, roundVars, verifyVars>>

\* POST /games/provably-fair/client-seed; a blank seed is refused
SetClientSeed ==
  /\ alive
  /\ clientSeed' \in ClientSeed
  /\ announced' = serverSeed
  /\ UNCHANGED <<alive, serverSeed, nonce, nextSeed, revealed, roundVars, verifyVars>>

-----------------------------------------------------------------------------
(* VerifyRoundUseCase.execute, cut at its await of findById *)

FindsForVerification(r) ==
  /\ rounds[r].state = "CRASHED"
  /\ rounds[r].crashPoint # NoCrashPoint

VerifyFinds(r) ==
  /\ alive
  /\ FindsForVerification(r)
  /\ verifying' = verifying \cup {r}
  /\ UNCHANGED <<seedVars, roundVars, verdicts>>

VerifyAnswers(r) ==
  /\ r \in verifying
  /\ verifying' = verifying \ {r}
  /\ verdicts' = verdicts \cup
       {[round |-> r, seed |-> serverSeed,
         isValid |-> VerifyProvablyFair(rounds[r].crashPoint, serverSeed)]}
  /\ UNCHANGED <<seedVars, roundVars>>

-----------------------------------------------------------------------------
Next ==
  \/ Boot \/ Crash
  \/ TransitionToRunning \/ TransitionIsLate \/ TransitionIsRefused
  \/ TransitionToCrashed \/ LoopFails \/ PauseEnds \/ CreateRound
  \/ Status \/ RevealServerSeed \/ SetClientSeed
  \/ \E r \in Round : VerifyFinds(r) \/ VerifyAnswers(r)

Spec == Init /\ [][Next]_vars
=============================================================================
