------------------------- MODULE ProvablyFairProps -------------------------
(* What ProvablyFair guarantees. *)
EXTENDS ProvablyFair

RoundRecord ==
  [state : {"NONE", "BETTING"}, crashPoint : {NoCrashPoint}]
    \cup [state : {"RUNNING", "CRASHED"}, crashPoint : CrashPointRecord]

Verdict == [round : Round, seed : Seed, isValid : BOOLEAN]

\* Types.  A round has a crash point exactly when it has started, only a
\* crashed round is being verified, and a nonce is never beyond what the
\* betting timers of the process can have used.
TypeOK ==
  /\ alive \in BOOLEAN
  /\ serverSeed \in Seed \cup {NoSeed}
  /\ alive => serverSeed # NoSeed /\ current # 0
  /\ clientSeed \in ClientSeed
  /\ nonce \in Nonce
  /\ nextSeed \in Nat \ {0}
  /\ current \in 0 .. MaxRounds
  /\ betting \in Nat /\ loops \in Nat /\ pauses \in Nat
  /\ rounds \in [Round -> RoundRecord]
  /\ failed \subseteq Round
  /\ verifying \subseteq {r \in Round : rounds[r].state = "CRASHED"}
  /\ revealed \subseteq Seed
  /\ announced \in Seed \cup {NoSeed}
  /\ verdicts \subseteq Verdict

Drawn == {r \in Round : rounds[r].state \in {"RUNNING", "CRASHED"}}

SeedOf(r) == rounds[r].crashPoint.hash.seed

-----------------------------------------------------------------------------
(* Safety *)

\* A nonce is used once per server seed, over reveals, restarts, changes of
\* the client seed and timers that fire late: no two rounds have the same
\* HMAC input (transitionToRunning increments _nonce before anything throws).
HashesDistinct ==
  \A r, q \in Drawn :
    r # q => SeedOf(r) # SeedOf(q)
               \/ rounds[r].crashPoint.nonce # rounds[q].crashPoint.nonce

\* Whoever learns the server seed of a round can verify it: the formula in
\* crash-point.vo.ts agrees with the one in crash-point-generator.ts, and the
\* row carries the client seed and nonce that were really used.
DrawVerifies ==
  \A r \in Drawn : VerifyProvablyFair(rounds[r].crashPoint, SeedOf(r))

\* The verify endpoint says VALID exactly for rounds drawn with the server
\* seed that is current when it answers, although it looked the round up
\* earlier and the seed may have been revealed and replaced in between.
VerdictsTellTheSeed ==
  \A v \in verdicts : v.isValid <=> SeedOf(v.round) = v.seed

\* The game goes on: a round that takes bets has a timer, one that runs has a
\* loop, one that crashed has its pause timer, also when clients open rounds
\* and timers fire late.  Only a refused or unsaved draw of the round itself
\* stops it: transitionToRunning then logs the error and arms nothing.
Driven ==
  alive =>
    \/ current \in failed
    \/ /\ rounds[current].state = "BETTING" => betting > 0
       /\ rounds[current].state = "RUNNING" => loops > 0
       /\ rounds[current].state = "CRASHED" => pauses > 0

-----------------------------------------------------------------------------
(* Action properties *)

Draws(r) == rounds'[r].crashPoint # rounds[r].crashPoint

\* A round is drawn with a seed its players were committed to: never with one
\* that revealServerSeed gave away, and with the one whose hash this process
\* announced last, by the status, a reveal or the answer to a new client seed.
DrawsUseCommittedSeed ==
  [][\A r \in Round : Draws(r) =>
       /\ SeedOf(r)' \notin revealed
       /\ announced \in {NoSeed, SeedOf(r)'}]_vars

\* A crash point stays what it was when the round started, whatever timers
\* fire late and whatever happens to the seeds.
CrashPointsStay == [][\A r \in Drawn : ~ Draws(r)]_vars
=============================================================================
