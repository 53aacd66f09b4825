------------------------ MODULE RoundLifecycleProps ------------------------
(***************************************************************************)
(* What RoundLifecycle is checked for.                                     *)
(***************************************************************************)
EXTENDS RoundLifecycle

(* The contract of the domain layer, under the mapping that forgets the    *)
(* multipliers and everything of the service but its Round and Bet objects *)
Contract == INSTANCE RoundContract WITH
  phase <- [r \in RoundId |-> rounds[r].state],
  outcome <- [b \in Bet |-> [state |-> bets[b].state, round |-> bets[b].round]]

\* The service, with all its interleavings, failures and restarts, moves its
\* rounds and bets only as the contract allows: "explicit state machine with
\* no state regression", bets settled exactly once, all losses at the crash.
ImplementsContract == Contract!ContractSpec

-----------------------------------------------------------------------------
(* Whatever moves the current round forward: an armed timeout, a running   *)
(* interval, a lifecycle step waiting for its save, a loop publishing losses *)
Drivers ==
  {<<"timer", i>> : i \in DOMAIN timers}
    \cup {<<"loop", r>> : r \in {q \in RoundId : loops[q] # 0}}
    \cup saving
    \cup {<<"losing", r>> : r \in {q \in RoundId : losing[q].bet # {}}}

\* Timers, intervals and lifecycle steps hand the round on to one another:
\* as long as only the service itself opens rounds there are never two of them
\* at work, so that no timer meant for one round acts on the next, and no two
\* multiplier loops push one round.
SingleDriver == \A x, y \in Drivers : x = y

\* A round runs strictly below its crash point and stops exactly on it: the
\* multiplier announced at the crash is the crash point, never a later one.
CrashesAtItsPoint ==
  \A r \in RoundId :
    LET round == rounds[r] IN
      /\ round.crashPoint # NoCrashPoint <=> round.state \in {"RUNNING", "CRASHED"}
      /\ round.state = "RUNNING" => round.multiplier < round.crashPoint
      /\ round.state = "CRASHED" => round.multiplier = round.crashPoint

\* Every bet agrees with its round: a pending bet of a running round carries
\* that round's crash point (so that no bet can be cashed out above it), a
\* crashed round has no pending bet, and a paid bet was paid at a multiplier
\* below the crash point of its round and at least its stake.
BetsSettleWithRound ==
  \A b \in Bet :
    LET bet == bets[b]
        round == rounds[bet.round]
    IN  /\ bet.state = "PENDING" => /\ round.state \in {"BETTING", "RUNNING"}
                                    /\ bet.crashPoint = round.crashPoint
        /\ bet.state = "LOST" => round.state = "CRASHED" /\ bet.winnings = 0
        /\ bet.state = "CASHED_OUT" =>
             /\ round.state \in {"RUNNING", "CRASHED"}
             /\ bet.cashOutMultiplier \in One .. round.crashPoint - 1
             /\ bet.winnings = Winnings(Amount[b], bet.cashOutMultiplier)
             /\ bet.winnings >= Amount[b]

\* An event for a bet that is cashed out, of the round it names, with its
\* winnings; or for a bet that was placed.
PaymentEventsAreTrue ==
  \A e \in events :
    /\ e.type = "bet.placed" => bets[e.bet].state # "ABSENT"
    /\ e.type = "bet.cashed-out" =>
         /\ bets[e.bet].state = "CASHED_OUT"
         /\ e.winnings = bets[e.bet].winnings
         /\ e.round = bets[e.bet].round

\* What the wallets are told to pay is what the bet won.  Losses are never
\* published while only the service opens rounds: crash() has made every pending
\* bet lose before transitionToCrashed looks for pending bets to publish
\* bet.lost for.
EventsTellTheTruth ==
  /\ PaymentEventsAreTrue
  /\ ManualRounds \/ \A e \in events : e.type # "bet.lost"

\* No bet is left behind: while the process lives, a pending bet is in the
\* current round, the only one that can still settle it.
NoBetLeftBehind ==
  \A b \in Bet :
    bets[b].state = "PENDING" /\ bets[b].round >= firstRound =>
      bets[b].round = current

\* Within one process every round draws its crash point with a nonce of its
\* own, also when timers fire late, twice or for a replaced round.
NoncesDistinct ==
  LET drawn == {r \in RoundId : /\ r \in firstRound .. current
                               /\ rounds[r].crashPoint # NoCrashPoint}
  IN  \A r, s \in drawn :
        /\ rounds[r].nonce < nonce
        /\ r # s => rounds[r].nonce # rounds[s].nonce

\* What clients are told about a round is true of that round: a crash notice
\* is for a crashed round, and the crash point of a start notice is the one
\* of the round it names.
NoticesTellTheTruth ==
  \A n \in notices :
    /\ n.event = "round:crashed" => rounds[n.round].state = "CRASHED"
    /\ n.crashPoint # NoCrashPoint => rounds[n.round].crashPoint = n.crashPoint

-----------------------------------------------------------------------------
\* A round that has been replaced is out of reach: no late timer, interval,
\* save or request ever changes it or one of its bets again.
OnlyCurrentRoundMoves ==
  [][\A r \in RoundId :
       r < current => /\ rounds'[r] = rounds[r]
                      /\ \A b \in BetsOf(bets, r) : bets'[b] = bets[b]]_vars

\* "Multiplier cannot decrease": also when the loop of a replaced round goes on
\* on the next one, the multiplier of a round only grows while it runs.
MultiplierNeverDrops ==
  [][\A r \in RoundId :
       rounds[r].state \in {"RUNNING", "CRASHED"} =>
         rounds'[r].multiplier >= rounds[r].multiplier]_vars

-----------------------------------------------------------------------------
\* Rounds follow one another without anybody's help: every round but the last
\* the bound allows is followed by the next.
RoundsKeepComing ==
  \A r \in 1 .. MaxRounds - 1 : current = r ~> current = r + 1

\* "PENDING -> CASHED_OUT (player won) or PENDING -> LOST (round crashed)":
\* every bet reaches a result.
EveryBetSettles ==
  \A b \in Bet :
    bets[b].state = "PENDING" ~> bets[b].state \in {"CASHED_OUT", "LOST"}

\* "placeBet -> RabbitMQ event -> wallet debit": every bet that entered a round
\* leads to its bet.placed event.
EveryBetIsDebited ==
  \A b \in Bet :
    bets[b].state # "ABSENT" ~>
      \E e \in events : e.type = "bet.placed" /\ e.bet = b
=============================================================================
