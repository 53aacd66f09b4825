--------------------------- MODULE RoundAggregate ---------------------------
(***************************************************************************)
(* The domain layer of the Games service: the Round aggregate, the Bet     *)
(* entity and the CrashPoint value object (services/games/src/domain), as  *)
(* operators on records.  Every method that may throw is a pair: a guard   *)
(* (CanX: none of its throws fires) and the record it leaves behind (X).   *)
(*                                                                         *)
(* A multiplier is an integer: 1.0 is One and one model unit is one step   *)
(* of the multiplier loop.  Bets that do not exist yet are "ABSENT", so    *)
(* that the Map of a round is { b : bets[b].round = r }.                   *)
(*                                                                         *)
(* A definition whose name has an underscore (X_withoutGuard, ...) is X    *)
(* with a plausible mistake in it.  Nothing uses it: putting it in place   *)
(* of X must break a property, which is how the properties are tested.     *)
(***************************************************************************)
EXTENDS Integers

CONSTANTS
  Bet,       \* the bets that may ever be placed
  Amount,    \* Amount[b]: _betAmountInCentavos, fixed at creation
  One,       \* the multiplier 1.0
  MinCrash,  \* the smallest crash point CrashPoint.create accepts (1.3)
  MaxCrash   \* the largest one (10.0)

ASSUME AmountAssumption == Amount \in [Bet -> Nat \ {0}]
ASSUME MultiplierAssumption ==
  /\ One \in Nat \ {0}
  /\ MinCrash \in Nat /\ MaxCrash \in Nat
  /\ One < MinCrash /\ MinCrash <= MaxCrash

NoCrashPoint == 0   \* the field is null
CrashMultiplier == MinCrash .. MaxCrash

-----------------------------------------------------------------------------
(* CrashPoint *)

HasCrashed_exclusive(crashPoint, m) ==
  crashPoint # NoCrashPoint /\ m > crashPoint

\* `crashPoint?.hasCrashed(m)`: a null crash point never crashes.
HasCrashed(crashPoint, m) == crashPoint # NoCrashPoint /\ m >= crashPoint

-----------------------------------------------------------------------------
(* Bet *)

BetRecord == [state : {"ABSENT", "PENDING", "CASHED_OUT", "LOST"},
              round : Nat,
              crashPoint : {NoCrashPoint} \cup CrashMultiplier,
              cashOutMultiplier : Nat,
              winnings : Nat]

AbsentBet == [state |-> "ABSENT", round |-> 0, crashPoint |-> NoCrashPoint,
              cashOutMultiplier |-> 0, winnings |-> 0]

BetCreate(r) == [AbsentBet EXCEPT !.state = "PENDING", !.round = r]

\* Math.floor(Number(amount) * multiplier)
Winnings(amount, m) == (amount * m) \div One

BetCanCashOut(bet, m) ==
  /\ bet.state = "PENDING"
  /\ m >= One
  /\ ~ HasCrashed(bet.crashPoint, m)

BetCashOut(bet, amount, m) ==
  [bet EXCEPT !.state = "CASHED_OUT",
              !.cashOutMultiplier = m,
              !.winnings = Winnings(amount, m)]

BetLose_storesLoss(bet) == [bet EXCEPT !.state = "LOST", !.winnings = -1]

BetLose(bet) == [bet EXCEPT !.state = "LOST", !.winnings = 0]

BetSetCrashPoint(bet, crashPoint) == [bet EXCEPT !.crashPoint = crashPoint]

-----------------------------------------------------------------------------
(* Round *)

RoundRecord == [state : {"NONE", "BETTING", "RUNNING", "CRASHED"},
                multiplier : Nat,
                crashPoint : {NoCrashPoint} \cup CrashMultiplier,
                nonce : Nat]

NoRound == [state |-> "NONE", multiplier |-> One,
            crashPoint |-> NoCrashPoint, nonce |-> 0]

RoundCreate == [NoRound EXCEPT !.state = "BETTING"]

BetsOf(bets, r) == {b \in Bet : bets[b].state # "ABSENT" /\ bets[b].round = r}

PendingIn(bets, r) == {b \in BetsOf(bets, r) : bets[b].state = "PENDING"}

RoundCanPlaceBet_anyState(round, bets, b) == bets[b].state = "ABSENT"

RoundCanPlaceBet(round, bets, b) ==
  /\ round.state = "BETTING"
  /\ bets[b].state = "ABSENT"

RoundPlaceBet(bets, r, b) == [bets EXCEPT ![b] = BetCreate(r)]

RoundCanSetCrashPoint(round) ==
  round.state = "BETTING" /\ round.crashPoint = NoCrashPoint

RoundSetCrashPoint(round, crashPoint, nonce) ==
  [round EXCEPT !.crashPoint = crashPoint, !.nonce = nonce]

\* ... and on every pending bet of round r
RoundSetBetCrashPoints(bets, r, crashPoint) ==
  [b \in Bet |-> IF b \in PendingIn(bets, r)
                   THEN BetSetCrashPoint(bets[b], crashPoint) ELSE bets[b]]

RoundCanStart(round) ==
  round.state = "BETTING" /\ round.crashPoint # NoCrashPoint

RoundStart(round) ==
  [round EXCEPT !.state = "RUNNING", !.multiplier = One]

RoundCrash(round) == [round EXCEPT !.state = "CRASHED"]

RoundCrashBets_keepsPending(bets, r) == bets
RoundCrashBets_anyRound(bets, r) ==
  [b \in Bet |-> IF bets[b].state = "PENDING" THEN BetLose(bets[b]) ELSE bets[b]]

\* crash() makes every pending bet of the round lose
RoundCrashBets(bets, r) ==
  [b \in Bet |-> IF b \in PendingIn(bets, r) THEN BetLose(bets[b]) ELSE bets[b]]

RoundCanUpdateMultiplier(round, m) ==
  /\ round.state = "RUNNING"
  /\ m >= One
  /\ m >= round.multiplier

RoundUpdateMultiplier(round, m) ==
  LET moved == [round EXCEPT !.multiplier = m]
  IN  IF HasCrashed(round.crashPoint, m) THEN RoundCrash(moved) ELSE moved

RoundUpdateBets(round, bets, r, m) ==
  IF HasCrashed(round.crashPoint, m) THEN RoundCrashBets(bets, r) ELSE bets

RoundCanCashOut_anyState(round, bets, r, b, m) ==
  b \in BetsOf(bets, r) /\ BetCanCashOut(bets[b], m)

RoundCanCashOut(round, bets, r, b, m) ==
  /\ round.state = "RUNNING"
  /\ b \in BetsOf(bets, r)
  /\ BetCanCashOut(bets[b], m)

RoundCashOut(bets, b, m) ==
  [bets EXCEPT ![b] = BetCashOut(bets[b], Amount[b], m)]
=============================================================================
