------------------------ MODULE RoundAggregate_proof ------------------------
(***************************************************************************)
(* Lemmas about the operators of the domain layer, cited wherever a module *)
(* that is built from them is proved about.                                *)
(***************************************************************************)
EXTENDS RoundAggregate, TLAPS

USE AmountAssumption, MultiplierAssumption

\* Fresh rounds and absent bets are well typed.
LEMMA FreshRecords ==
  /\ NoRound \in RoundRecord /\ RoundCreate \in RoundRecord
  /\ AbsentBet \in BetRecord
BY DEF NoRound, RoundCreate, RoundRecord, AbsentBet, BetRecord, NoCrashPoint,
       CrashMultiplier

\* The operations of Round keep a round well typed.
LEMMA RoundTypes ==
  ASSUME NEW round \in RoundRecord
  PROVE  /\ \A c \in CrashMultiplier, n \in Nat :
              RoundStart(RoundSetCrashPoint(round, c, n)) \in RoundRecord
         /\ \A m \in Nat : RoundUpdateMultiplier(round, m) \in RoundRecord
BY DEF RoundRecord, RoundStart, RoundSetCrashPoint, RoundUpdateMultiplier, RoundCrash

\* floor(amount * m) of a multiplier of at least 1.0 is at least the amount.
LEMMA WinningsCoverStake ==
  ASSUME NEW amount \in Nat, NEW m \in Nat, m >= One
  PROVE  Winnings(amount, m) \in Nat /\ Winnings(amount, m) >= amount
<1>1. amount * m \in Nat /\ amount * m >= amount * One
  OBVIOUS
<1> QED BY <1>1 DEF Winnings

\* The operations of Bet keep a bet well typed.
LEMMA BetTypes ==
  ASSUME NEW bet \in BetRecord
  PROVE  /\ \A r \in Nat : BetCreate(r) \in BetRecord
         /\ \A c \in CrashMultiplier : BetSetCrashPoint(bet, c) \in BetRecord
         /\ BetLose(bet) \in BetRecord
         /\ \A a, m \in Nat : m >= One => BetCashOut(bet, a, m) \in BetRecord
<1>1. BetCreate(0) \in BetRecord /\ \A r \in Nat : BetCreate(r) \in BetRecord
  BY DEF BetRecord, BetCreate, AbsentBet
<1>2. \A c \in CrashMultiplier : BetSetCrashPoint(bet, c) \in BetRecord
  BY DEF BetRecord, BetSetCrashPoint
<1>3. BetLose(bet) \in BetRecord
  BY DEF BetRecord, BetLose
<1>4. \A a, m \in Nat : m >= One => BetCashOut(bet, a, m) \in BetRecord
  BY WinningsCoverStake DEF BetRecord, BetCashOut
<1> QED BY <1>1, <1>2, <1>3, <1>4

\* The operations of Round on all its bets keep the bets well typed.
LEMMA BetsTypes ==
  ASSUME NEW bs \in [Bet -> BetRecord]
  PROVE  /\ \A r \in Nat, b \in Bet : RoundPlaceBet(bs, r, b) \in [Bet -> BetRecord]
         /\ \A r \in Nat, c \in CrashMultiplier :
              RoundSetBetCrashPoints(bs, r, c) \in [Bet -> BetRecord]
         /\ \A r \in Nat : RoundCrashBets(bs, r) \in [Bet -> BetRecord]
         /\ \A b \in Bet, m \in Nat : m >= One => RoundCashOut(bs, b, m) \in [Bet -> BetRecord]
BY BetTypes
DEF RoundPlaceBet, RoundSetBetCrashPoints, RoundCrashBets, RoundCashOut
=============================================================================
