------------------------ MODULE RoundRepository_proof ------------------------
(***************************************************************************)
(* Proofs about RoundRepository for any number of bets, any crash point    *)
(* and any overlapping of saves.  The argument: what a save has in hand    *)
(* and what stands in the tables are values the round and its bets have    *)
(* had, and two such values never mix into a third that they have not.     *)
(***************************************************************************)
EXTENDS RoundRepositoryProps, RoundAggregate_proof, TLAPS

USE AmountAssumption, MultiplierAssumption, RepositoryAssumption

-----------------------------------------------------------------------------
(* The inductive invariant *)

\* e is the row of round r, now or at an earlier time
PastRound(r, e) ==
  e # NoRow =>
    /\ r.state # "NONE"
    /\ r.state = "BETTING" => e.state = "BETTING"
    /\ r.state = "RUNNING" => e.state \in {"BETTING", "RUNNING"}
    /\ e.crashPoint \in {NoCrashPoint, r.crashPoint}
    /\ e.state # "BETTING" => e.crashPoint = r.crashPoint

\* e is the row of the bet, now or at an earlier time
PastBet(bet, e) ==
  e # NoRow =>
    /\ bet.state # "ABSENT"
    /\ e.state = "PENDING" => e.winnings = 0
    /\ e.state # "PENDING" => e.state = bet.state /\ e.winnings = bet.winnings

RoundFields(r) == r.state \in {"NONE", "BETTING"} <=> r.crashPoint = NoCrashPoint

BetFields(bet) == bet.state \in {"ABSENT", "PENDING", "LOST"} => bet.winnings = 0

\* the record of one save; a row it has found is still there
InHand(rec) ==
  /\ rec.phase \in {"select", "write"} => rec.entity # NoRow
  /\ PastRound(round, rec.entity) /\ PastRound(round, rec.found)
  /\ rec.found # NoRow => roundRow # NoRow
  /\ \A b \in Bet :
       /\ PastBet(bets[b], rec.betEntities[b]) /\ PastBet(bets[b], rec.betsFound[b])
       /\ rec.betsFound[b] # NoRow => betRows[b] # NoRow

PastInv ==
  /\ RoundFields(round) /\ PastRound(round, roundRow)
  /\ \A b \in Bet : BetFields(bets[b]) /\ PastBet(bets[b], betRows[b])
  /\ \A s \in Saver : InHand(save[s])

Inv == TypeOK /\ PastInv

-----------------------------------------------------------------------------
(* Helpers *)

\* The entities of a round and of its bets are rows.
LEMMA EntityTypes ==
  /\ \A r \in RoundRecord : r.state # "NONE" => RoundEntity(r) \in RoundRow
  /\ \A bs \in [Bet -> BetRecord] : BetEntities(bs) \in [Bet -> BetRow \cup {NoRow}]
<1>1. \A r \in RoundRecord : r.state # "NONE" => RoundEntity(r) \in RoundRow
  BY DEF RoundEntity, RoundRow, RoundRecord
<1>2. ASSUME NEW bs \in [Bet -> BetRecord], NEW b \in BetsOf(bs, 1)
      PROVE  BetEntity(bs[b]) \in BetRow
  BY <1>2 DEF BetsOf, BetEntity, BetRow, BetRecord
<1> QED BY <1>1, <1>2 DEF BetEntities

\* NoRow is not the row of anything.
LEMMA NoRowIsNone == NoRow \notin RoundRow /\ NoRow \notin BetRow
BY DEF NoRow, RoundRow, BetRow

\* A save that has not begun, or has ended, holds nothing.
LEMMA EndedTypes ==
  /\ NoSave \in SaveRecord
  /\ \A p \in {"saved", "rejected"} : Ended(p) \in SaveRecord
BY DEF NoSave, Ended, SaveRecord, NoRows

\* What was the row of an earlier round or bet stays one when the round moves on.
LEMMA PastStays ==
  /\ \A r \in RoundRecord, e \in RoundRow \cup {NoRow} :
       /\ r = NoRound /\ PastRound(r, e) => PastRound(RoundCreate, e)
       /\ \A m \in CrashMultiplier :
            RoundCanSetCrashPoint(r) /\ PastRound(r, e) =>
              PastRound(RoundStart(RoundSetCrashPoint(r, m, 1)), e)
       /\ \A m \in Nat :
            RoundCanUpdateMultiplier(r, m) /\ PastRound(r, e) =>
              PastRound(RoundUpdateMultiplier(r, m), e)
  /\ \A bet \in BetRecord, e \in BetRow \cup {NoRow} :
       BetFields(bet) /\ PastBet(bet, e) =>
         /\ bet.state = "ABSENT" => PastBet(BetCreate(1), e)
         /\ \A m \in CrashMultiplier : PastBet(BetSetCrashPoint(bet, m), e)
         /\ bet.state = "PENDING" => PastBet(BetLose(bet), e)
         /\ \A a, m \in Nat : bet.state = "PENDING" => PastBet(BetCashOut(bet, a, m), e)
<1>1. ASSUME NEW r \in RoundRecord, NEW e \in RoundRow \cup {NoRow}, PastRound(r, e)
      PROVE  /\ r = NoRound => PastRound(RoundCreate, e)
             /\ \A m \in CrashMultiplier : RoundCanSetCrashPoint(r) =>
                  PastRound(RoundStart(RoundSetCrashPoint(r, m, 1)), e)
             /\ \A m \in Nat : RoundCanUpdateMultiplier(r, m) =>
                  PastRound(RoundUpdateMultiplier(r, m), e)
  <2>1. r = NoRound => PastRound(RoundCreate, e)
    BY <1>1 DEF PastRound, NoRound, RoundCreate
  <2>2. ASSUME NEW m \in CrashMultiplier, RoundCanSetCrashPoint(r)
        PROVE  PastRound(RoundStart(RoundSetCrashPoint(r, m, 1)), e)
    BY <1>1, <2>2 DEF PastRound, RoundCanSetCrashPoint, RoundStart, RoundSetCrashPoint,
                      RoundRecord
  <2>3. ASSUME NEW m \in Nat, RoundCanUpdateMultiplier(r, m)
        PROVE  PastRound(RoundUpdateMultiplier(r, m), e)
    BY <1>1, <2>3 DEF PastRound, RoundCanUpdateMultiplier, RoundUpdateMultiplier,
                      RoundCrash, RoundRecord
  <2> QED BY <2>1, <2>2, <2>3
<1>2. ASSUME NEW bet \in BetRecord, NEW e \in BetRow \cup {NoRow},
             BetFields(bet), PastBet(bet, e)
      PROVE  /\ bet.state = "ABSENT" => PastBet(BetCreate(1), e)
             /\ \A m \in CrashMultiplier : PastBet(BetSetCrashPoint(bet, m), e)
             /\ bet.state = "PENDING" => PastBet(BetLose(bet), e)
             /\ \A a, m \in Nat : bet.state = "PENDING" => PastBet(BetCashOut(bet, a, m), e)
  BY <1>2 DEF PastBet, BetFields, BetCreate, AbsentBet, BetSetCrashPoint, BetLose,
              BetCashOut, BetRecord, BetRow
<1> QED BY <1>1, <1>2

\* The entities mapped from the round and its bets are their rows.
LEMMA EntityIsPast ==
  /\ \A r \in RoundRecord : r.state # "NONE" => PastRound(r, RoundEntity(r))
  /\ \A bs \in [Bet -> BetRecord], b \in Bet :
       BetFields(bs[b]) => PastBet(bs[b], BetEntities(bs)[b])
<1>1. \A r \in RoundRecord : r.state # "NONE" => PastRound(r, RoundEntity(r))
  BY DEF PastRound, RoundEntity, RoundRecord
<1>2. ASSUME NEW bs \in [Bet -> BetRecord], NEW b \in Bet, BetFields(bs[b])
      PROVE  PastBet(bs[b], BetEntities(bs)[b])
  <2>1. CASE b \in BetsOf(bs, 1)
    BY <1>2, <2>1 DEF PastBet, BetEntities, BetEntity, BetsOf, BetFields, BetRecord
  <2>2. CASE b \notin BetsOf(bs, 1)
    BY <2>2 DEF PastBet, BetEntities
  <2> QED BY <2>1, <2>2
<1> QED BY <1>1, <1>2

\* An UPDATE mixes three rows of the round, or of the bet, into such a row.
LEMMA UpdateIsPast ==
  /\ \A r \in RoundRecord, e, f, row \in RoundRow :
       /\ UpdatedRound(e, f, row) \in RoundRow
       /\ RoundFields(r) /\ PastRound(r, e) /\ PastRound(r, f) /\ PastRound(r, row) =>
            PastRound(r, UpdatedRound(e, f, row))
  /\ \A bet \in BetRecord, e, f, row \in BetRow :
       /\ UpdatedBet(e, f, row) \in BetRow
       /\ BetFields(bet) /\ PastBet(bet, e) /\ PastBet(bet, f) /\ PastBet(bet, row) =>
            PastBet(bet, UpdatedBet(e, f, row))
<1>1. ASSUME NEW e \in RoundRow, NEW f \in RoundRow, NEW row \in RoundRow
      PROVE  UpdatedRound(e, f, row) \in RoundRow
  BY DEF UpdatedRound, Differing, RoundRow
<1>2. ASSUME NEW r \in RoundRecord, NEW e \in RoundRow, NEW f \in RoundRow,
             NEW row \in RoundRow, RoundFields(r),
             PastRound(r, e), PastRound(r, f), PastRound(r, row)
      PROVE  PastRound(r, UpdatedRound(e, f, row))
  BY <1>2, NoRowIsNone DEF UpdatedRound, Differing, RoundRow, PastRound, RoundFields, RoundRecord
<1>3. ASSUME NEW e \in BetRow, NEW f \in BetRow, NEW row \in BetRow
      PROVE  UpdatedBet(e, f, row) \in BetRow
  BY DEF UpdatedBet, Differing, BetRow
<1>4. ASSUME NEW bet \in BetRecord, NEW e \in BetRow, NEW f \in BetRow, NEW row \in BetRow,
             BetFields(bet), PastBet(bet, e), PastBet(bet, f), PastBet(bet, row)
      PROVE  PastBet(bet, UpdatedBet(e, f, row))
  BY <1>4, NoRowIsNone DEF UpdatedBet, Differing, BetRow, PastBet, BetFields, BetRecord
<1> QED BY <1>1, <1>2, <1>3, <1>4

\* The initial state satisfies the invariant.
LEMMA InitInv == Init => Inv
<1> SUFFICES ASSUME Init PROVE Inv
  OBVIOUS
<1>1. TypeOK
  BY EndedTypes, FreshRecords DEF Init, TypeOK, NoRows
<1>2. PastInv
  BY DEF Init, PastInv, RoundFields, BetFields, InHand, PastRound, PastBet, NoRound,
         AbsentBet, NoSave, NoRows
<1> QED BY <1>1, <1>2 DEF Inv

-----------------------------------------------------------------------------
(* The steps of a save.  Each changes the record of that save only, and rows *)
(* that are there stay.                                                      *)

OthersStay(s) ==
  /\ UNCHANGED <<memory, overlapped>>
  /\ save' \in [Saver -> SaveRecord]
  /\ \A t \in Saver \ {s} : save'[t] = save[t]

\* The invariant holds after a step of a save if it holds of what changes.
LEMMA SaveKeepsInv ==
  ASSUME Inv, NEW s \in Saver, OthersStay(s), InHand(save[s])',
         roundRow' \in RoundRow \cup {NoRow}, PastRound(round, roundRow'),
         roundRow # NoRow => roundRow' # NoRow,
         betRows' \in [Bet -> BetRow \cup {NoRow}],
         \A b \in Bet : PastBet(bets[b], betRows'[b]),
         \A b \in Bet : betRows[b] # NoRow => betRows'[b] # NoRow
  PROVE  Inv'
<1>1. alive' = alive /\ round' = round /\ bets' = bets /\ overlapped' = overlapped
  BY DEF OthersStay, memory
<1>2. TypeOK'
  <2>1. alive' \in BOOLEAN /\ overlapped' \in BOOLEAN
    BY <1>1 DEF Inv, TypeOK
  <2> QED BY <1>1, <2>1 DEF Inv, TypeOK, OthersStay
<1>3. ASSUME NEW t \in Saver
      PROVE  InHand(save[t])'
  <2>1. CASE t = s
    BY <2>1
  <2>2. CASE t # s
    <3>1. save'[t] = save[t] /\ InHand(save[t])
      BY <2>2 DEF OthersStay, Inv, PastInv
    <3> QED BY <1>1, <3>1 DEF InHand
  <2> QED BY <2>1, <2>2
<1>4. PastInv'
  BY <1>1, <1>3 DEF Inv, PastInv
<1> QED BY <1>2, <1>4 DEF Inv

\* A save that has ended holds nothing.
LEMMA EndedInHand ==
  ASSUME NEW s \in Saver, NEW p \in {"saved", "rejected"}, save'[s] = Ended(p)
  PROVE  InHand(save[s])'
BY DEF InHand, Ended, NoSave, NoRows, PastRound, PastBet

\* A step of a save that changes its record only.
LEMMA HandStep ==
  ASSUME Inv, NEW s \in Saver, OthersStay(s), UNCHANGED tables, InHand(save[s])'
  PROVE  Inv'
<1>1. roundRow' = roundRow /\ betRows' = betRows
  BY DEF tables
<1> QED BY <1>1, SaveKeepsInv DEF Inv, TypeOK, PastInv

\* The two loads of a save.
LEMMA SelectStep ==
  ASSUME Inv, NEW s \in Saver, SelectRound(s) \/ SelectBets(s)
  PROVE  Inv'
<1> USE DEF Inv, TypeOK, PastInv
<1>1. save[s] \in SaveRecord /\ InHand(save[s])
  OBVIOUS
<1>2. CASE SelectRound(s)
  <2>1. save'[s] = [save[s] EXCEPT !.phase = "write", !.found = roundRow]
    BY <1>2 DEF SelectRound
  <2>2. OthersStay(s) /\ UNCHANGED tables
    <3>1. save'[s] \in SaveRecord
      BY <1>1, <2>1 DEF SaveRecord
    <3> QED BY <1>2, <3>1 DEF SelectRound, OthersStay
  <2>3. InHand(save[s])'
    BY <1>1, <1>2, <2>1 DEF SelectRound, InHand, SaveRecord, memory, tables
  <2> QED BY <2>2, <2>3, HandStep
<1>3. CASE SelectBets(s)
  <2> DEFINE found == [b \in Bet |-> IF save[s].betEntities[b] = NoRow
                                       THEN NoRow ELSE betRows[b]]
  <2>1. save'[s] = [save[s] EXCEPT !.phase = "writeBets", !.betsFound = found]
    BY <1>3 DEF SelectBets
  <2>2. found \in [Bet -> BetRow \cup {NoRow}]
    OBVIOUS
  <2>3. OthersStay(s) /\ UNCHANGED tables
    <3>1. save'[s] \in SaveRecord
      BY <1>1, <2>1, <2>2 DEF SaveRecord
    <3> QED BY <1>3, <3>1 DEF SelectBets, OthersStay
  <2>4. InHand(save[s])'
    BY <1>1, <1>3, <2>1 DEF SelectBets, InHand, SaveRecord, PastBet, memory, tables
  <2> QED BY <2>3, <2>4, HandStep
<1> QED BY <1>2, <1>3

\* The INSERT or the UPDATE of the round.
LEMMA WriteRoundStep ==
  ASSUME Inv, NEW s \in Saver, InsertRound(s) \/ UpdateRound(s)
  PROVE  Inv'
<1> USE DEF Inv, TypeOK, PastInv
<1>1. save[s] \in SaveRecord /\ InHand(save[s])
  OBVIOUS
<1>2. save[s].entity \in RoundRow /\ save[s].phase = "write"
  BY <1>1 DEF InsertRound, UpdateRound, InHand, SaveRecord
<1>3. UNCHANGED <<memory, overlapped>> /\ betRows' = betRows
  BY DEF InsertRound, UpdateRound
<1>4. /\ roundRow' \in RoundRow \cup {NoRow} /\ PastRound(round, roundRow')
      /\ roundRow # NoRow => roundRow' # NoRow
  <2>1. CASE InsertRound(s)
    BY <1>1, <1>2, <2>1 DEF InsertRound, InHand
  <2>2. CASE UpdateRound(s)
    <3>1. save[s].found \in RoundRow /\ roundRow \in RoundRow
      BY <1>1, <2>2 DEF UpdateRound, InHand, SaveRecord
    <3>2. roundRow' = UpdatedRound(save[s].entity, save[s].found, roundRow)
      BY <2>2 DEF UpdateRound
    <3> QED BY <1>1, <1>2, <3>1, <3>2, UpdateIsPast, NoRowIsNone DEF InHand
  <2> QED BY <2>1, <2>2
<1>5. \/ save' = [save EXCEPT ![s].phase = "written"]
      \/ save' = [save EXCEPT ![s] = Ended("rejected")]
  BY DEF InsertRound, UpdateRound
<1>6. OthersStay(s)
  <2>1. [save[s] EXCEPT !.phase = "written"] \in SaveRecord
    BY <1>1 DEF SaveRecord
  <2> QED BY <1>3, <1>5, <2>1, EndedTypes DEF OthersStay
<1>7. InHand(save[s])'
  <2>1. CASE save' = [save EXCEPT ![s].phase = "written"]
    <3>1. save'[s] = [save[s] EXCEPT !.phase = "written"]
      BY <2>1
    <3>2. round' = round /\ bets' = bets
      BY <1>3 DEF memory
    <3> QED BY <1>1, <1>3, <1>4, <3>1, <3>2 DEF InHand, SaveRecord
  <2>2. CASE save' = [save EXCEPT ![s] = Ended("rejected")]
    BY <2>2, EndedInHand
  <2> QED BY <1>5, <2>1, <2>2
<1> QED BY <1>3, <1>4, <1>6, <1>7, SaveKeepsInv

\* The save takes the bets the round has now.
LEMMA MapBetsStep ==
  ASSUME Inv, NEW s \in Saver, MapBets(s)
  PROVE  Inv'
<1> USE DEF Inv, TypeOK, PastInv
<1>1. save[s] \in SaveRecord /\ InHand(save[s])
  OBVIOUS
<1>2. UNCHANGED <<memory, tables, overlapped>>
  BY DEF MapBets
<1>3. CASE save' = [save EXCEPT ![s] = Ended("saved")]
  <2>1. OthersStay(s)
    BY <1>2, <1>3, EndedTypes DEF OthersStay
  <2> QED BY <1>2, <1>3, <2>1, EndedInHand, HandStep
<1>4. CASE save' = [save EXCEPT ![s] = [save[s] EXCEPT !.phase = "selectBets",
                                                        !.betEntities = BetsToSave(s)]]
  <2>1. save'[s] = [save[s] EXCEPT !.phase = "selectBets", !.betEntities = BetsToSave(s)]
    BY <1>4
  <2>2. OthersStay(s)
    <3>1. BetsToSave(s) \in [Bet -> BetRow \cup {NoRow}]
      BY EntityTypes DEF BetsToSave
    <3>2. save'[s] \in SaveRecord
      BY <1>1, <2>1, <3>1 DEF SaveRecord
    <3> QED BY <1>2, <1>4, <3>2 DEF OthersStay
  <2>3. InHand(save[s])'
    <3>1. \A b \in Bet : PastBet(bets[b], BetsToSave(s)[b])
      BY EntityIsPast DEF BetsToSave
    <3>2. round' = round /\ bets' = bets /\ roundRow' = roundRow /\ betRows' = betRows
      BY <1>2 DEF memory, tables
    <3> QED BY <1>1, <2>1, <3>1, <3>2 DEF InHand, SaveRecord
  <2> QED BY <1>2, <2>2, <2>3, HandStep
<1> QED BY <1>3, <1>4 DEF MapBets

\* What the transaction leaves in the row of a bet: a row of the bet as it was
\* once, and no row vanishes.
LEMMA WrittenBetsFacts ==
  ASSUME Inv, NEW s \in Saver, NEW b \in Bet
  PROVE  /\ WrittenBets(s)[b] \in BetRow \cup {NoRow}
         /\ PastBet(bets[b], WrittenBets(s)[b])
         /\ betRows[b] # NoRow => WrittenBets(s)[b] # NoRow
         /\ save[s].betEntities[b] # NoRow => WrittenBets(s)[b] # NoRow
<1> DEFINE e == save[s].betEntities[b]
           f == save[s].betsFound[b]
           row == betRows[b]
<1>1. /\ e \in BetRow \cup {NoRow} /\ PastBet(bets[b], e)
      /\ f \in BetRow \cup {NoRow} /\ PastBet(bets[b], f)
      /\ row \in BetRow \cup {NoRow} /\ PastBet(bets[b], row)
      /\ f # NoRow => row # NoRow
      /\ bets[b] \in BetRecord /\ BetFields(bets[b])
  <2>1. save[s] \in SaveRecord /\ InHand(save[s])
    BY DEF Inv, TypeOK, PastInv
  <2> QED BY <2>1 DEF Inv, TypeOK, PastInv, InHand, SaveRecord
<1>2. CASE b \in ToInsert(s)
  <2>1. e # NoRow /\ WrittenBets(s)[b] = e
    BY <1>2 DEF ToInsert, ToWrite, WrittenBets
  <2> QED BY <1>1, <2>1
<1>3. CASE b \in ToWrite(s) \ ToInsert(s)
  <2>1. e # NoRow /\ f # NoRow /\ WrittenBets(s)[b] = UpdatedBet(e, f, row)
    BY <1>3 DEF ToInsert, ToWrite, WrittenBets
  <2>2. e \in BetRow /\ f \in BetRow /\ row \in BetRow
    BY <1>1, <2>1
  <2>3. UpdatedBet(e, f, row) \in BetRow /\ PastBet(bets[b], UpdatedBet(e, f, row))
    <3> HIDE DEF e, f, row
    <3> QED BY <1>1, <2>2, UpdateIsPast
  <2> QED BY <2>1, <2>3, NoRowIsNone
<1>4. CASE b \notin ToWrite(s)
  <2>1. WrittenBets(s)[b] = row /\ e = NoRow
    BY <1>4 DEF ToInsert, ToWrite, WrittenBets
  <2> QED BY <1>1, <2>1
<1> QED BY <1>2, <1>3, <1>4

\* The transaction that writes the bets.
LEMMA WriteBetsStep ==
  ASSUME Inv, NEW s \in Saver, WriteBets(s)
  PROVE  Inv'
<1> USE DEF Inv, TypeOK, PastInv
<1>1. save[s] \in SaveRecord /\ InHand(save[s])
  OBVIOUS
<1>2. UNCHANGED <<memory, overlapped>> /\ roundRow' = roundRow
  BY DEF WriteBets
<1>3. \E p \in {"saved", "rejected"} : save' = [save EXCEPT ![s] = Ended(p)]
  BY DEF WriteBets
<1>4. OthersStay(s) /\ InHand(save[s])'
  BY <1>2, <1>3, EndedTypes, EndedInHand DEF OthersStay
<1>5. \A b \in Bet :
        /\ WrittenBets(s)[b] \in BetRow \cup {NoRow}
        /\ PastBet(bets[b], WrittenBets(s)[b])
        /\ betRows[b] # NoRow => WrittenBets(s)[b] # NoRow
  BY WrittenBetsFacts
<1>6. betRows' = WrittenBets(s) /\ WrittenBets(s) \in [Bet -> BetRow \cup {NoRow}]
  <2>1. betRows' = WrittenBets(s)
    BY DEF WriteBets
  <2>2. WrittenBets(s) = [b \in Bet |-> WrittenBets(s)[b]]
    BY DEF WrittenBets
  <2> QED BY <1>5, <2>1, <2>2
<1>7. Inv
  OBVIOUS
<1> HIDE DEF Inv, TypeOK, PastInv
<1>8. roundRow \in RoundRow \cup {NoRow} /\ PastRound(round, roundRow)
  BY <1>7 DEF Inv, TypeOK, PastInv
<1> QED BY <1>2, <1>4, <1>5, <1>6, <1>7, <1>8, SaveKeepsInv

\* A save that the database refuses.
LEMMA RejectedStep ==
  ASSUME Inv, NEW s \in Saver, DuplicateBet(s) \/ SaveFails(s)
  PROVE  Inv'
<1>1. UNCHANGED <<memory, tables, overlapped>> /\ save' = [save EXCEPT ![s] = Ended("rejected")]
  BY DEF DuplicateBet, SaveFails
<1>2. save \in [Saver -> SaveRecord]
  BY DEF Inv, TypeOK
<1>3. OthersStay(s) /\ InHand(save[s])'
  BY <1>1, <1>2, EndedTypes, EndedInHand DEF OthersStay
<1> QED BY <1>1, <1>3, HandStep

-----------------------------------------------------------------------------
(* The steps of the callers *)

\* the round and its bets move on
MovesOn ==
  /\ round' \in RoundRecord /\ RoundFields(round') /\ round'.state # "NONE"
  /\ bets' \in [Bet -> BetRecord] /\ \A b \in Bet : BetFields(bets'[b])
  /\ \A e \in RoundRow \cup {NoRow} : PastRound(round, e) => PastRound(round', e)
  /\ \A b \in Bet, e \in BetRow \cup {NoRow} : PastBet(bets[b], e) => PastBet(bets'[b], e)

\* Moving on keeps the invariant, with and without a new save.
LEMMA CallerKeepsInv ==
  ASSUME Inv, MovesOn, UNCHANGED <<alive, tables>>,
         UNCHANGED <<save, overlapped>> \/ \E s \in Saver : BeginSave(s)
  PROVE  Inv'
<1>1. /\ alive \in BOOLEAN /\ overlapped \in BOOLEAN
      /\ save \in [Saver -> SaveRecord]
      /\ roundRow \in RoundRow \cup {NoRow} /\ betRows \in [Bet -> BetRow \cup {NoRow}]
      /\ PastRound(round, roundRow) /\ \A b \in Bet : PastBet(bets[b], betRows[b])
      /\ \A s \in Saver : InHand(save[s])
  BY DEF Inv, TypeOK, PastInv
<1>2. alive' = alive /\ roundRow' = roundRow /\ betRows' = betRows
  BY DEF tables
<1>3. ASSUME NEW t \in Saver, save'[t] = save[t]
      PROVE  save'[t] \in SaveRecord /\ InHand(save[t])'
  <2>1. save[t] \in SaveRecord /\ InHand(save[t])
    BY <1>1
  <2> QED BY <1>2, <1>3, <2>1 DEF InHand, SaveRecord, MovesOn
<1>4. /\ save' \in [Saver -> SaveRecord] /\ overlapped' \in BOOLEAN
      /\ \A t \in Saver : InHand(save[t])'
  <2>1. CASE UNCHANGED <<save, overlapped>>
    BY <1>1, <1>3, <2>1
  <2>2. ASSUME NEW s \in Saver, BeginSave(s)
        PROVE  /\ save' \in [Saver -> SaveRecord] /\ overlapped' \in BOOLEAN
               /\ \A t \in Saver : InHand(save[t])'
    <3> DEFINE rec == [NoSave EXCEPT !.phase = "select", !.entity = RoundEntity(round')]
    <3>1. save' = [save EXCEPT ![s] = rec]
      BY <2>2 DEF BeginSave
    <3>2. RoundEntity(round') \in RoundRow /\ PastRound(round', RoundEntity(round'))
      BY EntityTypes, EntityIsPast DEF MovesOn
    <3>3. rec \in SaveRecord
      BY <3>2 DEF NoSave, NoRows, SaveRecord
    <3>4. save'[s] = rec
      BY <1>1, <3>1
    <3>5. InHand(save[s])'
      BY <3>2, <3>4, NoRowIsNone DEF InHand, NoSave, NoRows, PastRound, PastBet
    <3>6. \A t \in Saver \ {s} : save'[t] = save[t]
      BY <1>1, <3>1
    <3>7. \A t \in Saver : InHand(save[t])'
      BY <1>3, <3>5, <3>6
    <3>8. save' \in [Saver -> SaveRecord]
      BY <1>1, <3>1, <3>3
    <3>9. overlapped' = (overlapped \/ \E t \in Saver : Active(t))
      BY <2>2 DEF BeginSave
    <3> QED BY <1>1, <3>7, <3>8, <3>9
  <2> QED BY <2>1, <2>2
<1>5. TypeOK'
  BY <1>1, <1>2, <1>4 DEF TypeOK, MovesOn
<1>6. PastInv'
  BY <1>1, <1>2, <1>4 DEF PastInv, MovesOn
<1> QED BY <1>5, <1>6 DEF Inv

\* A step that changes the round and leaves the bets, or the other way round.
LEMMA RoundOnly ==
  ASSUME Inv, UNCHANGED bets, round' \in RoundRecord, RoundFields(round'),
         round'.state # "NONE",
         \A e \in RoundRow \cup {NoRow} : PastRound(round, e) => PastRound(round', e)
  PROVE  MovesOn
BY DEF MovesOn, Inv, TypeOK, PastInv

\* One bet moves on in a round that exists.
LEMMA OneBet ==
  ASSUME Inv, UNCHANGED round, round.state # "NONE", NEW b \in Bet,
         bets' = [bets EXCEPT ![b] = bets'[b]],
         bets'[b] \in BetRecord, BetFields(bets'[b]),
         \A e \in BetRow \cup {NoRow} : PastBet(bets[b], e) => PastBet(bets'[b], e)
  PROVE  MovesOn
<1>1. \A c \in Bet \ {b} : bets'[c] = bets[c]
  BY DEF Inv, TypeOK
<1>2. bets' \in [Bet -> BetRecord] /\ \A c \in Bet : BetFields(bets'[c])
  BY <1>1 DEF Inv, TypeOK, PastInv
<1>3. \A c \in Bet, e \in BetRow \cup {NoRow} : PastBet(bets[c], e) => PastBet(bets'[c], e)
  BY <1>1
<1> QED BY <1>2, <1>3 DEF MovesOn, Inv, TypeOK, PastInv

\* initializeNewRound
LEMMA CreateRoundStep ==
  ASSUME Inv, CreateRound
  PROVE  Inv'
<1>1. RoundFields(RoundCreate) /\ RoundCreate.state # "NONE"
  BY DEF RoundFields, RoundCreate, NoRound
<1>2. round = NoRound /\ round' = RoundCreate /\ UNCHANGED bets
  BY DEF CreateRound
<1>3. MovesOn
  BY <1>1, <1>2, FreshRecords, PastStays, RoundOnly
<1>4. InitSave \in Saver
  BY DEF InitSave, Saver
<1> QED BY <1>3, <1>4, CallerKeepsInv DEF CreateRound

\* placeBet
LEMMA PlaceBetStep ==
  ASSUME Inv, NEW b \in Bet, PlaceBet(b)
  PROVE  Inv'
<1>1. /\ bets[b] \in BetRecord /\ BetFields(bets[b]) /\ bets \in [Bet -> BetRecord]
      /\ bets[b].state = "ABSENT" /\ round.state # "NONE" /\ UNCHANGED round
  BY DEF Inv, TypeOK, PastInv, PlaceBet, RoundCanPlaceBet
<1>2. bets' = [bets EXCEPT ![b] = BetCreate(1)]
  BY DEF PlaceBet, RoundPlaceBet
<1>3. bets'[b] = BetCreate(1) /\ bets' = [bets EXCEPT ![b] = bets'[b]]
  BY <1>1, <1>2
<1>4. BetCreate(1) \in BetRecord /\ BetFields(BetCreate(1))
  BY <1>1, BetTypes DEF BetFields, BetCreate, AbsentBet
<1>5. MovesOn
  BY <1>1, <1>3, <1>4, PastStays, OneBet
<1>6. <<"place", b>> \in Saver
  BY DEF Saver
<1> QED BY <1>5, <1>6, CallerKeepsInv DEF PlaceBet

\* cashOutBet
LEMMA CashOutStep ==
  ASSUME Inv, NEW b \in Bet, NEW m \in One .. MaxCrash, CashOut(b, m)
  PROVE  Inv'
<1>1. /\ bets[b] \in BetRecord /\ BetFields(bets[b]) /\ bets \in [Bet -> BetRecord]
      /\ bets[b].state = "PENDING" /\ round.state # "NONE" /\ UNCHANGED round
      /\ m \in Nat /\ m >= One /\ Amount[b] \in Nat
  BY DEF Inv, TypeOK, PastInv, CashOut, RoundCanCashOut, BetCanCashOut
<1>2. bets' = [bets EXCEPT ![b] = BetCashOut(bets[b], Amount[b], m)]
  BY DEF CashOut, RoundCashOut
<1>3. bets'[b] = BetCashOut(bets[b], Amount[b], m) /\ bets' = [bets EXCEPT ![b] = bets'[b]]
  BY <1>1, <1>2
<1>4. bets'[b] \in BetRecord
  BY <1>1, <1>3, BetTypes
<1>5. BetFields(bets'[b])
  BY <1>1, <1>3 DEF BetFields, BetCashOut, BetRecord
<1>6. \A e \in BetRow \cup {NoRow} : PastBet(bets[b], e) => PastBet(bets'[b], e)
  BY <1>1, <1>3, PastStays
<1>7. MovesOn
  BY <1>1, <1>3, <1>4, <1>5, <1>6, OneBet
<1>8. <<"cash", b>> \in Saver
  BY DEF Saver
<1> QED BY <1>7, <1>8, CallerKeepsInv DEF CashOut

\* transitionToRunning
LEMMA StartRoundStep ==
  ASSUME Inv, StartRound
  PROVE  Inv'
<1>1. PICK m \in CrashMultiplier :
        /\ round' = RoundStart(RoundSetCrashPoint(round, m, 1))
        /\ bets' = RoundSetBetCrashPoints(bets, 1, m)
  BY DEF StartRound
<1>2. /\ round \in RoundRecord /\ bets \in [Bet -> BetRecord]
      /\ \A b \in Bet : BetFields(bets[b])
      /\ RoundCanSetCrashPoint(round)
  BY DEF Inv, TypeOK, PastInv, StartRound
<1>3. /\ round' \in RoundRecord
      /\ \A e \in RoundRow \cup {NoRow} : PastRound(round, e) => PastRound(round', e)
  BY <1>1, <1>2, RoundTypes, PastStays
<1>4. RoundFields(round') /\ round'.state # "NONE"
  BY <1>1, <1>2 DEF RoundFields, RoundStart, RoundSetCrashPoint, RoundRecord,
                    CrashMultiplier, NoCrashPoint
<1>5. \A b \in Bet : bets'[b] = bets[b] \/ bets'[b] = BetSetCrashPoint(bets[b], m)
  BY <1>1 DEF RoundSetBetCrashPoints
<1>6. bets' \in [Bet -> BetRecord]
  BY <1>1, <1>2, BetsTypes
<1>7. ASSUME NEW b \in Bet
      PROVE  /\ BetFields(bets'[b])
             /\ \A e \in BetRow \cup {NoRow} : PastBet(bets[b], e) => PastBet(bets'[b], e)
  <2>1. BetFields(BetSetCrashPoint(bets[b], m))
    BY <1>2 DEF BetFields, BetSetCrashPoint, BetRecord
  <2> QED BY <1>2, <1>5, <2>1, PastStays
<1>8. MovesOn
  BY <1>3, <1>4, <1>6, <1>7 DEF MovesOn
<1>9. RunSave \in Saver
  BY DEF RunSave, Saver
<1> QED BY <1>8, <1>9, CallerKeepsInv DEF StartRound

\* the multiplier loop
LEMMA TickStep ==
  ASSUME Inv, Tick
  PROVE  Inv'
<1> DEFINE m == round.multiplier + 1
<1>1. /\ round \in RoundRecord /\ RoundFields(round) /\ bets \in [Bet -> BetRecord]
      /\ \A b \in Bet : BetFields(bets[b])
      /\ RoundCanUpdateMultiplier(round, m)
      /\ round' = RoundUpdateMultiplier(round, m)
      /\ bets' = RoundUpdateBets(round, bets, 1, m)
  BY DEF Inv, TypeOK, PastInv, Tick
<1>2. m \in Nat
  BY <1>1 DEF RoundRecord
<1> HIDE DEF m
<1>3. /\ round' \in RoundRecord
      /\ \A e \in RoundRow \cup {NoRow} : PastRound(round, e) => PastRound(round', e)
  BY <1>1, <1>2, RoundTypes, PastStays
<1>4. RoundFields(round') /\ round'.state # "NONE"
  BY <1>1, <1>2 DEF RoundFields, RoundUpdateMultiplier, RoundCrash, RoundRecord,
                    RoundCanUpdateMultiplier
<1>5. bets' = bets \/ bets' = RoundCrashBets(bets, 1)
  BY <1>1 DEF RoundUpdateBets
<1>6. bets' \in [Bet -> BetRecord]
  BY <1>1, <1>5, BetsTypes
<1>7. ASSUME NEW b \in Bet
      PROVE  /\ BetFields(bets'[b])
             /\ \A e \in BetRow \cup {NoRow} : PastBet(bets[b], e) => PastBet(bets'[b], e)
  <2>1. \/ bets'[b] = bets[b]
        \/ bets[b].state = "PENDING" /\ bets'[b] = BetLose(bets[b])
    BY <1>5 DEF RoundCrashBets, PendingIn, BetsOf
  <2>2. BetFields(BetLose(bets[b]))
    BY <1>1 DEF BetFields, BetLose, BetRecord
  <2> QED BY <1>1, <2>1, <2>2, PastStays
<1>8. MovesOn
  BY <1>3, <1>4, <1>6, <1>7 DEF MovesOn
<1>9. CrashSave \in Saver
  BY DEF CrashSave, Saver
<1>10. UNCHANGED <<save, overlapped>> \/ \E s \in Saver : BeginSave(s)
  BY <1>9 DEF Tick
<1>11. UNCHANGED <<alive, tables>>
  BY DEF Tick
<1> QED BY <1>8, <1>10, <1>11, CallerKeepsInv

\* the death of the process
LEMMA CrashStep ==
  ASSUME Inv, Crash
  PROVE  Inv'
<1>1. /\ alive' = FALSE /\ save' = [s \in Saver |-> NoSave]
      /\ round' = round /\ bets' = bets /\ roundRow' = roundRow /\ betRows' = betRows
      /\ overlapped' = overlapped
  BY DEF Crash, tables
<1>2. TypeOK'
  <2>1. alive' \in BOOLEAN /\ overlapped' \in BOOLEAN
    BY <1>1 DEF Inv, TypeOK
  <2>2. save' \in [Saver -> SaveRecord]
    BY <1>1, EndedTypes
  <2> QED BY <1>1, <2>1, <2>2 DEF Inv, TypeOK
<1>3. \A s \in Saver : InHand(save[s])'
  BY <1>1 DEF InHand, NoSave, NoRows, PastRound, PastBet
<1> QED BY <1>1, <1>2, <1>3 DEF Inv, PastInv

\* Every step of the module keeps the invariant.
LEMMA NextInv == Inv /\ [Next]_vars => Inv'
<1> SUFFICES ASSUME Inv, [Next]_vars PROVE Inv'
  OBVIOUS
<1>1. CASE CreateRound
  BY <1>1, CreateRoundStep
<1>2. CASE StartRound
  BY <1>2, StartRoundStep
<1>3. CASE Tick
  BY <1>3, TickStep
<1>4. CASE Crash
  BY <1>4, CrashStep
<1>5. ASSUME NEW b \in Bet, PlaceBet(b)
      PROVE  Inv'
  BY <1>5, PlaceBetStep
<1>6. ASSUME NEW b \in Bet, NEW m \in One .. MaxCrash, CashOut(b, m)
      PROVE  Inv'
  BY <1>6, CashOutStep
<1>7. ASSUME NEW s \in Saver, SaveStep(s)
      PROVE  Inv'
  <2>1. CASE SelectRound(s) \/ SelectBets(s)
    BY <2>1, SelectStep
  <2>2. CASE InsertRound(s) \/ UpdateRound(s)
    BY <2>2, WriteRoundStep
  <2>3. CASE MapBets(s)
    BY <2>3, MapBetsStep
  <2>4. CASE WriteBets(s)
    BY <2>4, WriteBetsStep
  <2>5. CASE DuplicateBet(s) \/ SaveFails(s)
    BY <2>5, RejectedStep
  <2> QED BY <1>7, <2>1, <2>2, <2>3, <2>4, <2>5 DEF SaveStep
<1>8. CASE UNCHANGED vars
  <2>1. /\ alive' = alive /\ round' = round /\ bets' = bets /\ save' = save
        /\ roundRow' = roundRow /\ betRows' = betRows /\ overlapped' = overlapped
    BY <1>8 DEF vars
  <2>2. TypeOK'
    <3>1. alive' \in BOOLEAN /\ overlapped' \in BOOLEAN
      BY <2>1 DEF Inv, TypeOK
    <3> QED BY <2>1, <3>1 DEF Inv, TypeOK
  <2>3. PastInv'
    BY <2>1 DEF Inv, PastInv, InHand
  <2> QED BY <2>2, <2>3 DEF Inv
<1> QED BY <1>1, <1>2, <1>3, <1>4, <1>5, <1>6, <1>7, <1>8 DEF Next

-----------------------------------------------------------------------------
(* Theorems *)

\* The invariant holds in every reachable state.
LEMMA Invariant == Spec => []Inv
<1>1. Init => Inv
  BY InitInv
<1>2. Inv /\ [Next]_vars => Inv'
  BY NextInv
<1> QED BY <1>1, <1>2, PTL DEF Spec

\* Every variable keeps its type.
THEOREM TypeCorrect == Spec => []TypeOK
<1>1. Inv => TypeOK
  BY DEF Inv
<1> QED BY <1>1, Invariant, PTL

\* The row of the round is never ahead of the round, and shows its crash point
\* as soon as it shows the round running: whatever saves overlap, fail or die.
THEOREM RoundRowNeverAhead == Spec => []RoundRowIsTrue
<1>1. Inv => RoundRowIsTrue
  <2> SUFFICES ASSUME Inv, roundRow # NoRow
               PROVE  /\ Rank[roundRow.state] <= Rank[round.state]
                      /\ roundRow.state # "BETTING" => roundRow.crashPoint = round.crashPoint
    BY DEF RoundRowIsTrue
  <2>1. roundRow \in RoundRow /\ round \in RoundRecord /\ PastRound(round, roundRow)
    BY DEF Inv, TypeOK, PastInv
  <2>2. /\ roundRow.state \in {"BETTING", "RUNNING", "CRASHED"}
        /\ round.state \in {"BETTING", "RUNNING", "CRASHED"}
        /\ round.state = "BETTING" => roundRow.state = "BETTING"
        /\ round.state = "RUNNING" => roundRow.state \in {"BETTING", "RUNNING"}
    BY <2>1 DEF PastRound, RoundRow, RoundRecord
  <2>3. Rank["BETTING"] = 1 /\ Rank["RUNNING"] = 2 /\ Rank["CRASHED"] = 3
    BY DEF Rank
  <2>4. Rank[roundRow.state] <= Rank[round.state]
    BY <2>2, <2>3
  <2> QED BY <2>1, <2>4 DEF PastRound
<1> QED BY <1>1, Invariant, PTL

\* A settled bet row is the settlement of its bet, whatever saves overlap.
THEOREM BetRowsTellSettlement == Spec => []BetRowsAreTrue
<1>1. Inv => BetRowsAreTrue
  <2> SUFFICES ASSUME Inv, NEW b \in Bet, betRows[b].state \in {"CASHED_OUT", "LOST"}
               PROVE  /\ betRows[b].state = bets[b].state
                      /\ betRows[b].winnings = bets[b].winnings
    BY DEF BetRowsAreTrue
  <2>1. PastBet(bets[b], betRows[b])
    BY DEF Inv, PastInv
  <2>2. NoRow.state = "NO ROW"
    BY DEF NoRow
  <2>3. betRows[b] # NoRow
    BY <2>2
  <2> QED BY <2>1, <2>3 DEF PastBet
<1> QED BY <1>1, Invariant, PTL

\* Neither table tells what is not true of the round.
THEOREM RowsTellTheTruth == Spec => []RowsAreTrue
BY RoundRowNeverAhead, BetRowsTellSettlement, PTL DEF RowsAreTrue
-----------------------------------------------------------------------------
(* Who was told that a bet is placed finds its row.                          *)

\* the round, or the bet, is past the call that starts the save of s
CallDone(s) ==
  \/ s[1] = "init" /\ round.state # "NONE"
  \/ s[1] = "run" /\ round.state \in {"RUNNING", "CRASHED"}
  \/ s[1] = "crash" /\ round.state = "CRASHED"
  \/ s[1] = "place" /\ bets[s[2]].state # "ABSENT"
  \/ s[1] = "cash" /\ bets[s[2]].state = "CASHED_OUT"

InRound(b) == bets[b].state # "ABSENT" => bets[b].round = 1

HasRow(b) ==
  LET rec == save[<<"place", b>>]
  IN  /\ rec.phase \in {"selectBets", "writeBets"} => rec.betEntities[b] # NoRow
      /\ rec.phase = "saved" => betRows[b] # NoRow

OnceInv ==
  /\ \A b \in Bet : InRound(b) /\ HasRow(b)
  /\ \A s \in Saver : save[s].phase # "idle" => CallDone(s)

\* what every step of a caller keeps
Moves ==
  /\ \A s \in Saver : CallDone(s) => CallDone(s)'
  /\ \A b \in Bet : InRound(b) => InRound(b)'
  /\ UNCHANGED <<alive, tables>>

\* the call of a save
Calls(s) == Moves /\ BeginSave(s) /\ CallDone(s)'

\* a step without a save, which no row could tell
Unseen ==
  /\ Moves
  /\ UNCHANGED <<save, overlapped, bets>>
  /\ RoundEntity(round') = RoundEntity(round)
  /\ round = NoRound => round' = NoRound

\* PlaceBet and CashOut call the save of their bet.
LEMMA BetCalls ==
  ASSUME Inv, NEW b \in Bet, PlaceBet(b) \/ \E m \in One .. MaxCrash : CashOut(b, m)
  PROVE  \E s \in Saver : Calls(s)
<1>1. /\ bets \in [Bet -> BetRecord] /\ round' = round
      /\ UNCHANGED <<alive, tables>>
  BY DEF Inv, TypeOK, PlaceBet, CashOut
<1>2. CASE PlaceBet(b)
  <2>1. bets[b].state = "ABSENT" /\ bets' = [bets EXCEPT ![b] = BetCreate(1)]
    BY <1>2 DEF PlaceBet, RoundCanPlaceBet, RoundPlaceBet
  <2>2. /\ bets'[b] = BetCreate(1)
        /\ \A c \in Bet \ {b} : bets'[c] = bets[c]
    BY <1>1, <2>1
  <2>3. BetCreate(1).state = "PENDING" /\ BetCreate(1).round = 1
    BY DEF BetCreate, AbsentBet
  <2>4. \A s \in Saver : CallDone(s) => CallDone(s)'
    BY <1>1, <2>1, <2>2, <2>3 DEF CallDone, Saver
  <2>5. \A c \in Bet : InRound(c) => InRound(c)'
    BY <2>2, <2>3 DEF InRound
  <2>6. <<"place", b>> \in Saver /\ CallDone(<<"place", b>>)'
    BY <2>1, <2>2, <2>3 DEF CallDone, Saver
  <2> QED BY <1>1, <1>2, <2>4, <2>5, <2>6 DEF Calls, Moves, PlaceBet
<1>3. ASSUME NEW m \in One .. MaxCrash, CashOut(b, m)
      PROVE  \E s \in Saver : Calls(s)
  <2>1. /\ bets[b].state = "PENDING"
        /\ bets' = [bets EXCEPT ![b] = BetCashOut(bets[b], Amount[b], m)]
    BY <1>3 DEF CashOut, RoundCanCashOut, BetCanCashOut, RoundCashOut
  <2>2. /\ bets'[b] = BetCashOut(bets[b], Amount[b], m)
        /\ \A c \in Bet \ {b} : bets'[c] = bets[c]
    BY <1>1, <2>1
  <2>3. bets'[b].state = "CASHED_OUT" /\ bets'[b].round = bets[b].round
    BY <1>1, <2>2 DEF BetCashOut, BetRecord
  <2>4. \A s \in Saver : CallDone(s) => CallDone(s)'
    BY <1>1, <2>1, <2>2, <2>3 DEF CallDone, Saver
  <2>5. \A c \in Bet : InRound(c) => InRound(c)'
    BY <2>1, <2>2, <2>3 DEF InRound
  <2>6. <<"cash", b>> \in Saver /\ CallDone(<<"cash", b>>)'
    BY <2>1, <2>3 DEF CallDone, Saver
  <2> QED BY <1>1, <1>3, <2>4, <2>5, <2>6 DEF Calls, Moves, CashOut
<1> QED BY <1>2, <1>3

\* The steps that change the state of the round call its saves; a tick that does
\* not is unseen.
LEMMA RoundCalls ==
  ASSUME Inv, CreateRound \/ StartRound \/ Tick
  PROVE  Unseen \/ \E s \in Saver : Calls(s)
<1>1. /\ bets \in [Bet -> BetRecord] /\ round \in RoundRecord
      /\ UNCHANGED <<alive, tables>>
  BY DEF Inv, TypeOK, CreateRound, StartRound, Tick
<1>2. /\ InitSave \in Saver /\ RunSave \in Saver /\ CrashSave \in Saver
      /\ InitSave[1] = "init" /\ RunSave[1] = "run" /\ CrashSave[1] = "crash"
  BY DEF InitSave, RunSave, CrashSave, Saver
<1>3. CASE CreateRound
  <2>1. round.state = "NONE" /\ round'.state = "BETTING" /\ bets' = bets
    BY <1>3 DEF CreateRound, NoRound, RoundCreate
  <2>2. /\ \A s \in Saver : CallDone(s) => CallDone(s)'
        /\ \A c \in Bet : InRound(c) => InRound(c)'
        /\ CallDone(InitSave)'
    BY <1>2, <2>1 DEF CallDone, InRound
  <2> QED BY <1>1, <1>2, <1>3, <2>2 DEF Calls, Moves, CreateRound
<1>4. CASE StartRound
  <2>1. PICK m \in CrashMultiplier :
          /\ round' = RoundStart(RoundSetCrashPoint(round, m, 1))
          /\ bets' = RoundSetBetCrashPoints(bets, 1, m)
    BY <1>4 DEF StartRound
  <2>2. round.state = "BETTING" /\ round'.state = "RUNNING"
    BY <1>1, <1>4, <2>1 DEF StartRound, RoundCanSetCrashPoint, RoundStart,
                            RoundSetCrashPoint, RoundRecord
  <2>3. \A c \in Bet : bets'[c].state = bets[c].state /\ bets'[c].round = bets[c].round
    BY <1>1, <2>1 DEF RoundSetBetCrashPoints, BetSetCrashPoint, BetRecord
  <2>4. /\ \A s \in Saver : CallDone(s) => CallDone(s)'
        /\ CallDone(RunSave)'
    BY <1>2, <2>2, <2>3 DEF CallDone, Saver
  <2>5. \A c \in Bet : InRound(c) => InRound(c)'
    BY <2>3 DEF InRound
  <2> QED BY <1>1, <1>2, <1>4, <2>4, <2>5 DEF Calls, Moves, StartRound
<1>5. CASE Tick
  <2> DEFINE m == round.multiplier + 1
  <2>1. /\ round' = RoundUpdateMultiplier(round, m)
        /\ bets' = RoundUpdateBets(round, bets, 1, m)
        /\ round.state = "RUNNING"
        /\ IF round'.state = "CRASHED"
             THEN BeginSave(CrashSave) ELSE UNCHANGED <<save, overlapped>>
    BY <1>5 DEF Tick, RoundCanUpdateMultiplier
  <2> HIDE DEF m
  <2>2. CASE HasCrashed(round.crashPoint, m)
    <3>1. round'.state = "CRASHED"
      BY <1>1, <2>1, <2>2 DEF RoundUpdateMultiplier, RoundCrash, RoundRecord
    <3>2. \A c \in Bet : /\ bets'[c].round = bets[c].round
                         /\ bets'[c].state = "ABSENT" <=> bets[c].state = "ABSENT"
                         /\ bets[c].state = "CASHED_OUT" => bets'[c].state = "CASHED_OUT"
      <4>1. bets' = RoundCrashBets(bets, 1)
        BY <2>1, <2>2 DEF RoundUpdateBets
      <4> QED BY <1>1, <4>1 DEF RoundCrashBets, PendingIn, BetsOf, BetLose, BetRecord
    <3>3. /\ \A s \in Saver : CallDone(s) => CallDone(s)'
          /\ CallDone(CrashSave)'
      BY <1>2, <2>1, <3>1, <3>2 DEF CallDone, Saver
    <3>4. \A c \in Bet : InRound(c) => InRound(c)'
      BY <3>2 DEF InRound
    <3> QED BY <1>1, <1>2, <2>1, <3>1, <3>3, <3>4 DEF Calls, Moves
  <2>3. CASE ~ HasCrashed(round.crashPoint, m)
    <3>1. round'.state = "RUNNING" /\ round'.crashPoint = round.crashPoint /\ bets' = bets
      BY <1>1, <2>1, <2>3 DEF RoundUpdateMultiplier, RoundUpdateBets, RoundRecord
    <3>2. /\ \A s \in Saver : CallDone(s) => CallDone(s)'
          /\ \A c \in Bet : InRound(c) => InRound(c)'
      BY <2>1, <3>1 DEF CallDone, InRound
    <3>3. RoundEntity(round') = RoundEntity(round) /\ round # NoRound
      BY <2>1, <3>1 DEF RoundEntity, NoRound
    <3> QED BY <1>1, <2>1, <3>1, <3>2, <3>3 DEF Unseen, Moves
  <2> QED BY <2>2, <2>3
<1> QED BY <1>3, <1>4, <1>5

\* What a step of a save leaves alone.
LEMMA SaveStepFrame ==
  ASSUME Inv, NEW s \in Saver, SaveStep(s)
  PROVE  /\ UNCHANGED <<memory, overlapped>>
         /\ Active(s) /\ save'[s].phase # "idle"
         /\ \A t \in Saver \ {s} : save'[t] = save[t]
<1>1. save \in [Saver -> SaveRecord]
  BY DEF Inv, TypeOK
<1>2. \A p \in {"saved", "rejected"} : Ended(p).phase = p
  BY DEF Ended, NoSave
<1>3. CASE SelectRound(s) \/ SelectBets(s)
  BY <1>1, <1>3 DEF SelectRound, SelectBets, Active, SaveRecord
<1>4. CASE InsertRound(s) \/ UpdateRound(s)
  BY <1>1, <1>2, <1>4 DEF InsertRound, UpdateRound, Active, SaveRecord
<1>5. CASE MapBets(s)
  BY <1>1, <1>2, <1>5 DEF MapBets, Active, SaveRecord
<1>6. CASE WriteBets(s)
  BY <1>1, <1>2, <1>6 DEF WriteBets, Active
<1>7. CASE DuplicateBet(s) \/ SaveFails(s)
  BY <1>1, <1>2, <1>7 DEF DuplicateBet, SaveFails, Active
<1> QED BY <1>3, <1>4, <1>5, <1>6, <1>7 DEF SaveStep

\* The kinds of steps.
LEMMA Kinds ==
  ASSUME Inv, [Next]_vars
  PROVE  \/ \E s \in Saver : SaveStep(s) \/ Calls(s)
         \/ Crash
         \/ Unseen
<1>1. CASE CreateRound \/ StartRound \/ Tick
  BY <1>1, RoundCalls
<1>2. ASSUME NEW b \in Bet, PlaceBet(b) \/ \E m \in One .. MaxCrash : CashOut(b, m)
      PROVE  \E s \in Saver : Calls(s)
  BY <1>2, BetCalls
<1>3. CASE UNCHANGED vars
  <2>1. UNCHANGED <<alive, tables, save, overlapped, bets>> /\ round' = round
    BY <1>3 DEF vars, tables
  <2>2. /\ \A s \in Saver : CallDone(s) => CallDone(s)'
        /\ \A b \in Bet : InRound(b) => InRound(b)'
    BY <2>1 DEF CallDone, InRound
  <2> QED BY <2>1, <2>2 DEF Unseen, Moves
<1> QED BY <1>1, <1>2, <1>3 DEF Next
\* What a call leaves in the records of the saves.
LEMMA CallFrame ==
  ASSUME Inv, NEW s \in Saver, Calls(s)
  PROVE  /\ save'[s].phase = "select" /\ save'[s].entity = RoundEntity(round')
         /\ \A t \in Saver \ {s} : save'[t] = save[t]
         /\ overlapped' = (overlapped \/ \E t \in Saver : Active(t))
<1>1. save \in [Saver -> SaveRecord]
  BY DEF Inv, TypeOK
<1>2. save' = [save EXCEPT ![s] =
                 [NoSave EXCEPT !.phase = "select", !.entity = RoundEntity(round')]]
  BY DEF Calls, BeginSave
<1> QED BY <1>1, <1>2 DEF Calls, BeginSave, NoSave

\* A bet of the round is among those its save writes.
LEMMA OwnBetIsSaved ==
  ASSUME Inv, OnceInv, NEW b \in Bet, bets[b].state # "ABSENT"
  PROVE  BetEntities(bets)[b] # NoRow
<1>1. b \in BetsOf(bets, 1) /\ bets[b] \in BetRecord
  BY DEF Inv, TypeOK, OnceInv, InRound, BetsOf
<1>2. BetEntities(bets)[b] = BetEntity(bets[b])
  BY <1>1 DEF BetEntities
<1>3. BetEntity(bets[b]) \in BetRow
  BY <1>1 DEF BetEntity, BetRow, BetRecord, BetsOf
<1> QED BY <1>2, <1>3, NoRowIsNone

\* The steps of a save do not lose the row of a bet that was placed.
LEMMA HasRowStep ==
  ASSUME Inv, OnceInv, NEW s \in Saver, SaveStep(s), NEW b \in Bet
  PROVE  HasRow(b)'
<1> DEFINE p == <<"place", b>>
<1>1. p \in Saver /\ HasRow(b) /\ save \in [Saver -> SaveRecord]
  BY DEF OnceInv, Inv, TypeOK, Saver
<1>2. betRows[b] # NoRow => betRows'[b] # NoRow
  <2>1. CASE WriteBets(s)
    BY <2>1, WrittenBetsFacts DEF WriteBets
  <2>2. CASE ~ WriteBets(s)
    <3>1. betRows' = betRows
      BY <2>2 DEF SaveStep, SelectRound, InsertRound, UpdateRound, MapBets, SelectBets,
                  DuplicateBet, SaveFails, tables
    <3> QED BY <3>1
  <2> QED BY <2>1, <2>2
<1>3. CASE s # p
  <2>1. save'[p] = save[p]
    BY <1>1, <1>3, SaveStepFrame
  <2> QED BY <1>1, <1>2, <2>1 DEF HasRow
<1>4. CASE s = p
  <2> DEFINE rec == save'[p]
  <2>0. save[p] \in SaveRecord /\ (p = s)
    BY <1>1, <1>4
  <2>1. CASE SelectRound(s) \/ InsertRound(s) \/ UpdateRound(s) \/ DuplicateBet(s)
             \/ SaveFails(s)
    <3>1. \/ save'[s] = Ended("rejected")
          \/ save'[s] = [save[s] EXCEPT !.phase = "written"]
          \/ save'[s] = [save[s] EXCEPT !.phase = "write", !.found = roundRow]
      <4>1. CASE SelectRound(s)
        BY <1>1, <4>1 DEF SelectRound
      <4>2. CASE InsertRound(s) \/ UpdateRound(s)
        BY <1>1, <4>2 DEF InsertRound, UpdateRound
      <4>3. CASE DuplicateBet(s) \/ SaveFails(s)
        BY <1>1, <4>3 DEF DuplicateBet, SaveFails
      <4> QED BY <2>1, <4>1, <4>2, <4>3
    <3>2. save'[s].phase \in {"write", "written", "rejected"}
      BY <2>0, <3>1 DEF Ended, NoSave, SaveRecord
    <3>3. save'[p].phase \in {"write", "written", "rejected"}
      BY <1>4, <3>2
    <3> QED BY <3>3 DEF HasRow
  <2>2. CASE MapBets(s)
    <3>1. bets[b].state # "ABSENT"
      <4>1. CallDone(p)
        BY <1>1, <2>0, <2>2 DEF MapBets, OnceInv
      <4> QED BY <4>1 DEF CallDone
    <3>2. BetEntities(bets)[b] # NoRow
      BY <3>1, OwnBetIsSaved
    <3>3. BetsToSave(s) # NoRows
      BY <3>2 DEF BetsToSave, NoRows
    <3>4. save' = [save EXCEPT ![s] = [save[s] EXCEPT !.phase = "selectBets",
                                                      !.betEntities = BetsToSave(s)]]
      BY <2>2, <3>3 DEF MapBets
    <3>5. rec.phase = "selectBets" /\ rec.betEntities = BetEntities(bets)
      BY <1>1, <2>0, <3>4 DEF SaveRecord, BetsToSave
    <3> QED BY <3>2, <3>5 DEF HasRow
  <2>3. CASE SelectBets(s)
    <3>1. rec.phase = "writeBets" /\ rec.betEntities = save[p].betEntities
      BY <1>1, <2>0, <2>3 DEF SelectBets, SaveRecord
    <3>2. save[p].betEntities[b] # NoRow
      BY <1>1, <2>0, <2>3 DEF SelectBets, HasRow
    <3> QED BY <3>1, <3>2 DEF HasRow
  <2>4. CASE WriteBets(s)
    <3>1. rec.phase \in {"saved", "rejected"}
      BY <1>1, <2>0, <2>4 DEF WriteBets, Ended, NoSave
    <3>2. save[s].betEntities[b] # NoRow
      BY <1>1, <2>0, <2>4 DEF WriteBets, HasRow
    <3>3. betRows'[b] # NoRow
      BY <2>4, <3>2, WrittenBetsFacts DEF WriteBets
    <3> QED BY <3>1, <3>3 DEF HasRow
  <2> QED BY <2>1, <2>2, <2>3, <2>4 DEF SaveStep
<1> QED BY <1>3, <1>4

\* Every step keeps the invariant.
LEMMA OnceStep ==
  ASSUME Inv, OnceInv, [Next]_vars
  PROVE  OnceInv'
<1>1. /\ \A b \in Bet : InRound(b) /\ HasRow(b) /\ <<"place", b>> \in Saver
      /\ \A s \in Saver : save[s].phase # "idle" => CallDone(s)
  BY DEF OnceInv, Saver
<1>2. ASSUME NEW s \in Saver, SaveStep(s)
      PROVE  OnceInv'
  <2>1. /\ bets' = bets /\ round' = round
        /\ Active(s) /\ \A t \in Saver \ {s} : save'[t] = save[t]
    BY <1>2, SaveStepFrame DEF memory
  <2>2. \A t \in Saver : CallDone(t) => CallDone(t)'
    BY <2>1 DEF CallDone
  <2>3. \A t \in Saver : save'[t].phase # "idle" => CallDone(t)'
    BY <1>1, <2>1, <2>2 DEF Active
  <2>4. \A b \in Bet : InRound(b)'
    BY <1>1, <2>1 DEF InRound
  <2>5. \A b \in Bet : HasRow(b)'
    BY <1>2, HasRowStep
  <2> QED BY <2>3, <2>4, <2>5 DEF OnceInv
<1>3. ASSUME NEW s \in Saver, Calls(s)
      PROVE  OnceInv'
  <2>1. \A t \in Saver : save'[t].phase # "idle" => CallDone(t)'
    BY <1>1, <1>3, CallFrame DEF Calls, Moves
  <2>2. \A b \in Bet : InRound(b)'
    BY <1>1, <1>3 DEF Calls, Moves
  <2>3. ASSUME NEW b \in Bet
        PROVE  HasRow(b)'
    <3>1. betRows' = betRows
      BY <1>3 DEF Calls, Moves, tables
    <3>2. CASE s = <<"place", b>>
      BY <1>3, <3>2, CallFrame DEF HasRow
    <3>3. CASE s # <<"place", b>>
      <4>1. save'[<<"place", b>>] = save[<<"place", b>>]
        BY <1>1, <1>3, <3>3, CallFrame
      <4> QED BY <1>1, <3>1, <4>1 DEF HasRow
    <3> QED BY <3>2, <3>3
  <2> QED BY <2>1, <2>2, <2>3 DEF OnceInv
<1>4. CASE Crash
  <2>1. bets' = bets /\ save' = [t \in Saver |-> NoSave]
    BY <1>4 DEF Crash
  <2>2. NoSave.phase = "idle"
    BY DEF NoSave
  <2> QED BY <1>1, <2>1, <2>2 DEF OnceInv, InRound, HasRow
<1>5. CASE Unseen
  <2>1. save' = save /\ betRows' = betRows
    BY <1>5 DEF Unseen, Moves, tables
  <2>2. \A b \in Bet : HasRow(b)'
    BY <1>1, <2>1 DEF HasRow
  <2>3. /\ \A b \in Bet : InRound(b)'
        /\ \A t \in Saver : save'[t].phase # "idle" => CallDone(t)'
    BY <1>1, <1>5, <2>1 DEF Unseen, Moves
  <2> QED BY <2>2, <2>3 DEF OnceInv
<1> QED BY <1>2, <1>3, <1>4, <1>5, Kinds

\* The invariant holds initially.
LEMMA OnceInit == Init => OnceInv
BY DEF Init, OnceInv, InRound, HasRow, AbsentBet, NoSave, Saver

\* Whoever was told that the bet is placed can find it in the database,
\* whatever saves overlap, fail or die.
THEOREM PlacedBetsAreStored == Spec => []PlacedBetsHaveRows
<1>1. OnceInv => PlacedBetsHaveRows
  BY DEF OnceInv, HasRow, PlacedBetsHaveRows
<1>2. Init => OnceInv
  BY OnceInit
<1>3. Inv /\ OnceInv /\ [Next]_vars => OnceInv'
  BY OnceStep
<1> QED BY <1>1, <1>2, <1>3, Invariant, PTL DEF Spec
-----------------------------------------------------------------------------
(* Saves that do not overlap leave the rows equal to the round.              *)

\* every save so far was alone, and none was refused
Quiet ==
  /\ alive /\ ~ overlapped
  /\ \A s \in Saver : save[s].phase # "rejected"

Persisted ==
  /\ round # NoRound => roundRow = RoundEntity(round)
  /\ betRows = BetEntities(bets)

\* how far the rows are when s alone is saving
Serial(s) ==
  /\ save[s].phase \in {"select", "write"} => save[s].entity = RoundEntity(round)
  /\ save[s].phase = "write" => save[s].found = roundRow
  /\ save[s].phase \in {"written", "selectBets", "writeBets"} =>
       roundRow = RoundEntity(round)
  /\ save[s].phase \in {"selectBets", "writeBets"} =>
       save[s].betEntities = BetEntities(bets)
  /\ save[s].phase = "writeBets" =>
       \A b \in Bet : save[s].betEntities[b] # NoRow => save[s].betsFound[b] = betRows[b]

SerialInv ==
  Quiet =>
    /\ \A s, t \in Saver : Active(s) /\ Active(t) => s = t
    /\ \A s \in Saver : Active(s) => Serial(s)
    /\ (\A s \in Saver : ~ Active(s)) => Persisted

\* An UPDATE that found the row as it is leaves what it was to write.
LEMMA UpdateWhole ==
  /\ \A e, f \in RoundRow :
       (e.crashPoint = NoCrashPoint => f.crashPoint = NoCrashPoint) => UpdatedRound(e, f, f) = e
  /\ \A e, f \in BetRow : UpdatedBet(e, f, f) = e
<1>1. ASSUME NEW e \in RoundRow, NEW f \in RoundRow,
             e.crashPoint = NoCrashPoint => f.crashPoint = NoCrashPoint
      PROVE  UpdatedRound(e, f, f) = e
  <2>1. UpdatedRound(e, f, f) = [state |-> e.state, crashPoint |-> e.crashPoint]
    BY <1>1 DEF UpdatedRound, Differing
  <2> QED BY <2>1 DEF RoundRow
<1>2. ASSUME NEW e \in BetRow, NEW f \in BetRow
      PROVE  UpdatedBet(e, f, f) = e
  <2>1. UpdatedBet(e, f, f) = [state |-> e.state, winnings |-> e.winnings]
    BY DEF UpdatedBet, Differing
  <2> QED BY <2>1 DEF BetRow
<1> QED BY <1>1, <1>2

\* A bet that has no entity has no row.
LEMMA NoEntityNoRow ==
  ASSUME Inv, OnceInv, NEW b \in Bet, BetEntities(bets)[b] = NoRow
  PROVE  betRows[b] = NoRow
<1>1. bets[b].state = "ABSENT"
  BY OwnBetIsSaved
<1> QED BY <1>1 DEF Inv, PastInv, PastBet

\* The two writes of the round, done alone, write the round.
LEMMA RoundWritten ==
  ASSUME Inv, NEW s \in Saver, Serial(s), InsertRound(s) \/ UpdateRound(s),
         save'[s].phase # "rejected"
  PROVE  save'[s].phase = "written" /\ roundRow' = RoundEntity(round)
<1>1. /\ save[s] \in SaveRecord /\ save \in [Saver -> SaveRecord]
      /\ save[s].phase = "write" /\ save[s].entity = RoundEntity(round)
      /\ save[s].found = roundRow
  BY DEF Inv, TypeOK, InsertRound, UpdateRound, Serial
<1>2. CASE InsertRound(s)
  <2>1. \/ roundRow' = save[s].entity /\ save' = [save EXCEPT ![s].phase = "written"]
        \/ save' = [save EXCEPT ![s] = Ended("rejected")]
    BY <1>2 DEF InsertRound
  <2>2. save' # [save EXCEPT ![s] = Ended("rejected")]
    BY <1>1 DEF Ended, NoSave
  <2> QED BY <1>1, <2>1, <2>2 DEF SaveRecord
<1>3. CASE UpdateRound(s)
  <2>1. /\ roundRow' = UpdatedRound(save[s].entity, roundRow, roundRow)
        /\ save'[s] = [save[s] EXCEPT !.phase = "written"]
        /\ roundRow # NoRow
    BY <1>1, <1>3 DEF UpdateRound
  <2>2. /\ save[s].entity # NoRow /\ save[s].entity \in RoundRow
        /\ roundRow \in RoundRow /\ PastRound(round, roundRow)
    BY <1>1, <2>1 DEF Inv, TypeOK, PastInv, InHand, SaveRecord
  <2>3. save[s].entity.crashPoint = NoCrashPoint => roundRow.crashPoint = NoCrashPoint
    BY <1>1, <2>1, <2>2 DEF PastRound, RoundEntity
  <2>4. roundRow' = save[s].entity
    BY <2>1, <2>2, <2>3, UpdateWhole
  <2> QED BY <1>1, <2>1, <2>4 DEF SaveRecord
<1> QED BY <1>2, <1>3

\* The transaction, done alone, writes the bets.
LEMMA BetsWritten ==
  ASSUME Inv, OnceInv, NEW s \in Saver, Serial(s), WriteBets(s)
  PROVE  betRows' = BetEntities(bets)
<1>1. /\ save[s] \in SaveRecord /\ InHand(save[s])
      /\ save[s].betEntities = BetEntities(bets)
      /\ \A b \in Bet : save[s].betEntities[b] # NoRow =>
                          save[s].betsFound[b] = betRows[b]
  BY DEF Inv, TypeOK, PastInv, WriteBets, Serial
<1>2. ASSUME NEW b \in Bet
      PROVE  WrittenBets(s)[b] = BetEntities(bets)[b]
  <2> DEFINE e == save[s].betEntities[b]
             row == betRows[b]
  <2>1. CASE b \in ToInsert(s)
    BY <1>1, <2>1 DEF ToInsert, ToWrite, WrittenBets
  <2>2. CASE b \in ToWrite(s) \ ToInsert(s)
    <3>1. /\ e # NoRow /\ row # NoRow
          /\ WrittenBets(s)[b] = UpdatedBet(e, row, row)
      BY <1>1, <2>2 DEF ToInsert, ToWrite, WrittenBets
    <3>2. e \in BetRow /\ row \in BetRow
      BY <1>1, <3>1 DEF Inv, TypeOK, SaveRecord
    <3>3. UpdatedBet(e, row, row) = e
      <4> HIDE DEF e, row
      <4> QED BY <3>2, UpdateWhole
    <3> QED BY <1>1, <3>1, <3>3
  <2>3. CASE b \notin ToWrite(s)
    <3>1. WrittenBets(s)[b] = row /\ e = NoRow
      BY <2>3 DEF ToInsert, ToWrite, WrittenBets
    <3> QED BY <1>1, <3>1, NoEntityNoRow
  <2> QED BY <2>1, <2>2, <2>3
<1>3. /\ WrittenBets(s) = [b \in Bet |-> WrittenBets(s)[b]]
      /\ BetEntities(bets) = [b \in Bet |-> BetEntities(bets)[b]]
  BY DEF WrittenBets, BetEntities
<1> QED BY <1>2, <1>3 DEF WriteBets

\* A step of a save that is alone and is not refused brings the rows closer.
LEMMA SerialStep ==
  ASSUME Inv, OnceInv, NEW s \in Saver, Serial(s), SaveStep(s),
         save'[s].phase # "rejected"
  PROVE  \/ save'[s].phase = "saved" /\ Persisted'
         \/ save'[s].phase # "saved" /\ Serial(s)'
<1>1. /\ save[s] \in SaveRecord /\ save \in [Saver -> SaveRecord]
      /\ round' = round /\ bets' = bets
  BY SaveStepFrame DEF Inv, TypeOK, memory
<1>2. BetEntities(bets') = BetEntities(bets)
  BY <1>1
<1>3. CASE SelectRound(s)
  <2>1. /\ save'[s] = [save[s] EXCEPT !.phase = "write", !.found = roundRow]
        /\ save[s].phase = "select" /\ roundRow' = roundRow
    BY <1>1, <1>3 DEF SelectRound, tables
  <2>2. /\ save'[s].phase = "write" /\ save'[s].found = roundRow
        /\ save'[s].entity = save[s].entity
    BY <1>1, <2>1 DEF SaveRecord
  <2> QED BY <1>1, <2>1, <2>2 DEF Serial
<1>4. CASE InsertRound(s) \/ UpdateRound(s)
  <2>1. save'[s].phase = "written" /\ roundRow' = RoundEntity(round)
    BY <1>4, RoundWritten
  <2> QED BY <1>1, <2>1 DEF Serial
<1>5. CASE MapBets(s)
  <2>1. roundRow' = roundRow /\ betRows' = betRows /\ roundRow = RoundEntity(round)
    BY <1>5 DEF MapBets, Serial, tables
  <2>2. CASE BetsToSave(s) = NoRows
    <3>1. save'[s] = Ended("saved")
      BY <1>1, <1>5, <2>2 DEF MapBets
    <3>2. \A b \in Bet : BetEntities(bets)[b] = NoRow
      BY <2>2 DEF BetsToSave, NoRows
    <3>3. \A b \in Bet : betRows[b] = NoRow
      BY <3>2, NoEntityNoRow
    <3>4. betRows = BetEntities(bets)
      <4>1. betRows = [b \in Bet |-> betRows[b]]
        BY DEF Inv, TypeOK
      <4> QED BY <2>2, <3>3, <4>1 DEF BetsToSave, NoRows
    <3> QED BY <1>1, <1>2, <2>1, <3>1, <3>4 DEF Persisted, Ended, NoSave
  <2>3. CASE BetsToSave(s) # NoRows
    <3>1. save'[s] = [save[s] EXCEPT !.phase = "selectBets",
                                     !.betEntities = BetsToSave(s)]
      BY <1>1, <1>5, <2>3 DEF MapBets
    <3>2. save'[s].phase = "selectBets" /\ save'[s].betEntities = BetEntities(bets)
      BY <1>1, <3>1 DEF SaveRecord, BetsToSave
    <3> QED BY <1>1, <1>2, <2>1, <3>2 DEF Serial
  <2> QED BY <2>2, <2>3
<1>6. CASE SelectBets(s)
  <2> DEFINE found == [b \in Bet |-> IF save[s].betEntities[b] = NoRow
                                       THEN NoRow ELSE betRows[b]]
  <2>1. /\ save'[s] = [save[s] EXCEPT !.phase = "writeBets", !.betsFound = found]
        /\ save[s].phase = "selectBets" /\ roundRow' = roundRow /\ betRows' = betRows
    BY <1>1, <1>6 DEF SelectBets, tables
  <2>2. /\ save'[s].phase = "writeBets" /\ save'[s].betsFound = found
        /\ save'[s].betEntities = save[s].betEntities
    BY <1>1, <2>1 DEF SaveRecord
  <2>3. roundRow = RoundEntity(round) /\ save[s].betEntities = BetEntities(bets)
    BY <2>1 DEF Serial
  <2> QED BY <1>1, <1>2, <2>1, <2>2, <2>3 DEF Serial
<1>7. CASE WriteBets(s)
  <2>1. save'[s].phase \in {"saved", "rejected"}
    BY <1>1, <1>7 DEF WriteBets, Ended, NoSave
  <2>2. roundRow' = roundRow /\ roundRow = RoundEntity(round)
    BY <1>7 DEF WriteBets, Serial
  <2>3. betRows' = BetEntities(bets)
    BY <1>7, BetsWritten
  <2> QED BY <1>1, <1>2, <2>1, <2>2, <2>3 DEF Persisted
<1>8. CASE DuplicateBet(s) \/ SaveFails(s)
  BY <1>1, <1>8 DEF DuplicateBet, SaveFails, Ended, NoSave
<1> QED BY <1>3, <1>4, <1>5, <1>6, <1>7, <1>8 DEF SaveStep

\* Every step keeps the invariant.
LEMMA SerialKept ==
  ASSUME Inv, OnceInv, SerialInv, [Next]_vars
  PROVE  SerialInv'
<1>1. ASSUME NEW s \in Saver, SaveStep(s), Quiet'
      PROVE  SerialInv'
  <2>1. /\ round' = round /\ bets' = bets /\ alive' = alive /\ overlapped' = overlapped
        /\ Active(s) /\ \A t \in Saver \ {s} : save'[t] = save[t]
        /\ save'[s].phase # "rejected" /\ save'[s].phase # "idle"
    BY <1>1, SaveStepFrame DEF memory, Quiet
  <2>2. Quiet
    BY <1>1, <2>1 DEF Quiet, Active
  <2>3. Serial(s) /\ \A t \in Saver \ {s} : ~ Active(t)
    BY <2>1, <2>2 DEF SerialInv
  <2>4. \A t \in Saver \ {s} : ~ Active(t)'
    BY <2>1, <2>3 DEF Active
  <2>5. CASE save'[s].phase = "saved" /\ Persisted'
    <3>1. ~ Active(s)'
      BY <2>5 DEF Active
    <3> QED BY <2>4, <2>5, <3>1 DEF SerialInv
  <2>6. CASE save'[s].phase # "saved" /\ Serial(s)'
    <3>1. Active(s)'
      BY <2>1, <2>6 DEF Active
    <3> QED BY <2>4, <2>6, <3>1 DEF SerialInv
  <2> QED BY <1>1, <2>1, <2>3, <2>5, <2>6, SerialStep
<1>2. ASSUME NEW s \in Saver, Calls(s), Quiet'
      PROVE  SerialInv'
  <2>1. /\ alive' = alive /\ roundRow' = roundRow /\ betRows' = betRows
        /\ save'[s].phase = "select" /\ save'[s].entity = RoundEntity(round')
        /\ \A t \in Saver \ {s} : save'[t] = save[t]
        /\ overlapped' = (overlapped \/ \E t \in Saver : Active(t))
    BY <1>2, CallFrame DEF Calls, Moves, tables
  <2>2. \A t \in Saver \ {s} : ~ Active(t)'
    BY <1>2, <2>1 DEF Quiet, Active
  <2>3. Active(s)' /\ Serial(s)'
    BY <2>1 DEF Active, Serial
  <2> QED BY <2>2, <2>3 DEF SerialInv
<1>3. CASE Crash
  BY <1>3 DEF Crash, SerialInv, Quiet
<1>4. CASE Unseen
  <2>1. /\ alive' = alive /\ roundRow' = roundRow /\ betRows' = betRows
        /\ save' = save /\ overlapped' = overlapped /\ bets' = bets
        /\ RoundEntity(round') = RoundEntity(round)
        /\ round = NoRound => round' = NoRound
    BY <1>4 DEF Unseen, Moves, tables
  <2>2. Quiet' => Quiet
    BY <2>1 DEF Quiet
  <2>3. \A s \in Saver : Active(s)' <=> Active(s)
    BY <2>1 DEF Active
  <2>4. \A s \in Saver : Serial(s) => Serial(s)'
    BY <2>1 DEF Serial
  <2>5. Persisted => Persisted'
    BY <2>1 DEF Persisted
  <2> QED BY <2>2, <2>3, <2>4, <2>5 DEF SerialInv
<1>5. ~ Quiet' => SerialInv'
  BY DEF SerialInv
<1> QED BY <1>1, <1>2, <1>3, <1>4, <1>5, Kinds

\* The invariant holds initially.
LEMMA SerialInit == Init => SerialInv
<1> SUFFICES ASSUME Init PROVE SerialInv
  OBVIOUS
<1>1. \A s \in Saver : ~ Active(s)
  BY DEF Init, Active, NoSave
<1>2. Persisted
  BY DEF Init, Persisted, NoRows, BetEntities, BetsOf, AbsentBet
<1> QED BY <1>1, <1>2 DEF SerialInv

\* Nothing but overlapping saves puts the tables out of step: if every save so
\* far was alone and succeeded, the rows are the round and its bets.
THEOREM SerialSavesArePersisted == Spec => []SerialSavesPersist
<1>1. SerialInv => SerialSavesPersist
  <2> SUFFICES ASSUME SerialInv, alive, ~ overlapped,
                      \A s \in Saver : save[s].phase \in {"idle", "saved"}
               PROVE  Persisted
    BY DEF SerialSavesPersist, Persisted
  <2> QED BY DEF SerialInv, Quiet, Active
<1>2. Init => OnceInv /\ SerialInv
  BY OnceInit, SerialInit
<1>3. Inv /\ OnceInv /\ SerialInv /\ [Next]_vars => OnceInv' /\ SerialInv'
  BY OnceStep, SerialKept
<1> QED BY <1>1, <1>2, <1>3, Invariant, PTL DEF Spec
=============================================================================
