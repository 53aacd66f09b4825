-------------------------- MODULE RoundRepository --------------------------
(***************************************************************************)
(* How a round reaches its rows: RoundRepository.save, called by the       *)
(* handlers of RoundLifecycleService, over the tables rounds and bets.     *)
(*                                                                         *)
(* One round, from its creation to its end.  A save is a list of database  *)
(* calls: TypeORM loads the row, then inserts it if there was none or else *)
(* updates the columns that differ from what it loaded, and the same again *)
(* for the rows of all bets.  Between two calls anything else may happen,  *)
(* other saves of the round included; every caller is one Saver.           *)
(*                                                                         *)
(* Of a row only the columns that decide what a reader takes the round and *)
(* the bet for are kept: state, crash point and winnings.                  *)
(***************************************************************************)
EXTENDS RoundAggregate

CONSTANTS
  NoBet,           \* the bet of a save that is about none
  SavesMayFail,    \* whether the database may fail
  ProcessMayCrash  \* whether the process may die

ASSUME RepositoryAssumption ==
  /\ NoBet \notin Bet
  /\ SavesMayFail \in BOOLEAN
  /\ ProcessMayCrash \in BOOLEAN

\* initializeNewRound, transitionToRunning, transitionToCrashed, and the
\* requests that place and cash out a bet: each saves the round once
Saver ==
  ({"init", "run", "crash"} \X {NoBet}) \cup ({"place", "cash"} \X Bet)

InitSave == <<"init", NoBet>>
RunSave == <<"run", NoBet>>
CrashSave == <<"crash", NoBet>>

NoRow == [state |-> "NO ROW"]

RoundRow == [state : {"BETTING", "RUNNING", "CRASHED"},
             crashPoint : {NoCrashPoint} \cup CrashMultiplier]

BetRow == [state : {"PENDING", "CASHED_OUT", "LOST"}, winnings : Nat]

-----------------------------------------------------------------------------
VARIABLES
  alive,     \* the process that owns the round runs
  round,     \* the Round object
  bets,      \* its bets, and those never placed
  save,      \* save[s]: how far the save of s is and what it has in hand
  roundRow,  \* the row of the round
  betRows,   \* the rows of the bets
  overlapped \* history: two saves have been under way together

vars == <<alive, round, bets, save, roundRow, betRows, overlapped>>

memory == <<alive, round, bets>>
tables == <<roundRow, betRows>>

NoRows == [b \in Bet |-> NoRow]

\* the entities a save writes and what it found in the database
SaveRecord ==
  [phase : {"idle", "select", "write", "written", "selectBets", "writeBets",
            "saved", "rejected"},
   entity : RoundRow \cup {NoRow},
   found : RoundRow \cup {NoRow},
   betEntities : [Bet -> BetRow \cup {NoRow}],
   betsFound : [Bet -> BetRow \cup {NoRow}]]

NoSave == [phase |-> "idle", entity |-> NoRow, found |-> NoRow,
           betEntities |-> NoRows, betsFound |-> NoRows]

Ended(phase) == [NoSave EXCEPT !.phase = phase]

Active(s) == save[s].phase \notin {"idle", "saved", "rejected"}

Init ==
  /\ alive = TRUE
  /\ round = NoRound /\ bets = [b \in Bet |-> AbsentBet]
  /\ save = [s \in Saver |-> NoSave]
  /\ roundRow = NoRow /\ betRows = NoRows
  /\ overlapped = FALSE

-----------------------------------------------------------------------------
(* Mapping *)

\* mapDomainToTypeorm; a null crash point leaves its columns undefined
RoundEntity(r) == [state |-> r.state, crashPoint |-> r.crashPoint]

BetEntity_noWinnings(bet) == [state |-> bet.state, winnings |-> 0]

\* mapBetDomainToTypeorm
BetEntity(bet) == [state |-> bet.state, winnings |-> bet.winnings]

BetEntities(bs) ==
  [b \in Bet |-> IF b \in BetsOf(bs, 1) THEN BetEntity(bs[b]) ELSE NoRow]

Differing(entity, found, row, column) ==
  IF entity[column] # found[column] THEN entity[column] ELSE row[column]

UpdatedRound_loadedRow(entity, found, row) ==
  [state |-> found.state,
   crashPoint |-> IF entity.crashPoint = NoCrashPoint
                    THEN row.crashPoint ELSE entity.crashPoint]

\* The UPDATE of the columns that differ from what was found.  An undefined
\* column is not written.
UpdatedRound(entity, found, row) ==
  [state |-> Differing(entity, found, row, "state"),
   crashPoint |-> IF entity.crashPoint = NoCrashPoint
                    THEN row.crashPoint ELSE entity.crashPoint]

UpdatedBet(entity, found, row) ==
  [state |-> Differing(entity, found, row, "state"),
   winnings |-> Differing(entity, found, row, "winnings")]

-----------------------------------------------------------------------------
(* RoundRepository.save(round) *)

\* the call: mapDomainToTypeorm runs at once, then save awaits
BeginSave(s) ==
  /\ save' = [save EXCEPT ![s] =
                [NoSave EXCEPT !.phase = "select", !.entity = RoundEntity(round')]]
  /\ overlapped' = (overlapped \/ \E t \in Saver : Active(t))

SelectRound(s) ==
  /\ save[s].phase = "select"
  /\ save' = [save EXCEPT ![s].phase = "write", ![s].found = roundRow]
  /\ UNCHANGED <<memory, tables, overlapped>>

\* The row was not there: INSERT, which another INSERT may have preceded.
InsertRound(s) ==
  /\ save[s].phase = "write"
  /\ save[s].found = NoRow
  /\ \/ /\ roundRow = NoRow
        /\ roundRow' = save[s].entity
        /\ save' = [save EXCEPT ![s].phase = "written"]
     \/ /\ roundRow # NoRow
        /\ save' = [save EXCEPT ![s] = Ended("rejected")]
        /\ UNCHANGED roundRow
  /\ UNCHANGED <<memory, betRows, overlapped>>

UpdateRound(s) ==
  /\ save[s].phase = "write"
  /\ save[s].found # NoRow
  /\ roundRow' = UpdatedRound(save[s].entity, save[s].found, roundRow)
  /\ save' = [save EXCEPT ![s].phase = "written"]
  /\ UNCHANGED <<memory, betRows, overlapped>>

BetsToSave(s) == BetEntities(bets)

\* The save goes on with the bets the round has now; TypeORM returns at once
\* from saving an empty list.
MapBets(s) ==
  /\ save[s].phase = "written"
  /\ save' = [save EXCEPT ![s] =
                IF BetsToSave(s) = NoRows
                  THEN Ended("saved")
                  ELSE [@ EXCEPT !.phase = "selectBets", !.betEntities = BetsToSave(s)]]
  /\ UNCHANGED <<memory, tables, overlapped>>

SelectBets(s) ==
  /\ save[s].phase = "selectBets"
  /\ save' = [save EXCEPT
       ![s].phase = "writeBets",
       ![s].betsFound = [b \in Bet |-> IF save[s].betEntities[b] = NoRow
                                         THEN NoRow ELSE betRows[b]]]
  /\ UNCHANGED <<memory, tables, overlapped>>

ToWrite(s) == {b \in Bet : save[s].betEntities[b] # NoRow}
ToInsert(s) == {b \in ToWrite(s) : save[s].betsFound[b] = NoRow}

WrittenBets_updatesOnly(s) ==
  [b \in Bet |->
     IF b \in ToWrite(s) \ ToInsert(s)
       THEN UpdatedBet(save[s].betEntities[b], save[s].betsFound[b], betRows[b])
       ELSE betRows[b]]

WrittenBets(s) ==
  [b \in Bet |->
     CASE b \in ToInsert(s) -> save[s].betEntities[b]
       [] b \in ToWrite(s) \ ToInsert(s) ->
            UpdatedBet(save[s].betEntities[b], save[s].betsFound[b], betRows[b])
       [] OTHER -> betRows[b]]

\* One transaction.  The answer to its commit may be lost.
WriteBets(s) ==
  /\ save[s].phase = "writeBets"
  /\ \A b \in ToInsert(s) : betRows[b] = NoRow
  /\ betRows' = WrittenBets(s)
  /\ \/ save' = [save EXCEPT ![s] = Ended("saved")]
     \/ SavesMayFail /\ save' = [save EXCEPT ![s] = Ended("rejected")]
  /\ UNCHANGED <<memory, roundRow, overlapped>>

\* Somebody has inserted one of the rows meanwhile: nothing is written.
DuplicateBet(s) ==
  /\ save[s].phase = "writeBets"
  /\ \E b \in ToInsert(s) : betRows[b] # NoRow
  /\ save' = [save EXCEPT ![s] = Ended("rejected")]
  /\ UNCHANGED <<memory, tables, overlapped>>

SaveFails(s) ==
  /\ SavesMayFail
  /\ Active(s)
  /\ save' = [save EXCEPT ![s] = Ended("rejected")]
  /\ UNCHANGED <<memory, tables, overlapped>>

-----------------------------------------------------------------------------
(* The callers, as far as they change the round and save it *)

\* initializeNewRound: requests see the round before its first save is over
CreateRound ==
  /\ alive
  /\ round = NoRound
  /\ round' = RoundCreate
  /\ BeginSave(InitSave)
  /\ UNCHANGED <<alive, bets, tables>>

PlaceBet(b) ==
  /\ alive
  /\ RoundCanPlaceBet(round, bets, b)
  /\ bets' = RoundPlaceBet(bets, 1, b)
  /\ UNCHANGED round
  /\ BeginSave(<<"place", b>>)
  /\ UNCHANGED <<alive, tables>>

\* the betting timer, armed when the first save is over
StartRound ==
  /\ alive
  /\ save[InitSave].phase = "saved"
  /\ RoundCanSetCrashPoint(round)
  /\ \E m \in CrashMultiplier :
       /\ round' = RoundStart(RoundSetCrashPoint(round, m, 1))
       /\ bets' = RoundSetBetCrashPoints(bets, 1, m)
  /\ BeginSave(RunSave)
  /\ UNCHANGED <<alive, tables>>

\* the multiplier loop, started when the round is saved as running; the tick
\* that crashes the round saves it
Tick ==
  LET m == round.multiplier + 1
  IN  /\ alive
      /\ save[RunSave].phase = "saved"
      /\ RoundCanUpdateMultiplier(round, m)
      /\ round' = RoundUpdateMultiplier(round, m)
      /\ bets' = RoundUpdateBets(round, bets, 1, m)
      /\ IF round'.state = "CRASHED"
           THEN BeginSave(CrashSave) ELSE UNCHANGED <<save, overlapped>>
      /\ UNCHANGED <<alive, tables>>

CashOut(b, m) ==
  /\ alive
  /\ RoundCanCashOut(round, bets, 1, b, m)
  /\ bets' = RoundCashOut(bets, b, m)
  /\ UNCHANGED round
  /\ BeginSave(<<"cash", b>>)
  /\ UNCHANGED <<alive, tables>>

\* the database stays as it is, and nobody comes back to the round
Crash ==
  /\ ProcessMayCrash
  /\ alive
  /\ alive' = FALSE
  /\ save' = [s \in Saver |-> NoSave]
  /\ UNCHANGED <<round, bets, tables, overlapped>>

-----------------------------------------------------------------------------
SaveStep(s) ==
  \/ SelectRound(s) \/ InsertRound(s) \/ UpdateRound(s)
  \/ MapBets(s) \/ SelectBets(s) \/ WriteBets(s) \/ DuplicateBet(s) \/ SaveFails(s)

Next ==
  \/ CreateRound \/ StartRound \/ Tick \/ Crash
  \/ \E b \in Bet : PlaceBet(b) \/ \E m \in One .. MaxCrash : CashOut(b, m)
  \/ \E s \in Saver : SaveStep(s)

Spec == Init /\ [][Next]_vars
=============================================================================
