------------------------ MODULE RoundRepositoryProps ------------------------
(* What the rows of a round tell about the round. *)
EXTENDS RoundRepository

TypeOK ==
  /\ alive \in BOOLEAN /\ overlapped \in BOOLEAN
  /\ round \in RoundRecord
  /\ bets \in [Bet -> BetRecord]
  /\ save \in [Saver -> SaveRecord]
  /\ roundRow \in RoundRow \cup {NoRow}
  /\ betRows \in [Bet -> BetRow \cup {NoRow}]

Rank == [NONE |-> 0, BETTING |-> 1, RUNNING |-> 2, CRASHED |-> 3]

-----------------------------------------------------------------------------
(* Safety, with any overlapping of saves, failures and crashes *)

\* A row is never ahead of its round, and a row that shows the round running
\* or crashed has the crash point of the round: a save whose crash point is
\* undefined does not erase the one another save wrote.
RoundRowIsTrue ==
  roundRow # NoRow =>
    /\ Rank[roundRow.state] <= Rank[round.state]
    /\ roundRow.state # "BETTING" => roundRow.crashPoint = round.crashPoint

\* A bet whose row is settled is settled the same way, with the same winnings:
\* the columns state and winnings never come from different saves.
BetRowsAreTrue ==
  \A b \in Bet :
    betRows[b].state \in {"CASHED_OUT", "LOST"} =>
      /\ betRows[b].state = bets[b].state
      /\ betRows[b].winnings = bets[b].winnings

\* Neither table tells what is not true of the round.
RowsAreTrue == RoundRowIsTrue /\ BetRowsAreTrue

\* Whoever was told that the bet is placed can find it in the database.
PlacedBetsHaveRows ==
  \A b \in Bet : save[<<"place", b>>].phase = "saved" => betRows[b] # NoRow

\* Nothing but overlapping saves puts the tables out of step: if every save so
\* far was alone and succeeded, the rows are the round.
SerialSavesPersist ==
  /\ alive /\ ~ overlapped
  /\ \A s \in Saver : save[s].phase \in {"idle", "saved"}
  => /\ round # NoRound => roundRow = RoundEntity(round)
     /\ betRows = BetEntities(bets)
=============================================================================
