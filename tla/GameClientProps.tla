-------------------------- MODULE GameClientProps --------------------------
(***************************************************************************)
(* What GameClient is checked for.                                         *)
(***************************************************************************)
EXTENDS GameClient

\* Nothing is under way: every event has been handled, every change announced.
Quiet == link = "up" /\ net = << >> /\ ~ announcing

\* "WebSocket synchronization - Round state, multiplier updates, and bet events
\* broadcast in real time": once all is quiet the page shows the round, its
\* state and its multiplier as the service has them, unless an answer overtaken
\* by events, or events that were lost, have set it back and nothing newer came.
QuietPageIsInSync ==
  Quiet /\ informed =>
    /\ ref = current
    /\ store.state = Lower[round.state]
    /\ store.multiplier \in {round.multiplier} \cup (IF round.multiplier = One THEN {0} ELSE {})

\* What the page shows as an outcome is the outcome.
\* A payout on the page was paid, at that multiplier; a loss is no payout that
\* came too late: once the request has ended a bet shown as lost is not cashed
\* out, whichever of the crash event and the answer came first, unless the answer
\* said nothing of the payout; and a round marked green in the crash history was
\* won, or, on a page that has reconnected and still has the rows of a round it
\* has left, an earlier one was.
ShownOutcomesAreTrue ==
  /\ position.state = "cashed_out" /\ position.betId # NoBet =>
       /\ bets[position.betId].state = "CASHED_OUT"
       /\ bets[position.betId].cashOutMultiplier = position.multiplier
  /\ position.state = "lost" /\ ~ Loading =>
       bets[position.betId].state # "CASHED_OUT" \/ position.betId \in untold
  /\ \A i \in DOMAIN store.history :
       store.history[i].type = "cashed" =>
         \E b \in Bet : /\ bets[b].state = "CASHED_OUT"
                        /\ bets[b].round <= store.history[i].round
                        /\ Len(fetch) <= 1 => bets[b].round = store.history[i].round

\* A position the quiet page shows as open in the round it shows can still be
\* cashed out: the bet is pending in the service.
ShownPositionIsOpen ==
  /\ Quiet /\ informed /\ ~ Loading
  /\ position.state = "pending" /\ bets[position.betId].round = ref
  => bets[position.betId].state = "PENDING" \/ position.betId \in untold

\* The page asks for no more than the round has reached: the service pays the
\* multiplier a request names, so a page that is not set back must not name one
\* that the round it shows has not come to.
AsksNoMoreThanReached ==
  [][ClickCashOut /\ informed =>
       ref < current \/ (ref = current /\ call'.multiplier <= round.multiplier)]_vars
=============================================================================
