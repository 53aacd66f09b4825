---------------------------- MODULE RoundContract ----------------------------
(***************************************************************************)
(* What the Games service promises about a round and its bets, without the *)
(* service: "BETTING --startRound()--> RUNNING --crash()--> CRASHED" with  *)
(* no way back, a bet enters a round that is taking bets, is cashed out    *)
(* only while that round runs, and loses exactly when that round crashes.  *)
(* RoundLifecycle is shown to implement this.                              *)
(***************************************************************************)
CONSTANTS RoundId, Bet

VARIABLES
  phase,    \* phase[r]: where round r is
  outcome   \* outcome[b]: the state of bet b and the round it belongs to

contractVars == <<phase, outcome>>

ContractInit ==
  /\ phase = [r \in RoundId |-> "NONE"]
  /\ outcome = [b \in Bet |-> [state |-> "ABSENT", round |-> 0]]

PendingOf(r) == {b \in Bet : outcome[b] = [state |-> "PENDING", round |-> r]}

Open(r) ==
  /\ phase[r] = "NONE"
  /\ phase' = [phase EXCEPT ![r] = "BETTING"]
  /\ UNCHANGED outcome

Enter(b, r) ==
  /\ phase[r] = "BETTING"
  /\ outcome[b].state = "ABSENT"
  /\ outcome' = [outcome EXCEPT ![b] = [state |-> "PENDING", round |-> r]]
  /\ UNCHANGED phase

Run(r) ==
  /\ phase[r] = "BETTING"
  /\ phase' = [phase EXCEPT ![r] = "RUNNING"]
  /\ UNCHANGED outcome

Win(b, r) ==
  /\ phase[r] = "RUNNING"
  /\ b \in PendingOf(r)
  /\ outcome' = [outcome EXCEPT ![b] = [state |-> "CASHED_OUT", round |-> r]]
  /\ UNCHANGED phase

\* Every bet still pending loses in the same step.
End(r) ==
  /\ phase[r] = "RUNNING"
  /\ phase' = [phase EXCEPT ![r] = "CRASHED"]
  /\ outcome' = [b \in Bet |-> IF b \in PendingOf(r)
                                 THEN [state |-> "LOST", round |-> r]
                                 ELSE outcome[b]]

ContractNext ==
  \E r \in RoundId :
    \/ Open(r) \/ Run(r) \/ End(r)
    \/ \E b \in Bet : Enter(b, r) \/ Win(b, r)

ContractSpec == ContractInit /\ [][ContractNext]_contractVars
=============================================================================
