------------------------------ MODULE BenchPlan ------------------------------
(***************************************************************************)
(* What a websocket benchmark session promises its caller, without the     *)
(* shells, flags and remote processes that deliver it: the scenarios are   *)
(* handled one after the other, each exactly once, and as long as no agent *)
(* has reported an error and no ssh or scp call has failed, the result     *)
(* kept for a scenario is the complete result of that scenario's own run.  *)
(* From then on nothing is promised about the scenario at hand and the     *)
(* later ones.                                                             *)
(***************************************************************************)
EXTENDS Naturals

CONSTANT NScenarios      \* number of (type, name, codec) combinations

VARIABLES outcome,       \* what is known of each scenario
          broken         \* an agent reported an error, or a call failed

planVars == <<outcome, broken>>

Scenarios == 1..NScenarios

PlanInit ==
  /\ outcome = [k \in Scenarios |-> "pending"]
  /\ broken = FALSE

\* The next scenario of the nested loops is handled, which may itself fail.
Handle(k) ==
  /\ outcome[k] = "pending"
  /\ \A j \in 1..(k-1) : outcome[j] # "pending"
  /\ broken' \in {broken, TRUE}
  /\ \E o \in (IF broken' THEN {"measured", "doubtful"} ELSE {"measured"}) :
        outcome' = [outcome EXCEPT ![k] = o]

\* An agent reports an error, or a call fails.
Break == ~broken /\ broken' = TRUE /\ UNCHANGED outcome

PlanNext == Break \/ \E k \in Scenarios : Handle(k)

PlanSafe == PlanInit /\ [][PlanNext]_planVars

PlanSpec == PlanSafe /\ WF_planVars(\E k \in Scenarios : Handle(k))

=============================================================================
