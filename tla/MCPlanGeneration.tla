-------------------------- MODULE MCPlanGeneration --------------------------
(***************************************************************************)
(* Plan generation for model checking: assets and plans on both sides of   *)
(* each bound of the policy and of the firewall.                           *)
(***************************************************************************)
EXTENDS PlanGeneration

CONSTANT r1

MCAsset == {[production |-> TRUE, criticality |-> 7], [production |-> FALSE, criticality |-> 8]}

One == [conforms |-> TRUE, safe |-> TRUE, named |-> TRUE, restart |-> FALSE,
        kernel |-> FALSE, known |-> 1, drifted |-> 0, other |-> 0]

MCPlan ==
  {One,
   [One EXCEPT !.restart = TRUE, !.kernel = TRUE],
   [One EXCEPT !.known = 18, !.drifted = 1],
   [One EXCEPT !.known = 18, !.drifted = 1, !.other = 1],
   [One EXCEPT !.named = FALSE, !.safe = FALSE],
   [One EXCEPT !.conforms = FALSE]}
=============================================================================
