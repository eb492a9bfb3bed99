----------------------------- MODULE MCJobParts -----------------------------
(***************************************************************************)
(* The executor that runs a patch job and the ledger that keeps the record *)
(* of jobs, on small instances.  They share no state and call none of each *)
(* other's code, so that a behavior takes the steps of one of them, chosen *)
(* at its start, and the other rests.                                      *)
(***************************************************************************)
EXTENDS AuditLedger, PatchExecution, TLC

VARIABLE part

vars == <<part, ledgerVars, executionVars>>

(* Of the two only the execution starts in more than one state.            *)
Init ==
  /\ part \in {"ledger", "execution"}
  /\ LedgerInit /\ ExecutionInit
  /\ part = "ledger" => kind = [a \in Action |-> "pinned"] /\ item = [a \in Action |-> a]

Next ==
  /\ UNCHANGED part
  /\ \/ part = "ledger" /\ LedgerNext /\ UNCHANGED executionVars
     \/ part = "execution" /\ ExecutionNext /\ UNCHANGED ledgerVars

Spec == Init /\ [][Next]_vars

(* Writers and contents are interchangeable: no definition names one.      *)
Symmetry == Permutations(Writer) \cup Permutations(Content)
=============================================================================
