----------------------- MODULE MCRemediationLifecycle -----------------------
(***************************************************************************)
(* The lifecycle for model checking: all plans are about one host, so      *)
(* their runs meet at its lock.                                            *)
(***************************************************************************)
EXTENDS RemediationLifecycle

CONSTANT h1

MCHostOf == [p \in Plan |-> h1]
=============================================================================
