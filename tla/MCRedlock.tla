----------------------------- MODULE MCRedlock -----------------------------
(***************************************************************************)
(* Three lock objects for model checking: c1 and c2 share a process and    *)
(* its dictionary, c3 lives in another process.                            *)
(***************************************************************************)
EXTENDS Redlock

CONSTANTS c1, c2, c3, p1, p2

MCProcessOf == [i \in {c1, c2, c3} |-> IF i = c3 THEN p2 ELSE p1]
=============================================================================
