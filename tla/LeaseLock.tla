----------------------------- MODULE LeaseLock -----------------------------
(***************************************************************************)
(* What the lease lock of services/orchestrator/canary.py promises to its  *)
(* callers, with no tokens, deadlines or processes.  A lock has at most    *)
(* one owner on record, and one enters only where none is.  The record may *)
(* end at any time; when it ends under an owner that has not left, the     *)
(* lock is lost, and from then on it excludes nobody.                      *)
(*                                                                         *)
(* Redlock implements this module; RemediationLifecycle is built on it.    *)
(***************************************************************************)
CONSTANTS
  Client, Lock,
  NoOne,     \* the owner of no record, not a client
  Nowhere    \* the section of a client that is in none, not a lock

VARIABLES
  owner,     \* the client on record for each lock
  inside,    \* the lock whose section each client believes it is in
  lost       \* history: the locks whose record ended under an owner inside

vars == <<owner, inside, lost>>

TypeOK ==
  /\ owner \in [Lock -> Client \cup {NoOne}]
  /\ inside \in [Client -> Lock \cup {Nowhere}]
  /\ lost \in SUBSET Lock

Init ==
  /\ owner = [k \in Lock |-> NoOne]
  /\ inside = [i \in Client |-> Nowhere]
  /\ lost = {}

(* acquire() returns True; a client that is inside already may renew.      *)
Enter(i, k) ==
  /\ owner[k] = NoOne
  /\ inside[i] \in {Nowhere, k}
  /\ owner' = [owner EXCEPT ![k] = i]
  /\ inside' = [inside EXCEPT ![i] = k]
  /\ UNCHANGED lost

(* acquire() raises and yet took effect: the lock is on record for a       *)
(* client that is not inside.                                              *)
Claim(i, k) ==
  /\ owner[k] = NoOne
  /\ inside[i] = Nowhere
  /\ owner' = [owner EXCEPT ![k] = i]
  /\ UNCHANGED <<inside, lost>>

(* The records of the locks K end under owners that are not among C.       *)
EndsUnderOwner(C, k) == \E i \in Client \ C : owner[k] = i /\ inside[i] = k

(* The clients of C leave (they release, fail to, or die) while the        *)
(* records of K end (they are deleted, expire, or die with a process).     *)
Vanish(C, K) ==
  /\ owner' = [k \in Lock |-> IF k \in K THEN NoOne ELSE owner[k]]
  /\ inside' = [i \in Client |-> IF i \in C THEN Nowhere ELSE inside[i]]
  /\ lost' = lost \cup {k \in K : EndsUnderOwner(C, k)}

Next ==
  \/ \E i \in Client, k \in Lock : Enter(i, k) \/ Claim(i, k)
  \/ \E C \in SUBSET Client, K \in SUBSET Lock : Vanish(C, K)

Spec == Init /\ [][Next]_vars

----------------------------------------------------------------------------
(* Two clients are inside one lock only after it was lost.                 *)
Exclusion ==
  \A i, j \in Client :
    inside[i] = inside[j] /\ inside[i] # Nowhere /\ i # j => inside[i] \in lost
=============================================================================
