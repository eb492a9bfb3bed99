------------------------------ MODULE Redlock ------------------------------
(***************************************************************************)
(* The lease lock of services/orchestrator/canary.py.  A Redlock object    *)
(* takes a named lock for ttl_seconds, either as a key of the Redis server *)
(* (SET NX EX, with the object's token as the value) or, in a process      *)
(* where NEXORA_REDIS_URL is not set, as an entry of that process's        *)
(* _LOCAL_LOCKS dictionary, which holds a deadline and no token.           *)
(*                                                                         *)
(* Time is kept as what is left of each lease, so the model needs no clock *)
(* that grows: a deadline now + ttl is the countdown ttl, and Tick is the  *)
(* passing of one unit of it.  A client is a Redlock object, or a sequence *)
(* of them: an object that gives up, releases or dies may be followed by a *)
(* new one with a new token, and is never mistaken for it, because a       *)
(* client comes to hold the lock only when no live entry is left.          *)
(***************************************************************************)
EXTENDS Integers

CONSTANTS
  Client,      \* the lock objects
  Process,     \* the operating-system processes they live in
  ProcessOf,   \* the process of each client
  Name,        \* lock names, one per host: nexora:lock:<host>
  Server,      \* the Redis server, as a place where entries are kept
  NoOne,       \* the owner of an entry that was never set
  TTL          \* ttl_seconds, in units of Tick

ASSUME RedlockAssumption ==
  /\ TTL \in Nat \ {0}
  /\ ProcessOf \in [Client -> Process]
  /\ Server \notin Process
  /\ NoOne \notin Client

VARIABLES
  redis,     \* is NEXORA_REDIS_URL set (read once, the same in every process)
  store,     \* the entry under each key: its owner and what is left of it
  pc,        \* where the caller of each client is
  name,      \* lock_name of each client
  lease,     \* what is left of the lease each client took itself
  outlived   \* history: the keys of which some holder outlived its own lease

vars == <<redis, store, pc, name, lease, outlived>>

----------------------------------------------------------------------------
Key == (Process \cup {Server}) \X Name

ASSUME NoOneIsNoKey == NoOne \notin Key

(* Where client i keeps an entry for the name n: Redis is shared by all    *)
(* processes, a _LOCAL_LOCKS dictionary by the clients of one process.     *)
KeyFor(i, n) == <<IF redis THEN Server ELSE ProcessOf[i], n>>

KeyOf(i) == KeyFor(i, name[i])

Entry == [owner : Client \cup {NoOne}, left : 0..TTL]

Free == [owner |-> NoOne, left |-> 0]

(* Mutant of Live: a lease taken for expired one unit early.               *)
LiveOffByOne(k) == store[k].left > 1

(* An entry counts while its deadline is ahead; an expired local entry     *)
(* stays in the dictionary and is overwritten, an expired Redis key is     *)
(* gone.  Both are left = 0 here.                                          *)
Live(k) == store[k].left > 0

(* The callers that believe they hold the lock: acquire() returned True    *)
(* and release() has not returned.  "checked" lies inside the release on   *)
(* Redis, between its GET and its DEL.                                     *)
InSection(i) == pc[i] \in {"held", "checked"}

TypeOK ==
  /\ redis \in BOOLEAN
  /\ store \in [Key -> Entry]
  /\ pc \in [Client -> {"idle", "refused", "held", "checked"}]
  /\ name \in [Client -> Name]
  /\ lease \in [Client -> 0..TTL]
  /\ outlived \in SUBSET Key

Init ==
  /\ redis \in BOOLEAN
  /\ store = [k \in Key |-> Free]
  /\ pc = [i \in Client |-> "idle"]
  /\ name \in [Client -> Name]
  /\ lease = [i \in Client |-> 0]
  /\ outlived = {}

----------------------------------------------------------------------------
(* Who may call acquire() for the name n: a new object, or the one that    *)
(* was refused and tries again (__aenter__).  A holder may call it again   *)
(* too.  On the local lock that returns True and changes nothing, so it is *)
(* no step here; on Redis it is one more SET NX.                           *)
MayAcquire(i, n) ==
  \/ pc[i] = "idle"
  \/ pc[i] = "refused" /\ name[i] = n
  \/ pc[i] = "held" /\ name[i] = n /\ redis

(* acquire() returns True: no entry was live, and the new one is i's.      *)
Acquire(i, n) ==
  /\ MayAcquire(i, n)
  /\ ~Live(KeyFor(i, n))
  /\ store' = [store EXCEPT ![KeyFor(i, n)] = [owner |-> i, left |-> TTL]]
  /\ pc' = [pc EXCEPT ![i] = "held"]
  /\ name' = [name EXCEPT ![i] = n]
  /\ lease' = [lease EXCEPT ![i] = TTL]
  /\ UNCHANGED <<redis, outlived>>

Leave(i) ==
  /\ pc' = [pc EXCEPT ![i] = "idle"]
  /\ lease' = [lease EXCEPT ![i] = 0]

(* acquire() raises on Redis, and yet the SET took effect: the server's    *)
(* answer is lost.  The caller leaves with the exception, and the key      *)
(* keeps everybody out until it expires.                                   *)
AcquireRaises(i, n) ==
  /\ redis
  /\ MayAcquire(i, n) /\ ~InSection(i)
  /\ ~Live(KeyFor(i, n))
  /\ store' = [store EXCEPT ![KeyFor(i, n)] = [owner |-> i, left |-> TTL]]
  /\ Leave(i)
  /\ UNCHANGED <<redis, name, outlived>>

(* acquire() returns False: somebody's entry is live, perhaps i's own (the *)
(* second acquire() of a Redis holder is refused by its own key and takes  *)
(* _held away from it, while the key stays).                               *)
Refuse(i, n) ==
  /\ MayAcquire(i, n)
  /\ Live(KeyFor(i, n))
  /\ pc' = [pc EXCEPT ![i] = "refused"]
  /\ name' = [name EXCEPT ![i] = n]
  /\ lease' = [lease EXCEPT ![i] = 0]
  /\ UNCHANGED <<redis, store, outlived>>

(* A refused caller goes away; the engine reports BLOCKED.                 *)
GiveUp(i) ==
  /\ pc[i] = "refused"
  /\ Leave(i)
  /\ UNCHANGED <<redis, store, name, outlived>>

(* Mutant of LocalRelease: no test of _local_held.                         *)
LocalReleaseUnheld(i) ==
  /\ ~redis
  /\ pc[i] \in {"held", "refused"}
  /\ store' = [store EXCEPT ![KeyOf(i)] = Free]
  /\ Leave(i)
  /\ UNCHANGED <<redis, name, outlived>>

(* release() on the local lock pops the entry of the name, whoever set it. *)
LocalRelease(i) ==
  /\ ~redis
  /\ pc[i] = "held"
  /\ store' = [store EXCEPT ![KeyOf(i)] = Free]
  /\ Leave(i)
  /\ UNCHANGED <<redis, name, outlived>>

(* release() on Redis, the GET: go on only if the value is the own token.  *)
CheckToken(i) ==
  /\ redis
  /\ pc[i] = "held"
  /\ IF Live(KeyOf(i)) /\ store[KeyOf(i)].owner = i
       THEN /\ pc' = [pc EXCEPT ![i] = "checked"]
            /\ UNCHANGED lease
       ELSE Leave(i)
  /\ UNCHANGED <<redis, store, name, outlived>>

(* release() on Redis, the DEL: it deletes whatever the key holds now.     *)
DeleteKey(i) ==
  /\ pc[i] = "checked"
  /\ store' = [store EXCEPT ![KeyOf(i)] = Free]
  /\ Leave(i)
  /\ UNCHANGED <<redis, name, outlived>>

(* release() raises: the server does not answer the GET or the DEL.  The   *)
(* caller leaves with the exception and the key stays until it expires.    *)
ReleaseRaises(i) ==
  /\ redis
  /\ InSection(i)
  /\ Leave(i)
  /\ UNCHANGED <<redis, store, name, outlived>>

(* A process dies: its lock objects are gone, and its dictionary with them *)
(* (a Redis key outlives the process that set it).                         *)
Crash(p) ==
  /\ pc' = [i \in Client |-> IF ProcessOf[i] = p THEN "idle" ELSE pc[i]]
  /\ lease' = [i \in Client |-> IF ProcessOf[i] = p THEN 0 ELSE lease[i]]
  /\ store' = [k \in Key |-> IF k[1] = p THEN Free ELSE store[k]]
  /\ UNCHANGED <<redis, name, outlived>>

(* Mutant of Aged: an entry set without its time to live.                  *)
NeverAged(e) == e

(* Mutant of Aged: an entry whose time is up goes on losing time.          *)
AgedPastZero(e) == [e EXCEPT !.left = @ - 1]

(* One unit of time passes for every entry and every lease.                *)
Aged(e) == IF e.left > 0 THEN [e EXCEPT !.left = @ - 1] ELSE e

Tick ==
  /\ store' = [k \in Key |-> Aged(store[k])]
  /\ lease' = [i \in Client |-> IF lease[i] > 0 THEN lease[i] - 1 ELSE 0]
  /\ outlived' =
       outlived \cup {k \in Key : \E i \in Client :
                        InSection(i) /\ KeyOf(i) = k /\ lease[i] \leq 1}
  /\ UNCHANGED <<redis, pc, name>>

Next ==
  \/ \E i \in Client, n \in Name : Acquire(i, n) \/ AcquireRaises(i, n) \/ Refuse(i, n)
  \/ \E i \in Client : \/ GiveUp(i)
                       \/ LocalRelease(i)
                       \/ CheckToken(i)
                       \/ DeleteKey(i)
                       \/ ReleaseRaises(i)
  \/ \E p \in Process : Crash(p)
  \/ Tick

Spec == Init /\ [][Next]_vars

(* Time does not stop.  Nothing is assumed of the callers: a holder may    *)
(* never release.                                                          *)
FairSpec == Spec /\ WF_vars(Tick)

----------------------------------------------------------------------------
(* Two callers are never both inside the section of one key, unless some   *)
(* holder of that key stayed longer than its lease (acquire and release).  *)
MutualExclusion ==
  \A i, j \in Client :
    InSection(i) /\ InSection(j) /\ KeyOf(i) = KeyOf(j) /\ i # j
      => KeyOf(i) \in outlived

(* Under a key nobody outlived, a caller inside the section owns the entry *)
(* that keeps the others out, and the entry lasts as long as its lease.    *)
HolderIsGuarded ==
  \A i \in Client :
    InSection(i) /\ KeyOf(i) \notin outlived
      => /\ store[KeyOf(i)] = [owner |-> i, left |-> lease[i]]
         /\ lease[i] > 0

(* Under a key nobody outlived, a live entry disappears only when its time *)
(* is up, when its owner leaves the section, or when the process that      *)
(* keeps it dies: no release drops the entry of another client.            *)
DropIsByOwner ==
  \A k \in Key \ outlived :
    store[k].left > 1 /\ store'[k].left = 0
      => \/ \E i \in Client :
              store[k].owner = i /\ InSection(i) /\ pc'[i] = "idle"
         \/ \E p \in Process : Crash(p) /\ k[1] = p

EntryIsDroppedByOwner == [][DropIsByOwner]_vars

(* A lock is never taken for good: whatever becomes of its owner (it dies, *)
(* it hangs, its release raises), the entry ends or passes to another.     *)
LeaseEnds ==
  \A k \in Key, i \in Client :
    Live(k) /\ store[k].owner = i ~> ~(Live(k) /\ store[k].owner = i)

(* What the module's docstring promises (canary.py:4-5): the lock prevents *)
(* concurrent patch jobs.  Stated for callers that share the place where   *)
(* the lock is kept: one process, or one Redis server.                     *)
PreventsConcurrentJobs ==
  \A i, j \in Client :
    InSection(i) /\ InSection(j) /\ KeyOf(i) = KeyOf(j) => i = j

----------------------------------------------------------------------------
(* The record of a key is its live entry; a key some holder outlived is a  *)
(* lost one.                                                               *)
LeaseOwner == [k \in Key |-> IF Live(k) THEN store[k].owner ELSE NoOne]

LeaseInside == [i \in Client |-> IF InSection(i) THEN KeyOf(i) ELSE NoOne]

Lease ==
  INSTANCE LeaseLock WITH
    Lock    <- Key,
    Nowhere <- NoOne,
    owner   <- LeaseOwner,
    inside  <- LeaseInside,
    lost    <- outlived

(* The lock keeps the promise its callers build on: whatever the two       *)
(* backends do with tokens, deadlines and dead processes, it enters only   *)
(* where no client is on record, and a record that ends under an owner     *)
(* still inside is one that owner outlived (acquire and release).          *)
ImplementsLeaseLock == Lease!Spec
=============================================================================
