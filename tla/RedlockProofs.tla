--------------------------- MODULE RedlockProofs ---------------------------
(***************************************************************************)
(* Proofs about Redlock for any number of clients, processes and names and *)
(* any time to live.  HolderIsGuarded is the inductive core: as long as no *)
(* holder of a key outlived its lease, each caller inside the section owns *)
(* the live entry of its key, and an entry has one owner.                  *)
(***************************************************************************)
EXTENDS Redlock, TLAPS

IInv == TypeOK /\ HolderIsGuarded

(* _key gives a key.                                                       *)
LEMMA KeyForInKey ==
  ASSUME TypeOK, NEW i \in Client, NEW n \in Name
  PROVE  KeyFor(i, n) \in Key
BY RedlockAssumption DEF KeyFor, Key, TypeOK

(* The key a client acquires is a key.                                     *)
LEMMA KeyOfInKey ==
  ASSUME TypeOK, NEW i \in Client
  PROVE  KeyOf(i) \in Key
BY KeyForInKey DEF KeyOf, TypeOK

----------------------------------------------------------------------------
(* With no entry and nobody inside, the invariant holds.                   *)
LEMMA InitIInv == Init => IInv
<1> SUFFICES ASSUME Init PROVE IInv
  OBVIOUS
<1>1. TypeOK
  BY RedlockAssumption DEF Init, TypeOK, Entry, Free
<1>2. HolderIsGuarded
  BY DEF Init, HolderIsGuarded, InSection
<1> QED BY <1>1, <1>2 DEF IInv

(* Every step of acquire, release, the clock and the stores keeps types.   *)
LEMMA NextTypeOK == TypeOK /\ [Next]_vars => TypeOK'
<1> SUFFICES ASSUME TypeOK, [Next]_vars PROVE TypeOK'
  OBVIOUS
<1> USE RedlockAssumption
<1>1. ASSUME NEW i \in Client, NEW n \in Name, Acquire(i, n)
      PROVE  TypeOK'
  <2>1. [owner |-> i, left |-> TTL] \in Entry
    BY DEF Entry
  <2>2. store' \in [Key -> Entry]
    BY <1>1, <2>1 DEF Acquire, TypeOK
  <2> QED BY <1>1, <2>2 DEF Acquire, TypeOK
<1>2. ASSUME NEW i \in Client, NEW n \in Name, Refuse(i, n)
      PROVE  TypeOK'
  BY <1>2 DEF Refuse, TypeOK
<1>3. ASSUME NEW i \in Client, GiveUp(i)
      PROVE  TypeOK'
  BY <1>3 DEF GiveUp, Leave, TypeOK
<1>4. ASSUME NEW i \in Client, LocalRelease(i) \/ DeleteKey(i)
      PROVE  TypeOK'
  <2>1. Free \in Entry
    BY DEF Free, Entry
  <2>2. store' \in [Key -> Entry]
    BY <1>4, <2>1 DEF LocalRelease, DeleteKey, TypeOK
  <2> QED BY <1>4, <2>2 DEF LocalRelease, DeleteKey, Leave, TypeOK
<1>5. ASSUME NEW i \in Client, CheckToken(i)
      PROVE  TypeOK'
  BY <1>5 DEF CheckToken, Leave, TypeOK
<1>6. ASSUME NEW i \in Client, ReleaseRaises(i)
      PROVE  TypeOK'
  BY <1>6 DEF ReleaseRaises, Leave, TypeOK
<1>7. ASSUME NEW p \in Process, Crash(p)
      PROVE  TypeOK'
  <2>1. Free \in Entry
    BY DEF Free, Entry
  <2>2. store' \in [Key -> Entry]
    BY <1>7, <2>1 DEF Crash, TypeOK
  <2> QED BY <1>7, <2>2 DEF Crash, TypeOK
<1>8. CASE Tick
  <2>1. ASSUME NEW k \in Key
        PROVE  Aged(store[k]) \in Entry
    BY DEF Aged, TypeOK, Entry
  <2>2. store' \in [Key -> Entry]
    BY <1>8, <2>1 DEF Tick
  <2>3. lease' \in [Client -> 0..TTL]
    BY <1>8 DEF Tick, TypeOK
  <2> QED BY <1>8, <2>2, <2>3 DEF Tick, TypeOK
<1>9. CASE UNCHANGED vars
  BY <1>9 DEF vars, TypeOK
<1>10. ASSUME NEW i \in Client, NEW n \in Name, AcquireRaises(i, n)
       PROVE  TypeOK'
  <2>1. [owner |-> i, left |-> TTL] \in Entry
    BY DEF Entry
  <2>2. store' \in [Key -> Entry]
    BY <1>10, <2>1 DEF AcquireRaises, TypeOK
  <2> QED BY <1>10, <2>2 DEF AcquireRaises, Leave, TypeOK
<1> QED
  BY <1>1, <1>2, <1>3, <1>4, <1>5, <1>6, <1>7, <1>8, <1>9, <1>10 DEF Next

----------------------------------------------------------------------------
(* Two callers inside the section of a key that nobody outlived would both *)
(* own its entry.                                                          *)
LEMMA GuardedIsExclusive == HolderIsGuarded => MutualExclusion
<1> SUFFICES ASSUME HolderIsGuarded,
                    NEW i \in Client, NEW j \in Client,
                    InSection(i), InSection(j), KeyOf(i) = KeyOf(j),
                    KeyOf(i) \notin outlived
             PROVE  i = j
  BY DEF MutualExclusion
<1>1. store[KeyOf(i)] = [owner |-> i, left |-> lease[i]]
  BY DEF HolderIsGuarded
<1>2. store[KeyOf(i)] = [owner |-> j, left |-> lease[j]]
  BY DEF HolderIsGuarded
<1> QED BY <1>1, <1>2

(* Every step keeps the live entry of a holder that is still in time.      *)
LEMMA NextGuarded == IInv /\ [Next]_vars => HolderIsGuarded'
<1> SUFFICES ASSUME IInv, [Next]_vars,
                    NEW j \in Client, InSection(j)', KeyOf(j)' \notin outlived'
             PROVE  /\ store'[KeyOf(j)'] = [owner |-> j, left |-> lease'[j]]
                    /\ lease'[j] > 0
  BY DEF HolderIsGuarded
<1> USE RedlockAssumption
<1>0. TypeOK /\ HolderIsGuarded /\ MutualExclusion
  BY GuardedIsExclusive DEF IInv
<1>1. ASSUME NEW i \in Client, NEW n \in Name, Acquire(i, n)
      PROVE  /\ store'[KeyOf(j)'] = [owner |-> j, left |-> lease'[j]]
             /\ lease'[j] > 0
  <2>1. KeyFor(i, n) \in Key
    BY <1>0, KeyForInKey
  <2>2. CASE j = i
    <3>1. KeyOf(j)' = KeyFor(i, n)
      BY <1>0, <1>1, <2>2 DEF Acquire, KeyOf, KeyFor, TypeOK
    <3> QED BY <1>0, <1>1, <2>1, <2>2, <3>1 DEF Acquire, TypeOK
  <2>3. CASE j # i
    <3>1. KeyOf(j)' = KeyOf(j) /\ lease'[j] = lease[j] /\ InSection(j)
      BY <1>0, <1>1, <2>3 DEF Acquire, KeyOf, KeyFor, InSection, TypeOK
    <3>2. /\ store[KeyOf(j)] = [owner |-> j, left |-> lease[j]]
          /\ lease[j] > 0
      BY <1>0, <1>1, <3>1 DEF Acquire, HolderIsGuarded
    <3>3. KeyOf(j) # KeyFor(i, n)
      BY <1>1, <3>2 DEF Acquire, Live
    <3> QED BY <1>0, <1>1, <2>1, <3>1, <3>2, <3>3 DEF Acquire, TypeOK
  <2> QED BY <2>2, <2>3
<1>2. ASSUME NEW i \in Client, NEW n \in Name, Refuse(i, n)
      PROVE  /\ store'[KeyOf(j)'] = [owner |-> j, left |-> lease'[j]]
             /\ lease'[j] > 0
  <2>1. j # i
    BY <1>0, <1>2 DEF Refuse, InSection, TypeOK
  <2> QED BY <1>0, <1>2, <2>1
          DEF Refuse, KeyOf, KeyFor, InSection, TypeOK, HolderIsGuarded
<1>3. ASSUME NEW i \in Client, GiveUp(i) \/ ReleaseRaises(i)
      PROVE  /\ store'[KeyOf(j)'] = [owner |-> j, left |-> lease'[j]]
             /\ lease'[j] > 0
  <2>1. j # i
    BY <1>0, <1>3 DEF GiveUp, ReleaseRaises, Leave, InSection, TypeOK
  <2> QED BY <1>0, <1>3, <2>1
          DEF GiveUp, ReleaseRaises, Leave, KeyOf, KeyFor, InSection, TypeOK,
              HolderIsGuarded
<1>4. ASSUME NEW i \in Client, LocalRelease(i) \/ DeleteKey(i)
      PROVE  /\ store'[KeyOf(j)'] = [owner |-> j, left |-> lease'[j]]
             /\ lease'[j] > 0
  <2>1. /\ j # i
        /\ KeyOf(j)' = KeyOf(j) /\ lease'[j] = lease[j]
        /\ InSection(j) /\ InSection(i)
        /\ outlived' = outlived
    BY <1>0, <1>4
    DEF LocalRelease, DeleteKey, Leave, KeyOf, KeyFor, InSection, TypeOK
  <2>2. KeyOf(j) # KeyOf(i)
    BY <1>0, <2>1 DEF MutualExclusion
  <2>3. store' = [store EXCEPT ![KeyOf(i)] = Free]
    BY <1>4 DEF LocalRelease, DeleteKey
  <2> QED BY <1>0, <2>1, <2>2, <2>3, KeyOfInKey DEF HolderIsGuarded, TypeOK
<1>5. ASSUME NEW i \in Client, CheckToken(i)
      PROVE  /\ store'[KeyOf(j)'] = [owner |-> j, left |-> lease'[j]]
             /\ lease'[j] > 0
  <2>1. /\ KeyOf(j)' = KeyOf(j) /\ lease'[j] = lease[j]
        /\ InSection(j) /\ store' = store /\ outlived' = outlived
    BY <1>0, <1>5 DEF CheckToken, Leave, KeyOf, KeyFor, InSection, TypeOK
  <2> QED BY <1>0, <2>1 DEF HolderIsGuarded
<1>6. ASSUME NEW p \in Process, Crash(p)
      PROVE  /\ store'[KeyOf(j)'] = [owner |-> j, left |-> lease'[j]]
             /\ lease'[j] > 0
  <2>1. /\ ProcessOf[j] # p
        /\ KeyOf(j)' = KeyOf(j) /\ lease'[j] = lease[j]
        /\ InSection(j) /\ outlived' = outlived
    BY <1>0, <1>6 DEF Crash, KeyOf, KeyFor, InSection, TypeOK
  <2>2. KeyOf(j)[1] # p
    BY <2>1 DEF KeyOf, KeyFor
  <2>3. store'[KeyOf(j)] = store[KeyOf(j)]
    BY <1>0, <1>6, <2>2, KeyOfInKey DEF Crash
  <2> QED BY <1>0, <2>1, <2>3 DEF HolderIsGuarded
<1>7. CASE Tick
  <2>1. /\ KeyOf(j)' = KeyOf(j) /\ InSection(j) /\ KeyOf(j) \in Key
    BY <1>0, <1>7, KeyOfInKey DEF Tick, KeyOf, KeyFor, InSection
  <2>2. KeyOf(j) \notin outlived /\ ~(lease[j] \leq 1)
    BY <1>7, <2>1 DEF Tick
  <2>3. store[KeyOf(j)] = [owner |-> j, left |-> lease[j]]
    BY <1>0, <2>1, <2>2 DEF HolderIsGuarded
  <2>4. lease[j] \in Nat /\ lease[j] > 1
    BY <1>0, <2>2 DEF TypeOK
  <2>5. lease'[j] = lease[j] - 1
    BY <1>7, <2>4 DEF Tick
  <2>6. store'[KeyOf(j)] = [owner |-> j, left |-> lease[j] - 1]
    BY <1>7, <2>1, <2>3, <2>4 DEF Tick, Aged
  <2> QED BY <2>1, <2>4, <2>5, <2>6
<1>8. CASE UNCHANGED vars
  BY <1>0, <1>8 DEF vars, HolderIsGuarded, KeyOf, KeyFor, InSection
<1>9. ASSUME NEW i \in Client, NEW n \in Name, AcquireRaises(i, n)
      PROVE  /\ store'[KeyOf(j)'] = [owner |-> j, left |-> lease'[j]]
             /\ lease'[j] > 0
  <2>1. j # i
    BY <1>0, <1>9 DEF AcquireRaises, Leave, InSection, TypeOK
  <2>2. /\ KeyOf(j)' = KeyOf(j) /\ lease'[j] = lease[j] /\ InSection(j)
        /\ outlived' = outlived
    BY <1>0, <1>9, <2>1 DEF AcquireRaises, Leave, KeyOf, KeyFor, InSection, TypeOK
  <2>3. /\ store[KeyOf(j)] = [owner |-> j, left |-> lease[j]]
        /\ lease[j] > 0
    BY <1>0, <2>2 DEF HolderIsGuarded
  <2>4. store'[KeyOf(j)] = store[KeyOf(j)]
    <3>1. KeyOf(j) # KeyFor(i, n) /\ KeyOf(j) \in Key
      BY <1>0, <1>9, <2>3, KeyOfInKey DEF AcquireRaises, Live
    <3> QED BY <1>0, <1>9, <3>1 DEF AcquireRaises, TypeOK
  <2> QED BY <2>2, <2>3, <2>4
<1> QED
  BY <1>1, <1>2, <1>3, <1>4, <1>5, <1>6, <1>7, <1>8, <1>9 DEF Next

(* Every step keeps the inductive invariant.                               *)
LEMMA NextIInv == IInv /\ [Next]_vars => IInv'
BY NextTypeOK, NextGuarded DEF IInv

----------------------------------------------------------------------------
(* Every variable keeps its type (Redlock in canary.py).                   *)
THEOREM TypeCorrect == Spec => []TypeOK
<1>1. Init => TypeOK
  BY InitIInv DEF IInv
<1> QED BY <1>1, NextTypeOK, PTL DEF Spec

(* A caller inside the section of a key nobody outlived owns the entry     *)
(* that keeps the others out, for every TTL and number of clients.         *)
THEOREM HoldersAreGuarded == Spec => []HolderIsGuarded
<1>1. IInv => HolderIsGuarded
  BY DEF IInv
<1> QED BY <1>1, InitIInv, NextIInv, PTL DEF Spec

(* The lock excludes: two callers share the section of a key only after    *)
(* some holder of that key stayed longer than its lease.                   *)
THEOREM LockExcludes == Spec => []MutualExclusion
<1>1. IInv => MutualExclusion
  BY GuardedIsExclusive DEF IInv
<1> QED BY <1>1, InitIInv, NextIInv, PTL DEF Spec

(* No step removes the live entry of another client.                       *)
LEMMA NextDropIsByOwner == IInv /\ [Next]_vars => DropIsByOwner
<1> SUFFICES ASSUME IInv, [Next]_vars,
                    NEW k \in Key, k \notin outlived,
                    store[k].left > 1, store'[k].left = 0
             PROVE  \/ \E i \in Client :
                         store[k].owner = i /\ InSection(i) /\ pc'[i] = "idle"
                    \/ \E p \in Process : Crash(p) /\ k[1] = p
  BY DEF DropIsByOwner
<1> USE RedlockAssumption
<1>0. /\ TypeOK /\ HolderIsGuarded
      /\ store[k].left \in Nat
  BY DEF IInv, TypeOK, Entry
<1>1. ASSUME NEW i \in Client, NEW n \in Name, Acquire(i, n) \/ AcquireRaises(i, n)
      PROVE  FALSE
  <2>1. k # KeyFor(i, n)
    BY <1>0, <1>1 DEF Acquire, AcquireRaises, Live
  <2>2. store'[k] = store[k]
    BY <1>0, <1>1, <2>1 DEF Acquire, AcquireRaises, TypeOK
  <2> QED BY <1>0, <2>2
<1>2. ASSUME NEW i \in Client, LocalRelease(i) \/ DeleteKey(i)
      PROVE  store[k].owner = i /\ InSection(i) /\ pc'[i] = "idle"
  <2>1. InSection(i) /\ pc'[i] = "idle"
    BY <1>0, <1>2 DEF LocalRelease, DeleteKey, Leave, InSection, TypeOK
  <2>2. store' = [store EXCEPT ![KeyOf(i)] = Free]
    BY <1>2 DEF LocalRelease, DeleteKey
  <2>3. k = KeyOf(i)
    <3> SUFFICES ASSUME k # KeyOf(i) PROVE FALSE
      OBVIOUS
    <3>1. store'[k] = store[k]
      BY <1>0, <2>2 DEF TypeOK
    <3> QED BY <1>0, <3>1
  <2>4. store[k] = [owner |-> i, left |-> lease[i]]
    BY <1>0, <2>1, <2>3 DEF HolderIsGuarded
  <2> QED BY <2>1, <2>4
<1>3. ASSUME NEW p \in Process, Crash(p)
      PROVE  k[1] = p
  <2> SUFFICES ASSUME k[1] # p PROVE FALSE
    OBVIOUS
  <2>1. store'[k] = store[k]
    BY <1>3 DEF Crash
  <2> QED BY <1>0, <2>1
<1>4. CASE Tick
  <2>1. store'[k] = Aged(store[k])
    BY <1>4 DEF Tick
  <2>2. store[k].left > 0
    BY <1>0
  <2>3. store[k] \in Entry
    BY <1>0 DEF TypeOK
  <2>4. Aged(store[k]).left = store[k].left - 1
    BY <2>2, <2>3 DEF Aged, Entry
  <2> QED BY <1>0, <2>1, <2>4
<1>5. CASE store' = store
  BY <1>0, <1>5
<1> QED
  <2>1. ASSUME NEW i \in Client, NEW n \in Name, Refuse(i, n)
        PROVE  store' = store
    BY <2>1 DEF Refuse
  <2>2. ASSUME NEW i \in Client, GiveUp(i) \/ CheckToken(i) \/ ReleaseRaises(i)
        PROVE  store' = store
    BY <2>2 DEF GiveUp, CheckToken, ReleaseRaises
  <2>3. CASE UNCHANGED vars
    BY <1>5, <2>3 DEF vars
  <2> QED BY <1>1, <1>2, <1>3, <1>4, <1>5, <2>1, <2>2, <2>3 DEF Next

(* A release, a refusal or a new acquire never removes the live entry of   *)
(* another client under a key nobody outlived.                             *)
THEOREM EntriesAreDroppedByOwners == Spec => EntryIsDroppedByOwner
<1>1. IInv /\ [Next]_vars => [DropIsByOwner]_vars
  BY NextDropIsByOwner
<1> QED BY <1>1, InitIInv, NextIInv, PTL DEF Spec, EntryIsDroppedByOwner

----------------------------------------------------------------------------
(* No step prolongs the entry an owner has under a key, not even an        *)
(* acquire() of that owner, and each Tick shortens it: what LeaseEnds      *)
(* rests on beside the fairness of Tick.                                   *)
StillOwned(k) == Live(k) /\ Live(k)' /\ store'[k].owner = store[k].owner

EntriesRunOnlyDown ==
  \A k \in Key :
    StillOwned(k) =>
      IF Tick THEN store'[k].left = store[k].left - 1
              ELSE store'[k] = store[k]

(* The entry under a key passes to another client only where none is live: *)
(* between the entries of two owners the key is free.                      *)
ChangesHandsFree ==
  \A k \in Key :
    Live(k) /\ Live(k)' => store'[k].owner = store[k].owner

(* A clock step shortens every live entry by one unit, whoever owns it.    *)
LEMMA TickShortens ==
  ASSUME TypeOK, Tick, NEW k \in Key, Live(k)
  PROVE  store'[k] = [store[k] EXCEPT !.left = store[k].left - 1]
BY DEF TypeOK, Tick, Aged, Live

(* A step that is not a clock step keeps a live entry or frees its key.    *)
LEMMA KeptOrFreed ==
  ASSUME TypeOK, [Next]_vars, ~Tick, NEW k \in Key, Live(k)
  PROVE  store'[k] = store[k] \/ ~Live(k)'
<1>1. ASSUME NEW i \in Client, NEW n \in Name, Acquire(i, n) \/ AcquireRaises(i, n)
      PROVE  store'[k] = store[k]
  <2>1. k # KeyFor(i, n)
    BY <1>1 DEF Acquire, AcquireRaises
  <2> QED BY <1>1, <2>1 DEF Acquire, AcquireRaises, TypeOK
<1>2. ASSUME NEW i \in Client, LocalRelease(i) \/ DeleteKey(i)
      PROVE  store'[k] = store[k] \/ store'[k] = Free
  BY <1>2 DEF LocalRelease, DeleteKey, TypeOK
<1>3. ASSUME NEW p \in Process, Crash(p)
      PROVE  store'[k] = store[k] \/ store'[k] = Free
  BY <1>3 DEF Crash
<1>4. ASSUME NEW i \in Client, NEW n \in Name, Refuse(i, n)
      PROVE  store' = store
  BY <1>4 DEF Refuse
<1>5. ASSUME NEW i \in Client, GiveUp(i) \/ CheckToken(i) \/ ReleaseRaises(i)
      PROVE  store' = store
  BY <1>5 DEF GiveUp, CheckToken, ReleaseRaises
<1>6. ASSUME UNCHANGED vars
      PROVE  store' = store
  BY <1>6 DEF vars
<1>7. store'[k] = store[k] \/ store'[k] = Free
  BY <1>1, <1>2, <1>3, <1>4, <1>5, <1>6 DEF Next
<1> QED BY <1>7 DEF Free, Live

(* A lease is never longer than it was, whatever its owner, the other      *)
(* callers and the processes do, and a key is free between two owners.     *)
THEOREM LeasesRunDown ==
  Spec => [][EntriesRunOnlyDown /\ ChangesHandsFree]_vars
<1>1. TypeOK /\ [Next]_vars => EntriesRunOnlyDown /\ ChangesHandsFree
  <2> SUFFICES ASSUME TypeOK, [Next]_vars, NEW k \in Key, Live(k), Live(k)'
               PROVE  /\ store'[k].owner = store[k].owner
                      /\ IF Tick THEN store'[k].left = store[k].left - 1
                                 ELSE store'[k] = store[k]
    BY DEF EntriesRunOnlyDown, ChangesHandsFree, StillOwned
  <2>1. store[k] \in Entry
    BY DEF TypeOK
  <2>2. CASE Tick
    BY <2>1, <2>2, TickShortens DEF Entry
  <2>3. CASE ~Tick
    BY <2>3, KeptOrFreed
  <2> QED BY <2>2, <2>3
<1>2. TypeOK /\ [Next]_vars => [EntriesRunOnlyDown /\ ChangesHandsFree]_vars
  BY <1>1
<1> QED BY <1>2, TypeCorrect, PTL DEF Spec

----------------------------------------------------------------------------
(* Clients that leave and records that end are a step of LeaseLock, if the *)
(* keys whose record ends under an owner inside are those that get lost.   *)
LEMMA VanishStep ==
  ASSUME NEW C \in SUBSET Client, NEW K \in SUBSET Key,
         \A k \in Key : LeaseOwner'[k] = IF k \in K THEN NoOne ELSE LeaseOwner[k],
         \A i \in Client :
           LeaseInside'[i] = IF i \in C THEN NoOne ELSE LeaseInside[i],
         outlived' = outlived \cup
           {k \in K : \E i \in Client \ C : LeaseOwner[k] = i /\ LeaseInside[i] = k}
  PROVE  Lease!Next
<1>1. LeaseOwner' = [k \in Key |-> IF k \in K THEN NoOne ELSE LeaseOwner[k]]
  <2>1. LeaseOwner' = [k \in Key |-> LeaseOwner'[k]]
    BY DEF LeaseOwner
  <2> QED BY <2>1
<1>2. LeaseInside' = [i \in Client |-> IF i \in C THEN NoOne ELSE LeaseInside[i]]
  <2>1. LeaseInside' = [i \in Client |-> LeaseInside'[i]]
    BY DEF LeaseInside
  <2> QED BY <2>1
<1>3. Lease!Vanish(C, K)
  BY <1>1, <1>2 DEF Lease!Vanish, Lease!EndsUnderOwner
<1> QED BY <1>3 DEF Lease!Next

(* What the refinement sees of a step that leaves a client or a key alone. *)
LEMMA SeenOfClient ==
  ASSUME NEW j \in Client, pc'[j] = pc[j], name'[j] = name[j], redis' = redis
  PROVE  LeaseInside'[j] = LeaseInside[j]
BY DEF LeaseInside, InSection, KeyOf, KeyFor

(* What the abstract lock sees of a key after a step.                      *)
LEMMA SeenOfKey ==
  ASSUME NEW k \in Key, store'[k] = store[k]
  PROVE  LeaseOwner'[k] = LeaseOwner[k]
BY DEF LeaseOwner, Live

(* Every step of the lock is one of LeaseLock, or invisible to it.         *)
LEMMA NextRefines == IInv /\ [Next]_vars => [Lease!Next]_Lease!vars
<1> SUFFICES ASSUME IInv, [Next]_vars
             PROVE  Lease!Next \/ UNCHANGED <<LeaseOwner, LeaseInside, outlived>>
  BY DEF Lease!vars
<1> USE RedlockAssumption
<1>0. TypeOK /\ HolderIsGuarded
  BY DEF IInv
<1>1. ASSUME NEW i \in Client, NEW n \in Name, Acquire(i, n)
      PROVE  Lease!Next
  <2> DEFINE k == KeyFor(i, n)
  <2>1. k \in Key
    BY <1>0, KeyForInKey
  <2>2. LeaseOwner[k] = NoOne
    BY <1>1, <2>1 DEF Acquire, LeaseOwner
  <2>3. LeaseInside[i] \in {NoOne, k}
    BY <1>1 DEF Acquire, MayAcquire, LeaseInside, InSection, KeyOf
  <2>4. store'[k].owner = i /\ store'[k].left = TTL
    BY <1>0, <1>1, <2>1 DEF Acquire, TypeOK
  <2>5. LeaseOwner'[k] = i
    BY <2>1, <2>4 DEF LeaseOwner, Live
  <2>6. ASSUME NEW l \in Key, l # k
        PROVE  LeaseOwner'[l] = LeaseOwner[l]
    <3>1. store'[l] = store[l]
      BY <1>0, <1>1, <2>6 DEF Acquire, TypeOK
    <3> QED BY <3>1, SeenOfKey
  <2>7. LeaseInside'[i] = k
    BY <1>0, <1>1 DEF Acquire, LeaseInside, InSection, KeyOf, KeyFor, TypeOK
  <2>8. ASSUME NEW j \in Client, j # i
        PROVE  LeaseInside'[j] = LeaseInside[j]
    <3>1. pc'[j] = pc[j] /\ name'[j] = name[j] /\ redis' = redis
      BY <1>0, <1>1, <2>8 DEF Acquire, TypeOK
    <3> QED BY <3>1, SeenOfClient
  <2>9. LeaseOwner' = [LeaseOwner EXCEPT ![k] = i]
    <3>1. LeaseOwner' = [l \in Key |-> LeaseOwner'[l]] /\ DOMAIN LeaseOwner = Key
      BY DEF LeaseOwner
    <3> HIDE DEF k
    <3> QED BY <2>5, <2>6, <3>1
  <2>10. LeaseInside' = [LeaseInside EXCEPT ![i] = k]
    <3>1. LeaseInside' = [j \in Client |-> LeaseInside'[j]] /\ DOMAIN LeaseInside = Client
      BY DEF LeaseInside
    <3> HIDE DEF k
    <3> QED BY <2>7, <2>8, <3>1
  <2>11. outlived' = outlived
    BY <1>1 DEF Acquire
  <2> HIDE DEF k
  <2>12. Lease!Enter(i, k)
    BY <2>2, <2>3, <2>9, <2>10, <2>11 DEF Lease!Enter
  <2> QED BY <2>1, <2>12 DEF Lease!Next
<1>2. ASSUME NEW i \in Client,
             pc'[i] \in {"idle", "refused"},
             \A j \in Client \ {i} : pc'[j] = pc[j] /\ name'[j] = name[j],
             redis' = redis, store' = store, outlived' = outlived
      PROVE  Lease!Next
  <2>1. \A k \in Key : LeaseOwner'[k] = LeaseOwner[k]
    BY <1>2, SeenOfKey
  <2>2. LeaseInside'[i] = NoOne
    BY <1>2 DEF LeaseInside, InSection
  <2>3. \A j \in Client \ {i} : LeaseInside'[j] = LeaseInside[j]
    BY <1>2, SeenOfClient
  <2> DEFINE C == {i}
             K == {}
  <2>4. \A k \in Key : LeaseOwner'[k] = IF k \in K THEN NoOne ELSE LeaseOwner[k]
    BY <2>1
  <2>5. \A j \in Client : LeaseInside'[j] = IF j \in C THEN NoOne ELSE LeaseInside[j]
    BY <2>2, <2>3
  <2>6. outlived' = outlived \cup
          {k \in K : \E j \in Client \ C : LeaseOwner[k] = j /\ LeaseInside[j] = k}
    BY <1>2
  <2>7. C \in SUBSET Client /\ K \in SUBSET Key
    OBVIOUS
  <2> HIDE DEF C, K
  <2> QED BY <2>4, <2>5, <2>6, <2>7, VanishStep
<1>3. ASSUME NEW i \in Client, NEW n \in Name, Refuse(i, n)
      PROVE  Lease!Next
  <2>1. /\ pc'[i] = "refused"
        /\ \A j \in Client \ {i} : pc'[j] = pc[j] /\ name'[j] = name[j]
        /\ redis' = redis /\ store' = store /\ outlived' = outlived
    BY <1>0, <1>3 DEF Refuse, TypeOK
  <2> QED BY <1>2, <2>1
<1>4. ASSUME NEW i \in Client, GiveUp(i) \/ ReleaseRaises(i)
      PROVE  Lease!Next
  <2>1. /\ pc'[i] = "idle"
        /\ \A j \in Client \ {i} : pc'[j] = pc[j] /\ name'[j] = name[j]
        /\ redis' = redis /\ store' = store /\ outlived' = outlived
    BY <1>0, <1>4 DEF GiveUp, ReleaseRaises, Leave, TypeOK
  <2> QED BY <1>2, <2>1
<1>5. ASSUME NEW i \in Client, CheckToken(i)
      PROVE  Lease!Next \/ UNCHANGED <<LeaseOwner, LeaseInside, outlived>>
  <2>1. CASE pc'[i] = "checked"
    <3>1. \A j \in Client : LeaseInside'[j] = LeaseInside[j]
      BY <1>0, <1>5, <2>1 DEF CheckToken, Leave, TypeOK, LeaseInside, InSection, KeyOf, KeyFor
    <3>2. LeaseInside' = LeaseInside
      BY <3>1 DEF LeaseInside
    <3>3. LeaseOwner' = LeaseOwner /\ outlived' = outlived
      BY <1>5 DEF CheckToken, LeaseOwner, Live
    <3> QED BY <3>2, <3>3
  <2>2. CASE pc'[i] # "checked"
    <3>1. /\ pc'[i] = "idle"
          /\ \A j \in Client \ {i} : pc'[j] = pc[j] /\ name'[j] = name[j]
          /\ redis' = redis /\ store' = store /\ outlived' = outlived
      BY <1>0, <1>5, <2>2 DEF CheckToken, Leave, TypeOK
    <3> QED BY <1>2, <3>1
  <2> QED BY <2>1, <2>2
<1>6. ASSUME NEW i \in Client, LocalRelease(i) \/ DeleteKey(i)
      PROVE  Lease!Next
  <2> DEFINE k == KeyOf(i)
  <2>1. /\ k \in Key
        /\ InSection(i)
        /\ store' = [store EXCEPT ![k] = Free]
        /\ pc'[i] = "idle"
        /\ redis' = redis /\ outlived' = outlived
        /\ \A j \in Client \ {i} : pc'[j] = pc[j] /\ name'[j] = name[j]
    BY <1>0, <1>6, KeyOfInKey DEF LocalRelease, DeleteKey, Leave, TypeOK, InSection
  <2>2. k \in outlived \/ ~ \E j \in Client \ {i} : LeaseOwner[k] = j
    <3> SUFFICES ASSUME k \notin outlived PROVE LeaseOwner[k] = i
      OBVIOUS
    <3>1. store[k] = [owner |-> i, left |-> lease[i]] /\ lease[i] > 0
      BY <1>0, <2>1 DEF HolderIsGuarded
    <3> QED BY <2>1, <3>1 DEF LeaseOwner, Live
  <2> HIDE DEF k
  <2> DEFINE C == {i}
             K == {k}
  <2>3. \A l \in Key : LeaseOwner'[l] = IF l \in K THEN NoOne ELSE LeaseOwner[l]
    <3>1. LeaseOwner'[k] = NoOne
      BY <1>0, <2>1 DEF LeaseOwner, Live, Free, TypeOK
    <3>2. ASSUME NEW l \in Key, l # k
          PROVE  LeaseOwner'[l] = LeaseOwner[l]
      <4>1. store'[l] = store[l]
        BY <1>0, <2>1, <3>2 DEF TypeOK
      <4> QED BY <4>1, SeenOfKey
    <3> QED BY <3>1, <3>2
  <2>4. \A j \in Client : LeaseInside'[j] = IF j \in C THEN NoOne ELSE LeaseInside[j]
    <3>1. LeaseInside'[i] = NoOne
      BY <2>1 DEF LeaseInside, InSection
    <3>2. \A j \in Client \ {i} : LeaseInside'[j] = LeaseInside[j]
      BY <2>1, SeenOfClient
    <3> QED BY <3>1, <3>2
  <2>5. outlived' = outlived \cup
          {l \in K : \E j \in Client \ C : LeaseOwner[l] = j /\ LeaseInside[j] = l}
    BY <2>1, <2>2
  <2>6. C \in SUBSET Client /\ K \in SUBSET Key
    BY <2>1
  <2> HIDE DEF C, K
  <2> QED BY <2>3, <2>4, <2>5, <2>6, VanishStep
<1>7. ASSUME NEW p \in Process, Crash(p)
      PROVE  Lease!Next
  <2> DEFINE C == {i \in Client : ProcessOf[i] = p}
             K == {k \in Key : k[1] = p}
  <2>1. \A k \in Key : LeaseOwner'[k] = IF k \in K THEN NoOne ELSE LeaseOwner[k]
    <3>1. ASSUME NEW k \in Key, k[1] = p
          PROVE  LeaseOwner'[k] = NoOne
      BY <1>7, <3>1 DEF Crash, LeaseOwner, Live, Free
    <3>2. ASSUME NEW k \in Key, k[1] # p
          PROVE  LeaseOwner'[k] = LeaseOwner[k]
      <4>1. store'[k] = store[k]
        BY <1>7, <3>2 DEF Crash
      <4> QED BY <4>1, SeenOfKey
    <3> QED BY <3>1, <3>2
  <2>2. \A i \in Client : LeaseInside'[i] = IF i \in C THEN NoOne ELSE LeaseInside[i]
    <3>1. ASSUME NEW i \in Client, ProcessOf[i] = p
          PROVE  LeaseInside'[i] = NoOne
      BY <1>7, <3>1 DEF Crash, LeaseInside, InSection
    <3>2. ASSUME NEW i \in Client, ProcessOf[i] # p
          PROVE  LeaseInside'[i] = LeaseInside[i]
      <4>1. pc'[i] = pc[i] /\ name'[i] = name[i] /\ redis' = redis
        BY <1>7, <3>2 DEF Crash
      <4> QED BY <4>1, SeenOfClient
    <3> QED BY <3>1, <3>2
  <2>3. ~ \E k \in K : \E i \in Client \ C : LeaseInside[i] = k
    <3> SUFFICES ASSUME NEW i \in Client, ProcessOf[i] # p, LeaseInside[i] \in K
                 PROVE  FALSE
      OBVIOUS
    <3>1. CASE InSection(i)
      <4>1. KeyOf(i)[1] # p
        BY DEF KeyOf, KeyFor
      <4> QED BY <3>1, <4>1 DEF LeaseInside
    <3>2. CASE ~InSection(i)
      BY <3>2, NoOneIsNoKey DEF LeaseInside
    <3> QED BY <3>1, <3>2
  <2>4. outlived' = outlived
    BY <1>7 DEF Crash
  <2>5. C \in SUBSET Client /\ K \in SUBSET Key
    OBVIOUS
  <2> HIDE DEF C, K
  <2> QED BY <2>1, <2>2, <2>3, <2>4, <2>5, VanishStep
<1>8. CASE Tick
  <2> DEFINE C == {}
             K == {k \in Key : store[k].left = 1}
  <2>1. \A k \in Key : LeaseOwner'[k] = IF k \in K THEN NoOne ELSE LeaseOwner[k]
    <3> SUFFICES ASSUME NEW k \in Key
                 PROVE  LeaseOwner'[k] = IF k \in K THEN NoOne ELSE LeaseOwner[k]
      OBVIOUS
    <3>1. store[k] \in Entry /\ store'[k] = Aged(store[k])
      BY <1>0, <1>8 DEF Tick, TypeOK
    <3>2. store[k].left \in Nat
      BY <3>1 DEF Entry
    <3>3. store'[k].owner = store[k].owner
      BY <3>1 DEF Aged, Entry
    <3>4. store'[k].left = IF store[k].left > 0 THEN store[k].left - 1 ELSE store[k].left
      BY <3>1 DEF Aged, Entry
    <3>5. (store'[k].left > 0) <=> (store[k].left > 0 /\ k \notin K)
      BY <3>2, <3>4
    <3> QED BY <3>3, <3>5 DEF LeaseOwner, Live
  <2>2. \A i \in Client : LeaseInside'[i] = IF i \in C THEN NoOne ELSE LeaseInside[i]
    BY <1>8, SeenOfClient DEF Tick
  <2>3. ASSUME NEW k \in outlived', k \notin outlived
        PROVE  k \in K /\ \E i \in Client : LeaseOwner[k] = i /\ LeaseInside[i] = k
    <3>1. PICK i \in Client : InSection(i) /\ KeyOf(i) = k /\ lease[i] \leq 1
      BY <1>8, <2>3 DEF Tick
    <3>2. store[k] = [owner |-> i, left |-> lease[i]] /\ lease[i] > 0
      BY <1>0, <2>3, <3>1 DEF HolderIsGuarded
    <3>3. lease[i] = 1
      BY <1>0, <3>1, <3>2 DEF TypeOK
    <3>4. k \in Key
      BY <1>0, <3>1, KeyOfInKey
    <3> QED BY <3>1, <3>2, <3>3, <3>4 DEF LeaseOwner, LeaseInside, Live
  <2>4. ASSUME NEW k \in K, NEW i \in Client, LeaseOwner[k] = i, LeaseInside[i] = k
        PROVE  k \in outlived'
    <3> SUFFICES ASSUME k \notin outlived PROVE k \in outlived'
      BY <1>8 DEF Tick
    <3>1. InSection(i) /\ KeyOf(i) = k
      BY <2>4, NoOneIsNoKey DEF LeaseInside
    <3>2. store[k] = [owner |-> i, left |-> lease[i]]
      BY <1>0, <3>1 DEF HolderIsGuarded
    <3>3. lease[i] = 1
      BY <3>2
    <3> QED BY <1>8, <3>1, <3>3 DEF Tick
  <2>5. outlived \subseteq outlived'
    BY <1>8 DEF Tick
  <2>6. outlived' = outlived \cup
          {k \in K : \E i \in Client \ C : LeaseOwner[k] = i /\ LeaseInside[i] = k}
    BY <2>3, <2>4, <2>5
  <2>7. C \in SUBSET Client /\ K \in SUBSET Key
    OBVIOUS
  <2> HIDE DEF C, K
  <2> QED BY <2>1, <2>2, <2>6, <2>7, VanishStep
<1>9. CASE UNCHANGED vars
  BY <1>9 DEF vars, LeaseOwner, LeaseInside, Live, InSection, KeyOf, KeyFor
<1>10. ASSUME NEW i \in Client, NEW n \in Name, AcquireRaises(i, n)
       PROVE  Lease!Next
  <2> DEFINE k == KeyFor(i, n)
  <2>1. /\ k \in Key /\ LeaseOwner[k] = NoOne
        /\ LeaseInside[i] = NoOne
    BY <1>0, <1>10, KeyForInKey DEF AcquireRaises, LeaseOwner, LeaseInside
  <2>2. LeaseOwner'[k] = i
    <3>1. store'[k].owner = i /\ store'[k].left = TTL
      BY <1>0, <1>10, <2>1 DEF AcquireRaises, TypeOK
    <3> QED BY <2>1, <3>1 DEF LeaseOwner, Live
  <2>3. ASSUME NEW l \in Key, l # k
        PROVE  LeaseOwner'[l] = LeaseOwner[l]
    <3>1. store'[l] = store[l]
      BY <1>0, <1>10, <2>3 DEF AcquireRaises, TypeOK
    <3> QED BY <3>1, SeenOfKey
  <2>4. LeaseOwner' = [LeaseOwner EXCEPT ![k] = i]
    <3>1. LeaseOwner' = [l \in Key |-> LeaseOwner'[l]] /\ DOMAIN LeaseOwner = Key
      BY DEF LeaseOwner
    <3> HIDE DEF k
    <3> QED BY <2>2, <2>3, <3>1
  <2>5. LeaseInside' = LeaseInside
    <3>1. \A j \in Client \ {i} : LeaseInside'[j] = LeaseInside[j]
      BY <1>0, <1>10, SeenOfClient DEF AcquireRaises, Leave, TypeOK
    <3>2. LeaseInside'[i] = NoOne
      BY <1>0, <1>10 DEF AcquireRaises, Leave, LeaseInside, InSection, TypeOK
    <3> QED BY <2>1, <3>1, <3>2 DEF LeaseInside
  <2>6. outlived' = outlived
    BY <1>10 DEF AcquireRaises
  <2> HIDE DEF k
  <2>7. Lease!Claim(i, k)
    BY <2>1, <2>4, <2>5, <2>6 DEF Lease!Claim
  <2> QED BY <2>1, <2>7 DEF Lease!Next
<1> QED
  BY <1>1, <1>3, <1>4, <1>5, <1>6, <1>7, <1>8, <1>9, <1>10 DEF Next

(* The lock implements LeaseLock, whatever the backend, the time to live   *)
(* and the number of callers: what is built on LeaseLock holds over it.    *)
THEOREM LockImplementsLeaseLock == Spec => ImplementsLeaseLock
<1>1. Init => Lease!Init
  BY DEF Init, Lease!Init, LeaseOwner, LeaseInside, Live, InSection, Free
<1>2. IInv /\ [Next]_vars => [Lease!Next]_Lease!vars
  BY NextRefines
<1> QED BY <1>1, <1>2, InitIInv, NextIInv, PTL DEF Spec, ImplementsLeaseLock, Lease!Spec
=============================================================================

