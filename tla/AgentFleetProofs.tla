-------------------------- MODULE AgentFleetProofs --------------------------
(***************************************************************************)
(* Proofs about the certificate kit and the fleet of agents, for any       *)
(* processes, identities and bounds.  The kit's strengthening says what a  *)
(* creator has written so far (Written), that a pair whose key exists is   *)
(* complete and signed by the CA on disk (Placed, Matched), and that what  *)
(* was loaded is what is on disk (Loaded).                                 *)
(***************************************************************************)
EXTENDS AgentFleet, TLAPS

Drafted == {"openCrt", "writeCrt", "openKey", "writeKey"}

(* Nobody else is creating the pair that p is creating.                    *)
Alone(p) == at[p] \in Creating => ~Contended(p)

(* A pair that has a key file has its certificate, and that of an identity *)
(* is signed with the CA key on disk, which is there.                      *)
Placed(o) ==
  disk[o].key # Missing =>
    /\ disk[o].crt \in Crt
    /\ o # CA => disk[CA].key \in Pair /\ disk[o].crt.by = disk[CA].key

Matched(o) == disk[o].key \in Pair => disk[o].crt.pair = disk[o].key

(* What p is creating, and how much of it is on disk.                      *)
Draft(p) ==
  /\ mem[p].key \in Pair /\ mem[p].crt \in Crt
  /\ mem[p].crt.pair = mem[p].key
  /\ doing[p] # CA => disk[CA].key \in Pair /\ mem[p].crt.by = disk[CA].key

Written(p) ==
  /\ at[p] \in Creating \ {"writeKey"} => disk[doing[p]].key = Missing
  /\ at[p] \in {"readRoot", "readSigner"} => doing[p] # CA
  /\ at[p] \in Drafted => Draft(p)
  /\ at[p] \in {"openKey", "writeKey"} => disk[doing[p]].crt = mem[p].crt
  /\ at[p] = "writeKey" => disk[doing[p]].key = Torn

(* The pairs p has been past are there, and what it loaded is theirs.      *)
Past(p) ==
  /\ doing[p] \in {CA, IdentityOf[p]}
  /\ at[p] \in {"check"} \cup Creating /\ doing[p] # CA => disk[CA].key # Missing
  /\ at[p] \in Loading \cup {"up"} => disk[IdentityOf[p]].key # Missing

Loaded(p) ==
  at[p] \in Loading \cup {"up"} =>
    /\ mem[p].root \in Blank \/ mem[p].root = disk[CA].crt
    /\ mem[p].crt \in Blank \/ mem[p].crt = disk[IdentityOf[p]].crt
    /\ mem[p].key \in Blank \/ mem[p].key = disk[IdentityOf[p]].key

Kit ==
  /\ \A p \in Proc : Alone(p) /\ Written(p) /\ Past(p) /\ Loaded(p)
  /\ \A o \in Owner : Placed(o) /\ Matched(o)

KitInv == KitTypeOK /\ (~overlapped => Kit)

----------------------------------------------------------------------------
(* What an agent that is not told of has in its favour, where its loop can *)
(* be, and what stop() leaves.                                             *)
Announced(a) ==
  phase[a] # "off" /\ a \notin overGrpc =>
    a \in registry \/ a \in excused \/ Msg("register", a) \in net

Halted(a) ==
  /\ a \in loop => phase[a] = "on"
  /\ a \in stopped => a \notin client
  /\ a \in stopped \ crossed => phase[a] = "off"

FleetInv == TypeOK /\ \A a \in Agent : Announced(a) /\ Halted(a)
----------------------------------------------------------------------------
(* Facts about the values on disk: a key pair is neither missing nor torn. *)
LEMMA Values ==
  /\ Missing # Torn
  /\ Pair \cap Blank = {} /\ Crt \cap Blank = {}
  BY KitAssumption DEF Pair, Crt, Blank

(* No step of a process but p changes what p does or knows.                *)
Same(q) == at'[q] = at[q] /\ doing'[q] = doing[q] /\ mem'[q] = mem[q]

(* Every step of the kit keeps the types (ensure_cert_kit).                *)
LEMMA KitTypes == KitTypeOK /\ [KitNext]_kitVars => KitTypeOK'
<1> SUFFICES ASSUME KitTypeOK, [KitNext]_kitVars PROVE KitTypeOK'
  OBVIOUS
<1> DEFINE Mem == [root : Crt \cup Blank, crt : Crt \cup Blank, key : Pair \cup Blank]
           File == [crt : Crt \cup Blank, key : Pair \cup Blank]
           Stage == {"off", "check", "up"} \cup Creating \cup Loading
<1>a. /\ disk \in [Owner -> File] /\ at \in [Proc -> Stage] /\ doing \in [Proc -> Owner]
      /\ mem \in [Proc -> Mem] /\ made \in 0..MaxPairs /\ overlapped \in BOOLEAN
  BY DEF KitTypeOK
<1>b. SUFFICES
        /\ disk' \in [Owner -> File] /\ at' \in [Proc -> Stage] /\ doing' \in [Proc -> Owner]
        /\ mem' \in [Proc -> Mem] /\ made' \in 0..MaxPairs /\ overlapped' \in BOOLEAN
  BY DEF KitTypeOK
<1>c. Nothing \in Mem /\ CA \in Owner /\ \A p \in Proc : IdentityOf[p] \in Owner
  BY KitAssumption DEF Nothing, Blank, Owner
<1>d. made < MaxPairs =>
        \A b \in Pair \cup {made + 1} :
          [root |-> Missing, crt |-> [pair |-> made + 1, by |-> b], key |-> made + 1] \in Mem
  BY <1>a, KitAssumption DEF Pair, Crt, Blank
<1>1. CASE UNCHANGED kitVars
  BY <1>1, <1>a DEF kitVars
<1>2. ASSUME NEW p \in Proc, Enter(p) PROVE KitTypeOK'
  BY <1>2, <1>a, <1>c DEF Enter, Go, KitTypeOK
<1>3. ASSUME NEW p \in Proc, Quit(p) PROVE KitTypeOK'
  BY <1>3, <1>a, <1>c DEF Quit, Go, KitTypeOK
<1>4. ASSUME NEW p \in Proc, Proceed(p)
      PROVE at' \in [Proc -> Stage] /\ doing' \in [Proc -> Owner] /\ mem' \in [Proc -> Mem]
  BY <1>4, <1>a, <1>c DEF Proceed, Go, Loading
<1>5. ASSUME NEW p \in Proc, KitStep(p) PROVE KitTypeOK'
  <2>1. CASE Exists(p)
    BY <1>4, <2>1, <1>a DEF Exists, KitTypeOK
  <2>2. CASE CreateCA(p)
    <3>1. mem' \in [Proc -> Mem]
      BY <2>2, <1>a, <1>d DEF CreateCA
    <3>2. made' \in 0..MaxPairs
      BY <2>2, <1>a, KitAssumption DEF CreateCA
    <3> QED
      BY <2>2, <1>a, <3>1, <3>2 DEF CreateCA, Go, Creating, KitTypeOK
  <2>3. CASE CreateIdentity(p)
    BY <2>3, <1>a DEF CreateIdentity, Go, Creating, KitTypeOK
  <2>4. CASE ReadRoot(p)
    BY <2>4, <1>a, <1>c DEF ReadRoot, Go, Creating, KitTypeOK
  <2>5. CASE Sign(p)
    <3>1. disk[CA].key \in Pair
      BY <2>5, <1>a, <1>c DEF Sign
    <3>2. mem' \in [Proc -> Mem]
      BY <2>5, <1>a, <1>d, <3>1 DEF Sign
    <3>3. made' \in 0..MaxPairs
      BY <2>5, <1>a, KitAssumption DEF Sign
    <3> QED
      BY <2>5, <1>a, <3>2, <3>3 DEF Sign, Go, Creating, KitTypeOK
  <2>6. CASE SignRaises(p)
    BY <2>6, <1>a, <1>c DEF SignRaises, Go, KitTypeOK
  <2>7. CASE OpenCrt(p)
    BY <2>7, <1>a DEF OpenCrt, Go, Creating, KitTypeOK, Blank
  <2>8. CASE WriteCrt(p)
    BY <2>8, <1>a DEF WriteCrt, Go, Creating, KitTypeOK
  <2>9. CASE OpenKey(p)
    BY <2>9, <1>a DEF OpenKey, Go, Creating, KitTypeOK, Blank
  <2>10. CASE WriteKey(p)
    BY <1>4, <2>10, <1>a DEF WriteKey, KitTypeOK
  <2>11. CASE LoadRoot(p)
    BY <2>11, <1>a, <1>c DEF LoadRoot, Go, Loading, KitTypeOK
  <2>12. CASE LoadKey(p)
    BY <2>12, <1>a, <1>c DEF LoadKey, Go, Loading, KitTypeOK
  <2>13. CASE LoadCrt(p)
    BY <2>13, <1>a, <1>c DEF LoadCrt, Go, Loading, KitTypeOK
  <2> QED
    BY <1>5, <2>1, <2>2, <2>3, <2>4, <2>5, <2>6, <2>7, <2>8, <2>9, <2>10,
       <2>11, <2>12, <2>13 DEF KitStep
<1> QED
  BY <1>1, <1>2, <1>3, <1>5 DEF KitNext, KitTypeOK

Own(p) == Alone(p) /\ Written(p) /\ Past(p) /\ Loaded(p)

(* If only p changes and the disk does not, the kit is as good as what p   *)
(* holds (ensure_cert_kit between its writes).                             *)
LEMMA MemoryStep ==
  ASSUME NEW p \in Proc, Kit, UNCHANGED disk, \A q \in Proc \ {p} : Same(q), Own(p)'
  PROVE  Kit'
<1>1. \A o \in Owner : Placed(o)' /\ Matched(o)'
  BY DEF Kit, Placed, Matched
<1>2. ASSUME NEW q \in Proc \ {p} PROVE Own(q)'
  <2>1. at'[q] = at[q] /\ doing'[q] = doing[q] /\ mem'[q] = mem[q] /\ disk' = disk
    BY <1>2 DEF Same
  <2>2. Own(q)
    BY DEF Kit, Own
  <2>3. Written(q)' /\ Past(q)' /\ Loaded(q)'
    BY <2>1, <2>2 DEF Own, Written, Draft, Past, Loaded
  <2>4. Alone(q)'
    <3> SUFFICES ASSUME at'[q] \in Creating, NEW r \in Proc \ {q},
                        at'[r] \in Creating, doing'[r] = doing'[q]
                 PROVE FALSE
      BY DEF Alone, Contended
    <3>1. CASE r = p
      BY <3>1 DEF Own, Alone, Contended
    <3>2. CASE r # p
      BY <3>2, <2>1, <2>2 DEF Own, Alone, Contended, Same
    <3> QED
      BY <3>1, <3>2
  <2> QED
    BY <2>3, <2>4 DEF Own
<1> QED
  BY <1>1, <1>2 DEF Kit, Own

(* So it is if p, which alone creates its pair, writes one of its files:   *)
(* what others hold, and the other pairs, are not touched (write_pem).     *)
LEMMA DiskStep ==
  ASSUME NEW p \in Proc, KitTypeOK, Kit, at[p] \in Drafted,
         NEW d \in Owner, d = doing[p],
         \A q \in Proc \ {p} : Same(q),
         \A o \in Owner \ {d} : disk'[o] = disk[o],
         disk[d].key = Missing \/ disk'[d].crt = disk[d].crt,
         disk[d].key # Missing => disk'[d].key # Missing,
         Own(p)', Placed(d)', Matched(d)'
  PROVE  Kit'
<1>1. disk[d].key \in {Missing, Torn} /\ d \in Owner /\ CA \in Owner
  BY DEF Kit, Written, Drafted, Creating, KitTypeOK, Owner
<1>2. disk[CA].key \in Pair => disk'[CA] = disk[CA]
  BY <1>1, Values DEF Blank
<1>3. \A o \in Owner : disk[o].key # Missing => disk'[o].key # Missing /\ disk'[o].crt = disk[o].crt
  BY <1>1
<1>4. ASSUME NEW o \in Owner \ {d} PROVE Placed(o)' /\ Matched(o)'
  BY <1>2, <1>4 DEF Kit, Placed, Matched
<1>5. ASSUME NEW q \in Proc \ {p} PROVE Own(q)'
  <2>1. at'[q] = at[q] /\ doing'[q] = doing[q] /\ mem'[q] = mem[q]
    BY <1>5 DEF Same
  <2>2. Own(q) /\ Own(p) /\ at[p] \in Creating
    BY DEF Kit, Own, Drafted, Creating
  <2>3. doing[q] \in Owner /\ IdentityOf[q] \in Owner /\ CA \in Owner
    BY KitAssumption DEF KitTypeOK, Owner
  <2>4. Written(q)'
    <3>1. at[q] \in Creating => disk'[doing[q]] = disk[doing[q]]
      BY <2>2, <2>3 DEF Own, Alone, Contended
    <3> QED
      BY <2>1, <2>2, <3>1, <1>2 DEF Own, Written, Draft, Drafted, Creating
  <2>5. Past(q)'
    BY <2>1, <2>2, <2>3, <1>3 DEF Own, Past
  <2>6. Loaded(q)'
    <3> SUFFICES ASSUME at[q] \in Loading \cup {"up"} PROVE Loaded(q)'
      BY <2>1 DEF Loaded
    <3>1. disk[IdentityOf[q]].key # Missing /\ IdentityOf[q] # CA
      BY <2>2, KitAssumption DEF Own, Past
    <3>2. disk[CA].key \in Pair
      BY <2>3, <3>1 DEF Kit, Placed
    <3>3. disk'[CA] = disk[CA] /\ disk'[IdentityOf[q]].crt = disk[IdentityOf[q]].crt
      BY <1>2, <1>3, <2>3, <3>1, <3>2
    <3>4. mem[q].key \in Blank \/ disk'[IdentityOf[q]].key = mem[q].key
      <4>1. CASE IdentityOf[q] = d
        BY <4>1, <1>1, <2>2 DEF Own, Loaded, Blank
      <4>2. CASE IdentityOf[q] # d
        BY <4>2, <2>2, <2>3 DEF Own, Loaded
      <4> QED
        BY <4>1, <4>2
    <3> QED
      BY <2>1, <2>2, <3>3, <3>4 DEF Own, Loaded
  <2>7. Alone(q)'
    <3> SUFFICES ASSUME at'[q] \in Creating, NEW r \in Proc \ {q},
                        at'[r] \in Creating, doing'[r] = doing'[q]
                 PROVE FALSE
      BY DEF Alone, Contended
    <3>1. CASE r = p
      BY <3>1 DEF Own, Alone, Contended
    <3>2. CASE r # p
      BY <3>2, <2>1, <2>2 DEF Own, Alone, Contended, Same
    <3> QED
      BY <3>1, <3>2
  <2> QED
    BY <2>4, <2>5, <2>6, <2>7 DEF Own
<1>6. \A o \in Owner : Placed(o)' /\ Matched(o)'
  BY <1>4
<1>7. \A q \in Proc : Own(q)'
  BY <1>5
<1> QED
  BY <1>6, <1>7 DEF Kit, Own

(* What a process does with its memory only (ensure_cert_kit, and the      *)
(* loading of the credentials).                                            *)
LEMMA MemorySteps ==
  ASSUME NEW p \in Proc, KitTypeOK, Kit, ~overlapped',
         \/ Enter(p) \/ Quit(p) \/ Exists(p) \/ CreateCA(p) \/ CreateIdentity(p) \/ ReadRoot(p)
         \/ Sign(p) \/ SignRaises(p) \/ LoadRoot(p) \/ LoadKey(p) \/ LoadCrt(p)
  PROVE  Kit'
<1> USE DEF Go
<1>1. Own(p) /\ doing[p] \in Owner /\ IdentityOf[p] \in Owner \ {CA} /\ CA \in Owner
  BY KitAssumption DEF Kit, Own, KitTypeOK, Owner
<1>2. UNCHANGED disk /\ \A q \in Proc \ {p} : Same(q)
  BY DEF Same, KitTypeOK, Enter, Quit, Exists, Proceed, CreateCA, CreateIdentity, ReadRoot, Sign,
         SignRaises, LoadRoot, LoadKey, LoadCrt
<1>3. doing'[p] = doing[p] => (Contended(p)' <=> Contended(p))
  BY <1>2 DEF Contended, Same
<1>4. at \in [Proc -> {"off", "check", "up"} \cup Creating \cup Loading]
      /\ doing \in [Proc -> Owner] /\ DOMAIN mem = Proc
  BY DEF KitTypeOK
<1>5. Own(p)'
  <2>1. CASE Enter(p)
    BY <2>1, <1>4 DEF Enter, Own, Alone, Written, Past, Loaded, Creating, Drafted, Loading
  <2>2. CASE Quit(p)
    BY <2>2, <1>1, <1>4 DEF Quit, Own, Alone, Written, Past, Loaded, Creating, Drafted, Loading
  <2>3. CASE Exists(p)
    <3>1. at'[p] \in {"check", "loadRoot", "loadKey"} /\ doing'[p] = IdentityOf[p]
          /\ mem'[p] = Nothing /\ (at'[p] # "check" => doing[p] = IdentityOf[p])
      BY <2>3, <1>1, <1>4 DEF Exists, Proceed, Own, Past
    <3>2. disk'[doing[p]].key # Missing /\ (doing[p] # CA => disk'[CA].key # Missing)
      BY <2>3, <1>1, <1>2 DEF Exists, Absent, Own, Past
    <3>3. Past(p)'
      BY <3>1, <3>2 DEF Past, Creating, Loading
    <3> QED
      BY <3>1, <3>3 DEF Own, Alone, Written, Loaded, Creating, Drafted, Loading, Nothing, Blank
  <2>4. CASE CreateCA(p)
    <3>1. ~Contended(p) /\ at'[p] = "openCrt" /\ doing'[p] = CA /\ doing[p] = CA
      BY <2>4, <1>4 DEF CreateCA
    <3>2. mem'[p] = [root |-> Missing, crt |-> [pair |-> made + 1, by |-> made + 1], key |-> made + 1]
      BY <2>4, <1>4 DEF CreateCA
    <3>3. made + 1 \in Pair
      BY <2>4, KitAssumption DEF CreateCA, KitTypeOK, Pair
    <3>4. Draft(p)'
      BY <3>1, <3>2, <3>3 DEF Draft, Crt
    <3>5. disk[CA].key = Missing
      BY <2>4, <1>1, Values DEF CreateCA, Absent, Kit, Placed, Blank
    <3> QED
      BY <3>1, <3>4, <3>5, <1>2, <1>3 DEF Own, Alone, Written, Past, Loaded, Creating, Drafted, Loading
  <2>5. CASE CreateIdentity(p)
    <3>1. ~Contended(p) /\ at'[p] = "readRoot" /\ doing'[p] = doing[p] /\ doing[p] # CA
      BY <2>5, <1>4 DEF CreateIdentity
    <3>2. disk[doing[p]].key = Missing
      BY <2>5, <1>1, Values DEF CreateIdentity, Absent, Kit, Placed, Blank
    <3>3. Past(p)'
      BY <2>5, <3>1, <1>1, <1>2 DEF CreateIdentity, Own, Past, Creating, Loading
    <3> QED
      BY <3>1, <3>2, <3>3, <1>2, <1>3 DEF Own, Alone, Written, Loaded, Creating, Drafted, Loading
  <2>6. CASE ReadRoot(p)
    <3>1. at[p] = "readRoot" /\ at'[p] = "readSigner" /\ doing'[p] = doing[p]
      BY <2>6, <1>4 DEF ReadRoot
    <3> QED
      BY <3>1, <1>1, <1>2, <1>3 DEF Own, Alone, Written, Past, Loaded, Creating, Drafted, Loading
  <2>7. CASE Sign(p)
    <3>1. at[p] = "readSigner" /\ at'[p] = "openCrt" /\ doing'[p] = doing[p] /\ doing[p] # CA
      BY <2>7, <1>1, <1>4 DEF Sign, Own, Written
    <3>2. mem'[p] = [root |-> Missing, crt |-> [pair |-> made + 1, by |-> disk[CA].key], key |-> made + 1]
      BY <2>7, <1>4 DEF Sign
    <3>3. made + 1 \in Pair /\ disk[CA].key \in Pair
      BY <2>7, <1>1, KitAssumption DEF Sign, KitTypeOK, Pair
    <3>4. Draft(p)'
      BY <3>1, <3>2, <3>3, <1>2 DEF Draft, Crt
    <3> QED
      BY <3>1, <3>4, <1>1, <1>2, <1>3 DEF Own, Alone, Written, Past, Loaded, Creating, Drafted, Loading
  <2>8. CASE SignRaises(p)
    BY <2>8, <1>1, <1>4 DEF SignRaises, Own, Alone, Written, Past, Loaded, Creating, Drafted, Loading
  <2>9. CASE LoadRoot(p) \/ LoadKey(p) \/ LoadCrt(p)
    <3>1. at[p] \in Loading /\ at'[p] \in Loading \cup {"up"} /\ doing'[p] = doing[p]
      BY <2>9, <1>4 DEF LoadRoot, LoadKey, LoadCrt, Loading
    <3>2. Past(p)'
      BY <3>1, <1>1, <1>2 DEF Own, Past, Creating, Loading
    <3>3. Loaded(p)'
      <4>1. mem[p] \in [root : Crt \cup Blank, crt : Crt \cup Blank, key : Pair \cup Blank]
        BY DEF KitTypeOK
      <4>2. CASE LoadRoot(p)
        <5>1. mem'[p].root = disk[CA].crt /\ mem'[p].crt = mem[p].crt /\ mem'[p].key = mem[p].key
          BY <4>1, <4>2, <1>4 DEF LoadRoot
        <5> QED
          BY <5>1, <3>1, <1>1, <1>2 DEF Own, Loaded
      <4>3. CASE LoadKey(p)
        <5>1. mem'[p].root = mem[p].root /\ mem'[p].crt = mem[p].crt /\ mem'[p].key = disk[IdentityOf[p]].key
          BY <4>1, <4>3, <1>4 DEF LoadKey
        <5> QED
          BY <5>1, <3>1, <1>1, <1>2 DEF Own, Loaded
      <4>4. CASE LoadCrt(p)
        <5>1. mem'[p].root = mem[p].root /\ mem'[p].crt = disk[IdentityOf[p]].crt /\ mem'[p].key = mem[p].key
          BY <4>1, <4>4, <1>4 DEF LoadCrt
        <5> QED
          BY <5>1, <3>1, <1>1, <1>2 DEF Own, Loaded
      <4> QED
        BY <2>9, <4>2, <4>3, <4>4
    <3> QED
      BY <3>1, <3>2, <3>3 DEF Own, Alone, Written, Creating, Drafted, Loading
  <2> QED
    BY <2>1, <2>2, <2>3, <2>4, <2>5, <2>6, <2>7, <2>8, <2>9
<1> QED
  BY <1>2, <1>5, MemoryStep

(* What a process does to the disk (write_pem).                            *)
LEMMA DiskSteps ==
  ASSUME NEW p \in Proc, KitTypeOK, Kit, KitTypeOK',
         OpenCrt(p) \/ WriteCrt(p) \/ OpenKey(p) \/ WriteKey(p)
  PROVE  Kit'
<1> USE DEF Go
<1> PICK d \in Owner : d = doing[p]
  BY DEF KitTypeOK
<1>1. /\ Own(p) /\ d = doing[p] /\ IdentityOf[p] \in Owner \ {CA} /\ CA \in Owner
      /\ d \in Owner /\ d \in {CA, IdentityOf[p]}
  BY KitAssumption DEF Kit, Own, KitTypeOK, Owner, Past
<1>2. \A q \in Proc \ {p} : Same(q)
  BY DEF Same, KitTypeOK, OpenCrt, WriteCrt, OpenKey, WriteKey, Proceed
<1>3. doing'[p] = doing[p] => (Contended(p)' <=> Contended(p))
  BY <1>2 DEF Contended, Same
<1>4. /\ at \in [Proc -> {"off", "check", "up"} \cup Creating \cup Loading]
      /\ doing \in [Proc -> Owner] /\ DOMAIN mem = Proc
      /\ disk \in [Owner -> [crt : Crt \cup Blank, key : Pair \cup Blank]]
  BY DEF KitTypeOK
<1>5. at[p] \in Drafted /\ (\A o \in Owner \ {d} : disk'[o] = disk[o]) /\ Draft(p)
  BY <1>1, <1>4 DEF OpenCrt, WriteCrt, OpenKey, WriteKey, Drafted, Own, Written
<1>6. d # CA => disk'[CA].key = disk[CA].key
  BY <1>1, <1>5
<1>7. CASE OpenCrt(p) \/ WriteCrt(p)
  <2>1. disk[d].key = Missing /\ disk'[d].key = Missing
    BY <1>7, <1>1, <1>4 DEF OpenCrt, WriteCrt, Own, Written, Creating
  <2>2. at'[p] \in {"writeCrt", "openKey"} /\ doing'[p] = doing[p] /\ mem' = mem
        /\ (at'[p] = "openKey" => disk'[d].crt = mem[p].crt)
    BY <1>7, <1>1, <1>4 DEF OpenCrt, WriteCrt
  <2>3. Written(p)' /\ Alone(p)'
    BY <2>1, <2>2, <1>1, <1>3, <1>5, <1>6 DEF Written, Draft, Drafted, Creating, Own, Alone
  <2>4. Past(p)' /\ Loaded(p)'
    BY <2>2, <1>1, <1>5, <1>6 DEF Past, Loaded, Drafted, Creating, Loading, Own
  <2>5. Placed(d)' /\ Matched(d)'
    BY <2>1, Values DEF Placed, Matched, Blank
  <2> QED
    BY <2>1, <2>3, <2>4, <2>5, <1>1, <1>2, <1>5, DiskStep DEF Own
<1>8. CASE OpenKey(p)
  <2>1. disk[d].key = Missing /\ disk'[d].key = Torn /\ disk'[d].crt = mem[p].crt
    BY <1>8, <1>1, <1>4 DEF OpenKey, Own, Written, Creating
  <2>2. at'[p] = "writeKey" /\ doing'[p] = doing[p] /\ mem' = mem
    BY <1>8, <1>4 DEF OpenKey
  <2>3. Written(p)' /\ Alone(p)'
    BY <2>1, <2>2, <1>1, <1>3, <1>5, <1>6 DEF Written, Draft, Drafted, Creating, Own, Alone
  <2>4. Past(p)' /\ Loaded(p)'
    BY <2>2, <1>1, <1>5, <1>6 DEF Past, Loaded, Drafted, Creating, Loading, Own
  <2>5. Placed(d)' /\ Matched(d)'
    BY <2>1, <1>5, <1>6, Values DEF Placed, Matched, Blank, Draft
  <2> QED
    BY <2>1, <2>3, <2>4, <2>5, <1>1, <1>2, <1>5, Values, DiskStep DEF Own
<1>9. CASE WriteKey(p)
  <2>1. /\ disk[d].key = Torn /\ disk'[d].key = mem[p].key
        /\ disk[d].crt = mem[p].crt /\ disk'[d].crt = mem[p].crt
    BY <1>9, <1>1, <1>4 DEF WriteKey, Own, Written, Creating
  <2>2. /\ at'[p] \in {"check", "loadRoot", "loadKey"} /\ doing'[p] = IdentityOf[p]
        /\ mem'[p] = Nothing /\ (at'[p] # "check" => d = IdentityOf[p])
    BY <1>9, <1>1, <1>4 DEF WriteKey, Proceed
  <2>3. disk'[d].key \in Pair /\ disk'[d].key # Missing
    BY <2>1, <1>5, Values DEF Draft, Blank
  <2>4. Written(p)' /\ Alone(p)' /\ Loaded(p)'
    BY <2>2 DEF Written, Drafted, Creating, Alone, Loaded, Loading, Nothing, Blank
  <2>5. Past(p)'
    BY <2>2, <2>3, <1>1, <1>5, <1>6, Values DEF Past, Creating, Loading, Draft, Blank
  <2>6. Placed(d)' /\ Matched(d)'
    BY <2>1, <1>5, <1>6 DEF Placed, Matched, Draft
  <2> QED
    BY <2>1, <2>3, <2>4, <2>5, <2>6, <1>1, <1>2, <1>5, DiskStep DEF Own
<1> QED
  BY <1>7, <1>8, <1>9

(* Every step of the kit keeps its invariant (ensure_cert_kit).            *)
LEMMA KitKeeps == KitInv /\ [KitNext]_kitVars => KitInv'
<1> SUFFICES ASSUME KitInv, [KitNext]_kitVars PROVE KitInv'
  OBVIOUS
<1>1. KitTypeOK /\ KitTypeOK'
  BY KitTypes DEF KitInv
<1>2. SUFFICES ASSUME ~overlapped' PROVE Kit'
  BY <1>1 DEF KitInv
<1>3. CASE UNCHANGED kitVars
  BY <1>2, <1>3 DEF KitInv, kitVars, Kit, Alone, Contended, Written, Draft, Past, Loaded, Placed, Matched
<1>4. ASSUME NEW p \in Proc, Enter(p) \/ KitStep(p) \/ Quit(p) PROVE Kit'
  <2>1. ~overlapped
    BY <1>1, <1>2, <1>4 DEF Enter, Quit, KitStep, Exists, CreateCA, CreateIdentity, ReadRoot, Sign,
       SignRaises, OpenCrt, WriteCrt, OpenKey, WriteKey, LoadRoot, LoadKey, LoadCrt, KitTypeOK
  <2>2. Kit
    BY <2>1 DEF KitInv
  <2>3. CASE OpenCrt(p) \/ WriteCrt(p) \/ OpenKey(p) \/ WriteKey(p)
    BY <2>2, <2>3, <1>1, DiskSteps
  <2>4. CASE ~(OpenCrt(p) \/ WriteCrt(p) \/ OpenKey(p) \/ WriteKey(p))
    BY <2>2, <2>4, <1>1, <1>2, <1>4, MemorySteps DEF KitStep
  <2> QED
    BY <2>3, <2>4
<1> QED
  BY <1>3, <1>4 DEF KitNext

(* At first nothing is on disk, and nobody does anything (cert_dir).       *)
LEMMA KitStarts == KitInit => KitInv
<1> SUFFICES ASSUME KitInit PROVE KitTypeOK /\ Kit
  BY DEF KitInv
<1>1. CA \in Owner /\ Missing \in Blank
  BY DEF Owner, Blank
<1>2. KitTypeOK
  <2>1. /\ Nothing \in [root : Crt \cup Blank, crt : Crt \cup Blank, key : Pair \cup Blank]
        /\ [crt |-> Missing, key |-> Missing] \in [crt : Crt \cup Blank, key : Pair \cup Blank]
    BY <1>1 DEF Nothing
  <2>2. 0 \in 0..MaxPairs
    BY KitAssumption
  <2> QED
    BY <1>1, <2>1, <2>2 DEF KitInit, KitTypeOK
<1>3. \A p \in Proc : at[p] = "off" /\ doing[p] = CA
  BY DEF KitInit
<1>4. \A p \in Proc : Alone(p) /\ Written(p) /\ Past(p) /\ Loaded(p)
  BY <1>3 DEF Alone, Written, Past, Loaded, Creating, Drafted, Loading
<1>5. \A o \in Owner : disk[o].key = Missing
  BY DEF KitInit
<1>6. \A o \in Owner : Placed(o) /\ Matched(o)
  BY <1>1, <1>5, Values DEF Placed, Matched
<1> QED
  BY <1>2, <1>4, <1>6 DEF Kit

(* Credentials of one invariant disk verify each other.                    *)
LEMMA KitIsTrusted == KitInv => Trust
<1> SUFFICES ASSUME KitInv, ~overlapped, NEW p \in Proc, NEW q \in Proc, Equipped(p), Equipped(q)
             PROVE  Accepts(q, p)
  BY DEF Trust, Handshake
<1>1. /\ Loaded(p) /\ Loaded(q) /\ Past(p) /\ at[p] = "up" /\ at[q] = "up"
      /\ IdentityOf[p] \in Owner \ {CA} /\ CA \in Owner
  BY KitAssumption DEF KitInv, Kit, Equipped, Owner
<1>2. /\ mem[p].crt = disk[IdentityOf[p]].crt /\ mem[p].key = disk[IdentityOf[p]].key
      /\ mem[q].root = disk[CA].crt
  BY <1>1 DEF Equipped, Loaded
<1>3. disk[IdentityOf[p]].key # Missing /\ disk[IdentityOf[p]].key \in Pair
  BY <1>1, <1>2 DEF Past, KitInv, KitTypeOK, Equipped, Blank
<1>4. disk[CA].key \in Pair /\ disk[IdentityOf[p]].crt.by = disk[CA].key
  BY <1>1, <1>3 DEF KitInv, Kit, Placed
<1>5. Matched(CA) /\ Matched(IdentityOf[p])
  BY <1>1 DEF KitInv, Kit
<1> QED
  BY <1>2, <1>3, <1>4, <1>5 DEF Matched, Accepts

----------------------------------------------------------------------------
(* Whatever an agent or the server does is a step of the kit, or leaves it *)
(* alone (grpc_client.py, grpc_server.py call ensure_cert_kit).            *)
LEMMA StepsAreKitSteps == [Next]_vars => [KitNext]_kitVars
<1> SUFFICES ASSUME Next PROVE [KitNext]_kitVars
  BY DEF vars
<1>1. \A a \in Agent : a \in Proc
  BY FleetAssumption
<1>2. Server \in Proc
  BY FleetAssumption
<1>3. ASSUME NEW p \in Proc, Enter(p) \/ KitStep(p) \/ Quit(p) PROVE [KitNext]_kitVars
  BY <1>3 DEF KitNext
<1>4. ASSUME NEW a \in Agent, Start(a) \/ Stop(a) \/ AgentDies(a) \/ AgentStep(a)
      PROVE  [KitNext]_kitVars
  BY <1>1, <1>3, <1>4 DEF Start, Stop, AgentDies, AgentStep, RegisterRpc, RegisterRpcFails, Continue,
     ConnectStep, BeatHttp, BeatConnects, BeatGrpc, Connect
<1>5. CASE ServerStarts \/ ServerStep \/ ServerEnds
  BY <1>2, <1>3, <1>5 DEF ServerStarts, ServerStep, ServerEnds
<1>6. ASSUME NEW m \in Message, Deliver(m) \/ Lose(m) PROVE [KitNext]_kitVars
  BY <1>6 DEF Deliver, Lose
<1>7. ASSUME NEW S, Forget(S) PROVE [KitNext]_kitVars
  BY <1>7 DEF Forget
<1> QED
  BY <1>4, <1>5, <1>6, <1>7 DEF Next

(* The fleet never leaves the specification of the kit: CertKit holds for  *)
(* agents that come, go and die (V2Agent, GRPCAgentServer).                *)
THEOREM FleetImplementsKit == Spec => KitSpec
<1>1. Init => KitInit
  BY DEF Init
<1> QED
  BY <1>1, StepsAreKitSteps, PTL DEF Spec, KitSpec

(* The kit alone keeps its invariant, whatever processes there are         *)
(* (ensure_cert_kit).                                                      *)
THEOREM KitIsSound == KitSpec => []KitInv
  BY KitStarts, KitKeeps, PTL DEF KitSpec

(* "The CA is generated once and reused across identities": credentials    *)
(* that could be read verify each other, unless a pair was created twice   *)
(* at a time (ensure_cert_kit), for any agents, identities and deaths.     *)
THEOREM FleetTrusts == Spec => []Trust
  BY FleetImplementsKit, KitIsSound, KitIsTrusted, PTL

----------------------------------------------------------------------------
(* The types of what the fleet adds to the kit.                            *)
FleetTypeOK ==
  /\ overGrpc \subseteq Agent
  /\ phase \in [Agent -> {"off", "starting", "answered", "on"}]
  /\ loop \subseteq Agent /\ client \subseteq Agent
  /\ net \subseteq Message
  /\ registry \subseteq Agent /\ grpcRegistry \subseteq Agent
  /\ crossed \subseteq stopped /\ stopped \subseteq Agent /\ excused \subseteq Agent
  /\ faults \in 0..MaxFaults /\ stops \in 0..MaxStops

(* Messages are told apart by what they say and whose they are.            *)
LEMMA Messages ==
  /\ \A a \in Agent : Msg("register", a) \in Message /\ Msg("beat", a) \in Message
  /\ \A m \in Message : m.agent \in Agent /\ (m.what # "register" \/ m = Msg("register", m.agent))
  /\ \A a \in Agent, b \in Agent :
       /\ Msg("register", a) # Msg("beat", b)
       /\ Msg("register", a) = Msg("register", b) => a = b
       /\ Msg("beat", a) = Msg("beat", b) => a = b
       /\ Msg("register", a).what = "register" /\ Msg("register", a).agent = a
  BY DEF Msg, Message

(* Every step of the fleet keeps its types and what is said of each agent. *)
LEMMA AgentSteps ==
  ASSUME FleetInv, NEW a \in Agent, Start(a) \/ Stop(a) \/ AgentDies(a) \/ AgentStep(a)
  PROVE  FleetTypeOK' /\ \A b \in Agent : Announced(b)' /\ Halted(b)'
<1> USE FleetAssumption, Messages DEF NoFault, Fault, Enters
<1>0. FleetTypeOK /\ \A b \in Agent : Announced(b) /\ Halted(b)
  BY DEF FleetInv, TypeOK, FleetTypeOK
<1>1. CASE Start(a)
  BY <1>0, <1>1 DEF Start, FleetTypeOK, Announced, Halted
<1>2. CASE Stop(a)
  BY <1>0, <1>2 DEF Stop, FleetTypeOK, Announced, Halted
<1>3. CASE AgentDies(a)
  BY <1>0, <1>3 DEF AgentDies, FleetTypeOK, Announced, Halted
<1>4. CASE RegisterRpc(a)
  BY <1>0, <1>4 DEF RegisterRpc, Reaches, FleetTypeOK, Announced, Halted
<1>5. CASE RegisterRpcFails(a)
  BY <1>0, <1>5 DEF RegisterRpcFails, FleetTypeOK, Announced, Halted
<1>6. CASE Continue(a)
  BY <1>0, <1>6 DEF Continue, FleetTypeOK, Announced, Halted
<1>7. CASE BeatHttp(a)
  BY <1>0, <1>7 DEF BeatHttp, FleetTypeOK, Announced, Halted
<1>8. CASE BeatConnects(a) \/ BeatGrpc(a)
  BY <1>0, <1>8 DEF BeatConnects, BeatGrpc, fleetVars, FleetTypeOK, Announced, Halted
<1>9. CASE ConnectStep(a)
  BY <1>0, <1>9 DEF ConnectStep, FleetTypeOK, Announced, Halted
<1> QED
  BY <1>1, <1>2, <1>3, <1>4, <1>5, <1>6, <1>7, <1>8, <1>9 DEF AgentStep

(* So do the network, the registry and the server.                         *)
LEMMA OtherSteps ==
  ASSUME FleetInv,
         \/ \E m \in Message : Deliver(m) \/ Lose(m)
         \/ \E S \in {Agent} \cup {{a} : a \in Agent} : Forget(S)
         \/ ServerStarts \/ ServerStep \/ ServerEnds
         \/ UNCHANGED vars
  PROVE  FleetTypeOK' /\ \A b \in Agent : Announced(b)' /\ Halted(b)'
<1> USE FleetAssumption, Messages DEF NoFault, Fault
<1>0. FleetTypeOK /\ \A b \in Agent : Announced(b) /\ Halted(b)
  BY DEF FleetInv, TypeOK, FleetTypeOK
<1>1. ASSUME NEW m \in Message, Deliver(m) PROVE FleetTypeOK' /\ \A b \in Agent : Announced(b)' /\ Halted(b)'
  BY <1>0, <1>1 DEF Deliver, FleetTypeOK, Announced, Halted
<1>2. ASSUME NEW m \in Message, Lose(m) PROVE FleetTypeOK' /\ \A b \in Agent : Announced(b)' /\ Halted(b)'
  BY <1>0, <1>2 DEF Lose, FleetTypeOK, Announced, Halted
<1>3. ASSUME NEW S \in SUBSET Agent, Forget(S)
      PROVE  FleetTypeOK' /\ \A b \in Agent : Announced(b)' /\ Halted(b)'
  BY <1>0, <1>3 DEF Forget, FleetTypeOK, Announced, Halted
<1>4. CASE ServerStarts \/ ServerStep \/ ServerEnds
  BY <1>0, <1>4 DEF ServerStarts, ServerStep, ServerEnds, fleetVars, FleetTypeOK, Announced, Halted
<1>5. CASE UNCHANGED vars
  BY <1>0, <1>5 DEF vars, fleetVars, FleetTypeOK, Announced, Halted
<1>6. \A S \in {Agent} \cup {{a} : a \in Agent} : S \in SUBSET Agent
  OBVIOUS
<1> QED
  BY <1>1, <1>2, <1>3, <1>4, <1>5, <1>6

(* So the invariant of the fleet is inductive.                             *)
LEMMA FleetKeeps == FleetInv /\ [Next]_vars => FleetInv'
<1> SUFFICES ASSUME FleetInv, [Next]_vars PROVE FleetInv'
  OBVIOUS
<1>1. KitTypeOK'
  BY KitTypes, StepsAreKitSteps DEF FleetInv, TypeOK
<1>2. FleetTypeOK' /\ \A b \in Agent : Announced(b)' /\ Halted(b)'
  BY AgentSteps, OtherSteps DEF Next
<1> QED
  BY <1>1, <1>2 DEF FleetInv, TypeOK, FleetTypeOK

(* The fleet's types, and what is behind the two theorems after it         *)
(* (V2Agent, agents.py).                                                   *)
THEOREM FleetIsSound == Spec => []FleetInv
<1>1. Init => FleetInv
  <2> SUFFICES ASSUME Init PROVE FleetInv
    OBVIOUS
  <2>1. KitTypeOK
    BY KitStarts DEF Init, KitInv
  <2>2. FleetTypeOK /\ \A a \in Agent : Announced(a) /\ Halted(a)
    BY FleetAssumption DEF Init, FleetTypeOK, Announced, Halted
  <2> QED
    BY <2>1, <2>2 DEF FleetInv, TypeOK, FleetTypeOK
<1> QED
  BY <1>1, FleetKeeps, PTL DEF Spec

(* The state of the fleet, and of its kit, stays within its types.         *)
THEOREM FleetTypes == Spec => []TypeOK
<1>1. FleetInv => TypeOK
  BY DEF FleetInv
<1> QED
  BY <1>1, FleetIsSound, PTL

(* An agent over HTTP that heartbeats unheard has its registration in      *)
(* flight, or it was lost or forgotten (V2Agent.start, heartbeat_agent).   *)
THEOREM UnknownAreExcused == Spec => []UnknownIsExcused
<1>1. FleetInv => UnknownIsExcused
  BY DEF FleetInv, TypeOK, UnknownIsExcused, Announced, Halted
<1> QED
  BY <1>1, FleetIsSound, PTL

(* A step of the kit is one process's, and only Enter leaves "off"         *)
(* (ensure_cert_kit).                                                      *)
LEMMA OneStage ==
  ASSUME KitTypeOK, NEW p \in Proc, NEW q \in Proc, Enter(p) \/ KitStep(p) \/ Quit(p)
  PROVE  /\ p # q => at'[q] = at[q]
         /\ KitStep(p) \/ Quit(p) => at[p] # "off"
<1>1. p # q => at'[q] = at[q]
  BY DEF KitTypeOK, Enter, KitStep, Quit, Go, Proceed, Exists, CreateCA, CreateIdentity, ReadRoot, Sign,
     SignRaises, OpenCrt, WriteCrt, OpenKey, WriteKey, LoadRoot, LoadKey, LoadCrt
<1>2. KitStep(p) \/ Quit(p) => at[p] # "off"
  BY DEF KitStep, Quit, Exists, CreateCA, CreateIdentity, ReadRoot, Sign,
     SignRaises, OpenCrt, WriteCrt, OpenKey, WriteKey, LoadRoot, LoadKey, LoadCrt
<1> QED
  BY <1>1, <1>2

(* A stopped agent is silent until it is started again, but for a gRPC     *)
(* agent that was stopped while it started (V2Agent.stop).                 *)
THEOREM StoppedAreSilent == Spec => SilentAfterStop
<1>1. FleetInv /\ [Next]_vars =>
        [\A a \in stopped \cap stopped' : SpeaksUp(a) => a \in overGrpc \cap crossed]_vars
  <2> SUFFICES ASSUME FleetInv, Next, NEW a \in stopped \cap stopped', SpeaksUp(a)
               PROVE  a \in overGrpc \cap crossed
    OBVIOUS
  <2> USE FleetAssumption, Messages
  <2>1. FleetTypeOK /\ KitTypeOK /\ a \in Agent /\ a \in Proc /\ Server \in Proc \ {a} /\ Halted(a)
    BY DEF FleetInv, TypeOK, FleetTypeOK
  <2>2. ASSUME NEW b \in Agent, Start(b) \/ Stop(b) \/ AgentDies(b) \/ BeatConnects(b) \/ ConnectStep(b)
        PROVE  a \in overGrpc \cap crossed
    <3>1. b \in Proc /\ (b # a => at'[a] = at[a])
      <4>1. b \in Proc /\ (Enter(b) \/ KitStep(b) \/ Quit(b) \/ at' = at)
        BY <2>2, FleetAssumption DEF Start, Stop, AgentDies, BeatConnects, ConnectStep, Connect, kitVars
      <4> HIDE <2>2
      <4> QED
        BY <2>1, <4>1, OneStage
    <3>2. CASE Start(b)
      BY <2>1, <3>1, <3>2 DEF Start, SpeaksUp, FleetTypeOK
    <3>3. CASE Stop(b)
      BY <2>1, <3>1, <3>3, OneStage DEF Stop, Reaches, SpeaksUp, FleetTypeOK, Enters
    <3>4. CASE AgentDies(b)
      BY <2>1, <3>1, <3>4, OneStage DEF AgentDies, SpeaksUp, FleetTypeOK
    <3>5. CASE BeatConnects(b)
      BY <2>1, <3>1, <3>5 DEF BeatConnects, SpeaksUp, FleetTypeOK, fleetVars, Halted
    <3>6. CASE ConnectStep(b)
      BY <2>1, <3>1, <3>6, OneStage DEF ConnectStep, SpeaksUp, FleetTypeOK
    <3> QED
      BY <2>2, <3>2, <3>3, <3>4, <3>5, <3>6
  <2>3. ASSUME NEW b \in Agent, \/ RegisterRpc(b) \/ RegisterRpcFails(b) \/ Continue(b)
                                \/ BeatHttp(b) \/ BeatGrpc(b)
        PROVE  a \in overGrpc \cap crossed
    <3>1. at' = at
      BY <2>3 DEF RegisterRpc, RegisterRpcFails, Continue, BeatHttp, BeatGrpc, kitVars
    <3>2. ~(Msg("beat", a) \in net' \ net)
      BY <2>1, <2>3 DEF RegisterRpc, RegisterRpcFails, Continue, BeatHttp, BeatGrpc, Halted
    <3>3. a \in grpcRegistry' \ grpcRegistry
      BY <3>1, <3>2, <2>1 DEF SpeaksUp, KitTypeOK
    <3>4. b = a /\ a \in overGrpc /\ (phase[a] = "starting" \/ a \in loop)
      BY <2>3, <3>3 DEF RegisterRpc, RegisterRpcFails, Continue, BeatHttp, BeatGrpc, Reaches
    <3> QED
      BY <2>1, <3>4 DEF Halted
  <2>4. ASSUME \/ \E m \in Message : Deliver(m) \/ Lose(m)
               \/ \E S \in {Agent} \cup {{b} : b \in Agent} : Forget(S)
        PROVE  FALSE
    <3>1. at' = at /\ grpcRegistry' = grpcRegistry /\ net' \subseteq net
      BY <2>4 DEF Deliver, Lose, Forget, kitVars
    <3> QED
      BY <3>1 DEF SpeaksUp
  <2>5. ASSUME ServerStarts \/ ServerStep \/ ServerEnds PROVE FALSE
    <3>1. at'[a] = at[a] /\ grpcRegistry' \subseteq grpcRegistry /\ net' = net
      BY <2>1, <2>5, OneStage DEF ServerStarts, ServerStep, ServerEnds, fleetVars
    <3> QED
      BY <3>1 DEF SpeaksUp
  <2> QED
    BY <2>2, <2>3, <2>4, <2>5 DEF Next, AgentStep
<1> QED
  BY <1>1, FleetIsSound, PTL DEF Spec, SilentAfterStop
=============================================================================
