------------------------------ MODULE CertKit ------------------------------
(***************************************************************************)
(* The mTLS certificate kit (services/v2_agent/mtls.py) and the credentials *)
(* the gRPC server and client load from it (grpc_server.py, grpc_client.py).*)
(*                                                                         *)
(* Processes share a directory.  Each makes sure that the CA's pair of     *)
(* files is there, then its own identity's pair, and then reads what it    *)
(* needs; nothing locks the directory.  A file is written by opening it,   *)
(* which empties it, and writing it, so others may read it empty, and a    *)
(* process that dies in between leaves it so.  A key pair is a number, and *)
(* a certificate the number of its key and of the key it is signed with.   *)
(***************************************************************************)
EXTENDS Naturals

CONSTANTS
  Proc,        \* the processes that share the directory
  Identity,    \* the identities: nexora-server, nexora-client
  IdentityOf,  \* the identity each process asks for
  CA,          \* the owner of ca.pem and ca.key
  Missing,     \* a file that does not exist, or was not read
  Torn,        \* a file that was opened for writing and not written
  RootFirst,   \* the processes that load the root before their own pair
  MaxPairs     \* bound: how many key pairs are generated

ASSUME KitAssumption ==
  /\ IdentityOf \in [Proc -> Identity]
  /\ CA \notin Identity
  /\ RootFirst \subseteq Proc
  /\ MaxPairs \in Nat
  /\ Missing # Torn
  /\ {Missing, Torn} \cap (Nat \cup [pair : Nat, by : Nat]) = {}

VARIABLES
  disk,       \* the two files of each owner
  at,         \* where each process is in ensure_cert_kit and after it
  doing,      \* the owner whose pair it makes sure of
  mem,        \* what it has read, or generated and not yet written
  made,       \* how many key pairs have been generated
  overlapped  \* history: two processes created the same pair at a time

kitVars == <<disk, at, doing, mem, made, overlapped>>

----------------------------------------------------------------------------
Owner == Identity \cup {CA}

Pair == 1..MaxPairs

Crt == [pair : Pair, by : Pair]

Blank == {Missing, Torn}

Nothing == [root |-> Missing, crt |-> Missing, key |-> Missing]

Creating == {"readRoot", "readSigner", "openCrt", "writeCrt", "openKey", "writeKey"}

Loading == {"loadRoot", "loadKey", "loadCrt"}

KitTypeOK ==
  /\ disk \in [Owner -> [crt : Crt \cup Blank, key : Pair \cup Blank]]
  /\ at \in [Proc -> {"off", "check", "up"} \cup Creating \cup Loading]
  /\ doing \in [Proc -> Owner]
  /\ mem \in [Proc -> [root : Crt \cup Blank, crt : Crt \cup Blank, key : Pair \cup Blank]]
  /\ made \in 0..MaxPairs
  /\ overlapped \in BOOLEAN

KitInit ==
  /\ disk = [o \in Owner |-> [crt |-> Missing, key |-> Missing]]
  /\ at = [p \in Proc |-> "off"]
  /\ doing = [p \in Proc |-> CA]
  /\ mem = [p \in Proc |-> Nothing]
  /\ made = 0
  /\ overlapped = FALSE

----------------------------------------------------------------------------
Go(p, stage) == at' = [at EXCEPT ![p] = stage]

(* ensure_cert_kit is called; an older channel's credentials are dropped.  *)
Enter(p) ==
  /\ at[p] \in {"off", "up"}
  /\ Go(p, "check")
  /\ doing' = [doing EXCEPT ![p] = CA]
  /\ mem' = [mem EXCEPT ![p] = Nothing]
  /\ UNCHANGED <<disk, made, overlapped>>

Absent(o) == disk[o].crt = Missing \/ disk[o].key = Missing

(* What follows once the pair of doing[p] is there: the CA's is followed   *)
(* by the identity's, and that by loading.                                 *)
Proceed(p) ==
  /\ Go(p, IF doing[p] = CA THEN "check" ELSE IF p \in RootFirst THEN "loadRoot" ELSE "loadKey")
  /\ doing' = [doing EXCEPT ![p] = IdentityOf[p]]
  /\ mem' = [mem EXCEPT ![p] = Nothing]

Exists(p) ==
  /\ at[p] = "check"
  /\ ~Absent(doing[p])
  /\ Proceed(p)
  /\ UNCHANGED <<disk, made, overlapped>>

(* Another process is creating the same pair.                              *)
Contended(p) == \E q \in Proc \ {p} : at[q] \in Creating /\ doing[q] = doing[p]

(* Mutant of CreateCA: every new identity begins with a new CA.            *)
CreateCAAnew(p) ==
  /\ at[p] = "check" /\ doing[p] = CA /\ (Absent(CA) \/ Absent(IdentityOf[p]))
  /\ made < MaxPairs
  /\ made' = made + 1
  /\ Go(p, "openCrt")
  /\ mem' = [mem EXCEPT ![p] =
       [root |-> Missing, crt |-> [pair |-> made + 1, by |-> made + 1], key |-> made + 1]]
  /\ overlapped' = (overlapped \/ Contended(p))
  /\ UNCHANGED <<disk, doing>>

(* A CA is generated on the spot.                                          *)
CreateCA(p) ==
  /\ at[p] = "check" /\ doing[p] = CA /\ Absent(CA)
  /\ made < MaxPairs
  /\ made' = made + 1
  /\ Go(p, "openCrt")
  /\ mem' = [mem EXCEPT ![p] =
       [root |-> Missing, crt |-> [pair |-> made + 1, by |-> made + 1], key |-> made + 1]]
  /\ overlapped' = (overlapped \/ Contended(p))
  /\ UNCHANGED <<disk, doing>>

(* For an identity the CA's files are read back first.                     *)
CreateIdentity(p) ==
  /\ at[p] = "check" /\ doing[p] # CA /\ Absent(doing[p])
  /\ Go(p, "readRoot")
  /\ overlapped' = (overlapped \/ Contended(p))
  /\ UNCHANGED <<disk, doing, mem, made>>

ReadRoot(p) ==
  /\ at[p] = "readRoot"
  /\ Go(p, "readSigner")
  /\ mem' = [mem EXCEPT ![p].root = disk[CA].crt]
  /\ UNCHANGED <<disk, doing, made, overlapped>>

(* generate_identity_cert: signed with the CA key that was read.           *)
Sign(p) ==
  /\ at[p] = "readSigner"
  /\ mem[p].root \notin Blank /\ disk[CA].key \notin Blank
  /\ made < MaxPairs
  /\ made' = made + 1
  /\ Go(p, "openCrt")
  /\ mem' = [mem EXCEPT ![p] =
       [root |-> Missing, crt |-> [pair |-> made + 1, by |-> disk[CA].key], key |-> made + 1]]
  /\ UNCHANGED <<disk, doing, overlapped>>

(* It raises when one of the two cannot be parsed.                         *)
SignRaises(p) ==
  /\ at[p] = "readSigner"
  /\ mem[p].root \in Blank \/ disk[CA].key \in Blank
  /\ Go(p, "off")
  /\ mem' = [mem EXCEPT ![p] = Nothing]
  /\ UNCHANGED <<disk, doing, made, overlapped>>

(* write_pem of the certificate, then of the key.                          *)
OpenCrt(p) ==
  /\ at[p] = "openCrt"
  /\ disk' = [disk EXCEPT ![doing[p]].crt = Torn]
  /\ Go(p, "writeCrt")
  /\ UNCHANGED <<doing, mem, made, overlapped>>

WriteCrt(p) ==
  /\ at[p] = "writeCrt"
  /\ disk' = [disk EXCEPT ![doing[p]].crt = mem[p].crt]
  /\ Go(p, "openKey")
  /\ UNCHANGED <<doing, mem, made, overlapped>>

OpenKey(p) ==
  /\ at[p] = "openKey"
  /\ disk' = [disk EXCEPT ![doing[p]].key = Torn]
  /\ Go(p, "writeKey")
  /\ UNCHANGED <<doing, mem, made, overlapped>>

WriteKey(p) ==
  /\ at[p] = "writeKey"
  /\ disk' = [disk EXCEPT ![doing[p]].key = mem[p].key]
  /\ Proceed(p)
  /\ UNCHANGED <<made, overlapped>>

(* The credentials are read file by file: the server reads its key, its    *)
(* certificate and the root, the client the root first.                    *)
LoadRoot(p) ==
  /\ at[p] = "loadRoot"
  /\ mem' = [mem EXCEPT ![p].root = disk[CA].crt]
  /\ Go(p, IF p \in RootFirst THEN "loadKey" ELSE "up")
  /\ UNCHANGED <<disk, doing, made, overlapped>>

LoadKey(p) ==
  /\ at[p] = "loadKey"
  /\ mem' = [mem EXCEPT ![p].key = disk[IdentityOf[p]].key]
  /\ Go(p, "loadCrt")
  /\ UNCHANGED <<disk, doing, made, overlapped>>

LoadCrt(p) ==
  /\ at[p] = "loadCrt"
  /\ mem' = [mem EXCEPT ![p].crt = disk[IdentityOf[p]].crt]
  /\ Go(p, IF p \in RootFirst THEN "up" ELSE "loadRoot")
  /\ UNCHANGED <<disk, doing, made, overlapped>>

(* The process dies, or closes what it has opened with its credentials:    *)
(* the files stay as they are.                                             *)
Quit(p) ==
  /\ at[p] # "off"
  /\ Go(p, "off")
  /\ mem' = [mem EXCEPT ![p] = Nothing]
  /\ UNCHANGED <<disk, doing, made, overlapped>>

KitStep(p) ==
  \/ Exists(p) \/ CreateCA(p) \/ CreateIdentity(p)
  \/ ReadRoot(p) \/ Sign(p) \/ SignRaises(p)
  \/ OpenCrt(p) \/ WriteCrt(p) \/ OpenKey(p) \/ WriteKey(p)
  \/ LoadRoot(p) \/ LoadKey(p) \/ LoadCrt(p)

KitNext == \E p \in Proc : Enter(p) \/ KitStep(p) \/ Quit(p)

KitSpec == KitInit /\ [][KitNext]_kitVars

----------------------------------------------------------------------------
(* The credentials of p could be read in full.                             *)
Equipped(p) == at[p] = "up" /\ {mem[p].root, mem[p].crt, mem[p].key} \cap Blank = {}

(* p proves its identity to q.                                             *)
Accepts(q, p) == mem[p].crt.by = mem[q].root.pair /\ mem[p].crt.pair = mem[p].key

(* A mutual TLS handshake of the two succeeds.                             *)
Handshake(p, q) == Equipped(p) /\ Equipped(q) /\ Accepts(p, q) /\ Accepts(q, p)

(* "The CA is generated once and reused across identities so an already    *)
(* running server does not get invalidated when a new client identity is   *)
(* created" (ensure_cert_kit): whatever processes die wherever in writing  *)
(* the kit, and start again, all credentials that could be read verify     *)
(* each other, as long as no two processes created the same pair at once.  *)
Trust ==
  ~overlapped => \A p, q \in Proc : Equipped(p) /\ Equipped(q) => Handshake(p, q)
=============================================================================
