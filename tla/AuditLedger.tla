---------------------------- MODULE AuditLedger ----------------------------
(***************************************************************************)
(* The hash-chained audit ledger of services/audit/ledger.py.  log_event   *)
(* selects the newest committed event, awaits, then inserts an event whose *)
(* previous_event_hash is that event's hash, and commits: a read and a     *)
(* write of one request with other requests between them.  verify_chain    *)
(* walks the table in timestamp order and recomputes every hash.           *)
(*                                                                         *)
(* The timestamp is the writer's wall clock when the INSERT is flushed, so *)
(* it may lie before a timestamp another process has already committed.    *)
(* Two events never carry the same one here (it has microseconds).  Only   *)
(* the order of timestamps matters, and 1..MaxTime is that order.          *)
(*                                                                         *)
(* Beside the code there is somebody with access to the table, who alters  *)
(* or removes any row at any time: what verify_chain is there to detect.   *)
(***************************************************************************)
EXTENDS Naturals

CONSTANTS
  Writer,     \* the requests that call log_event, one call at a time each
  Content,    \* what an event says: its actor, action and payload
  MaxTime     \* bound: how many timestamps there are

ASSUME LedgerAssumption == MaxTime \in Nat

VARIABLES
  rows,      \* the committed rows of audit_events
  pc,        \* where each writer is in log_event
  tip,       \* prev_hash of each writer: the newest hash it has read
  draft,     \* the flushed, uncommitted row of each writer
  logged,    \* history: the rows that were ever committed, as committed
  kept,      \* history: what was logged and not cut off at the end of the table
  orderly    \* history: nothing overlapped a log_event, clocks never went back

ledgerVars == <<rows, pc, tip, draft, logged, kept, orderly>>

----------------------------------------------------------------------------
Time == 1..MaxTime

(* GENESIS_HASH, a word that is no digest.                                 *)
Genesis == <<>>

(* compute_event_hash: SHA-256 of the content and the previous hash, taken *)
(* as free of collisions.                                                  *)
Hash(content, prev) == <<content, prev>>

(* Mutant of Row: the arguments are passed in the wrong order.             *)
RowSwapped(ts, content, prev) ==
  [ts |-> ts, content |-> prev, prev |-> content,
   hash |-> Hash(prev, content)]

(* An audit_events row; its event_hash is what log_event computes.         *)
Row(ts, content, prev) ==
  [ts |-> ts, content |-> content, prev |-> prev,
   hash |-> Hash(content, prev)]

IsRow(r) == r.ts \in Time /\ r.content \in Content

(* The row with other content and everything else as it was.               *)
Altered(r, content) ==
  [ts |-> r.ts, content |-> content, prev |-> r.prev, hash |-> r.hash]

(* order_by(desc(timestamp)).limit(1)                                      *)
Newest(R) == CHOOSE r \in R : \A s \in R : s.ts \leq r.ts

TipHash(R) == IF R = {} THEN Genesis ELSE Newest(R).hash

LedgerTypeOK ==
  /\ \A r \in rows \cup logged : IsRow(r)
  /\ kept \subseteq logged
  /\ pc \in [Writer -> {"idle", "read", "flushed"}]
  /\ DOMAIN tip = Writer
  /\ DOMAIN draft = Writer
  /\ \A w \in Writer : pc[w] = "flushed" => IsRow(draft[w])
  /\ orderly \in BOOLEAN

LedgerInit ==
  /\ rows = {}
  /\ pc = [w \in Writer |-> "idle"]
  /\ tip = [w \in Writer |-> Genesis]
  /\ draft = [w \in Writer |-> Genesis]
  /\ logged = {}
  /\ kept = {}
  /\ orderly = TRUE

----------------------------------------------------------------------------
(* Mutant of ReadTip: the select sees rows that are not committed.         *)
ReadTipDirty(w) ==
  /\ pc[w] = "idle"
  /\ pc' = [pc EXCEPT ![w] = "read"]
  /\ tip' = [tip EXCEPT ![w] =
               TipHash(rows \cup {draft[x] : x \in {y \in Writer : pc[y] = "flushed"}})]
  /\ orderly' = (orderly /\ \A x \in Writer : pc[x] = "idle")
  /\ UNCHANGED <<rows, draft, logged, kept>>

(* Mutant of ReadTip: the select without desc().                           *)
ReadTipOldest(w) ==
  /\ pc[w] = "idle"
  /\ pc' = [pc EXCEPT ![w] = "read"]
  /\ tip' = [tip EXCEPT ![w] =
               IF rows = {} THEN Genesis
               ELSE (CHOOSE r \in rows : \A s \in rows : r.ts \leq s.ts).hash]
  /\ orderly' = (orderly /\ \A x \in Writer : pc[x] = "idle")
  /\ UNCHANGED <<rows, draft, logged, kept>>

(* log_event, up to its first await: select the newest event.              *)
ReadTip(w) ==
  /\ pc[w] = "idle"
  /\ pc' = [pc EXCEPT ![w] = "read"]
  /\ tip' = [tip EXCEPT ![w] = TipHash(rows)]
  /\ orderly' = (orderly /\ \A x \in Writer : pc[x] = "idle")
  /\ UNCHANGED <<rows, draft, logged, kept>>

TimesTaken ==
  {r.ts : r \in rows} \cup {r.ts : r \in logged}
    \cup {draft[w].ts : w \in {x \in Writer : pc[x] = "flushed"}}

(* commit() flushes: the INSERT goes out with the default timestamp.       *)
Flush(w, content, ts) ==
  /\ pc[w] = "read"
  /\ ts \notin TimesTaken
  /\ pc' = [pc EXCEPT ![w] = "flushed"]
  /\ draft' = [draft EXCEPT ![w] = Row(ts, content, tip[w])]
  /\ orderly' = (orderly /\ \A r \in logged : r.ts < ts)
  /\ UNCHANGED <<rows, tip, logged, kept>>

(* log_event is over, and its local variables with it.                     *)
Done(w) ==
  /\ pc' = [pc EXCEPT ![w] = "idle"]
  /\ tip' = [tip EXCEPT ![w] = Genesis]
  /\ draft' = [draft EXCEPT ![w] = Genesis]

(* The commit: the row becomes visible to the other sessions.              *)
Commit(w) ==
  /\ pc[w] = "flushed"
  /\ rows' = rows \cup {draft[w]}
  /\ logged' = logged \cup {draft[w]}
  /\ kept' = kept \cup {draft[w]}
  /\ Done(w)
  /\ UNCHANGED orderly

(* The request dies, or the database refuses: nothing is committed.        *)
Abandon(w) ==
  /\ pc[w] # "idle"
  /\ Done(w)
  /\ UNCHANGED <<rows, logged, kept, orderly>>

(* Somebody rewrites the content of a row, hashes left as they are.        *)
Alter(r, content) ==
  /\ r \in rows
  /\ content # r.content
  /\ rows' = (rows \ {r}) \cup {Altered(r, content)}
  /\ UNCHANGED <<pc, tip, draft, logged, kept, orderly>>

(* Somebody removes a row.  Removing the newest one takes the end off the  *)
(* table; it is out of turn while a call is between its select and commit. *)
Remove(r) ==
  /\ r \in rows
  /\ rows' = rows \ {r}
  /\ kept' = {t \in kept : \E s \in rows \ {r} : t.ts \leq s.ts}
  /\ orderly' = (orderly /\ (\/ \E s \in rows : r.ts < s.ts
                             \/ \A w \in Writer : pc[w] = "idle"))
  /\ UNCHANGED <<pc, tip, draft, logged>>

LedgerNext ==
  \/ \E w \in Writer : \/ ReadTip(w)
                       \/ \E c \in Content, t \in Time : Flush(w, c, t)
                       \/ Commit(w)
                       \/ Abandon(w)
  \/ \E r \in rows : Remove(r) \/ \E c \in Content : Alter(r, c)

LedgerSpec == LedgerInit /\ [][LedgerNext]_ledgerVars

----------------------------------------------------------------------------
(* verify_chain: the walk carries prev_hash from row to row, so what it    *)
(* expects of a row is the hash stored in the row before it.               *)
Before(R, r) == {s \in R : s.ts < r.ts}

Expected(R, r) == TipHash(Before(R, r))

(* Mutant of HashMismatch: hashes are compared, never recomputed.          *)
HashTrusted(R, r) == FALSE

(* "Hash mismatch at event"                                                *)
HashMismatch(R, r) == r.hash # Hash(r.content, Expected(R, r))

(* "Chain broken at event"                                                 *)
ChainBroken(R, r) == r.prev # Expected(R, r)

(* The "valid" of verify_chain's report: no issue of either kind.          *)
ChainValid(R) == \A r \in R : ~HashMismatch(R, r) /\ ~ChainBroken(R, r)

----------------------------------------------------------------------------
(* A ledger nobody has tampered with, but for taking events off its end,   *)
(* verifies, as long as the calls of log_event came one after the other    *)
(* and the clocks did not go back.                                         *)
OrderlyLedgerVerifies == orderly /\ rows = kept => ChainValid(rows)

(* Any alteration, and any gap, keeps verify_chain from answering "valid", *)
(* also after more events are logged on top and whatever else is altered   *)
(* or removed.  What escapes it is the removal of the newest events.       *)
TamperEvident == orderly /\ rows # kept => ~ChainValid(rows)

(* Even when calls overlap, no event hangs in the air: it links to the     *)
(* genesis or to an event that was committed.  A request that dies leaves  *)
(* no gap behind (log_event links to committed events only).               *)
NoDanglingLink ==
  \A r \in logged : r.prev = Genesis \/ \E s \in logged : s.hash = r.prev

(* What the docstrings promise (ledger.py:21-23 and 51): every event is    *)
(* linked to the previous event hash, and an issue in verify_chain's       *)
(* report means tampering or a gap.                                        *)
OnlyTamperingIsReported == rows = logged => ChainValid(rows)
=============================================================================
