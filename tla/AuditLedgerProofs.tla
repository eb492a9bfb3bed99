------------------------- MODULE AuditLedgerProofs -------------------------
(***************************************************************************)
(* Proof that a ledger nobody altered verifies as long as its writers took *)
(* turns, for any number of writers, contents and timestamps.  The chain   *)
(* of the rows as they were logged, less what was cut off at the end, is   *)
(* valid (ChainOK) because a writer that took its turn appends after the   *)
(* newest row and links to it (TurnOK); what it links to is read from the  *)
(* table, whose newest row has the time and hash of one that was logged,   *)
(* altered or not (Descends, SameTip).                                     *)
(*                                                                         *)
(* The same fact about the tip shows that no logged event hangs in the     *)
(* air, whether or not the writers took turns (Links, ReadersLink).        *)
(*                                                                         *)
(* What was altered, or has a gap, does not verify, because the hashes of  *)
(* an orderly chain differ (HashesDiffer) and tampering leaves rows the    *)
(* time, the link and the hash of rows that were logged (Genuine).         *)
(***************************************************************************)
EXTENDS AuditLedger, WellFoundedInduction, TLAPS

IsLast(m, R) == m \in R /\ \A s \in R : s.ts \leq m.ts

UniqueTimes(R) == \A r, s \in R : r.ts = s.ts => r = s

SameTip ==
  \/ rows = {} /\ kept = {}
  \/ \E m \in rows, n \in kept :
       /\ IsLast(m, rows) /\ IsLast(n, kept)
       /\ m.ts = n.ts /\ m.hash = n.hash

(* A row is one that was logged, but for its content.                      *)
Descends ==
  \A r \in rows : \E l \in kept : r.ts = l.ts /\ r.prev = l.prev /\ r.hash = l.hash

(* A draft is the row its writer will link with the hash it has read, and  *)
(* its timestamp is its own.                                               *)
DraftOK ==
  \A w \in Writer : pc[w] = "flushed" =>
    /\ draft[w] = Row(draft[w].ts, draft[w].content, tip[w])
    /\ \A r \in rows \cup kept : r.ts # draft[w].ts
    /\ \A x \in Writer : x # w /\ pc[x] = "flushed"
         => draft[x].ts # draft[w].ts

TurnOK ==
  orderly => \A w \in Writer : pc[w] # "idle" =>
    /\ \A x \in Writer : x # w => pc[x] = "idle"
    /\ tip[w] = TipHash(kept)
    /\ pc[w] = "flushed" => \A r \in kept : r.ts < draft[w].ts

ChainOK == orderly => ChainValid(kept)

IInv ==
  /\ LedgerTypeOK
  /\ UniqueTimes(rows) /\ UniqueTimes(kept)
  /\ SameTip
  /\ Descends
  /\ DraftOK
  /\ TurnOK
  /\ ChainOK

----------------------------------------------------------------------------
(* The newest row of a set with a last row and no two equal times.         *)
LEMMA NewestIsLast ==
  ASSUME NEW R, NEW m, IsLast(m, R), UniqueTimes(R),
         \A r \in R : r.ts \in Nat
  PROVE  R # {} /\ Newest(R) = m /\ TipHash(R) = m.hash
<1>1. \A s \in R : s.ts \leq Newest(R).ts /\ Newest(R) \in R
  BY DEF Newest, IsLast
<1>2. Newest(R) \in R /\ Newest(R).ts = m.ts
  BY <1>1 DEF IsLast
<1>3. Newest(R) = m
  BY <1>2 DEF UniqueTimes, IsLast
<1> QED BY <1>3 DEF TipHash, IsLast

(* Timestamps are numbers.                                                 *)
LEMMA TimesAreNat ==
  ASSUME LedgerTypeOK
  PROVE  \A r \in rows \cup kept : r.ts \in Nat
BY LedgerAssumption DEF LedgerTypeOK, IsRow, Time

(* log_event reads from the table the hash of the newest row kept.         *)
LEMMA TipsAgree ==
  ASSUME LedgerTypeOK, UniqueTimes(rows), UniqueTimes(kept), SameTip
  PROVE  TipHash(rows) = TipHash(kept)
<1>1. CASE rows = {} /\ kept = {}
  BY <1>1
<1>2. ASSUME NEW m \in rows, NEW n \in kept,
             IsLast(m, rows), IsLast(n, kept), m.hash = n.hash
      PROVE  TipHash(rows) = TipHash(kept)
  BY <1>2, NewestIsLast, TimesAreNat
<1> QED BY <1>1, <1>2 DEF SameTip

(* Appending a row that comes after every other keeps a chain valid if it  *)
(* links to the tip.                                                       *)
LEMMA ChainExtends ==
  ASSUME NEW L, NEW d, ChainValid(L),
         \A r \in L : r.ts \in Nat /\ r.ts < d.ts,
         d.ts \in Nat,
         d.prev = TipHash(L), d.hash = Hash(d.content, d.prev)
  PROVE  ChainValid(L \cup {d})
<1>1. Before(L \cup {d}, d) = L
  BY DEF Before
<1>2. ~HashMismatch(L \cup {d}, d) /\ ~ChainBroken(L \cup {d}, d)
  BY <1>1 DEF HashMismatch, ChainBroken, Expected
<1>3. ASSUME NEW r \in L
      PROVE  ~HashMismatch(L \cup {d}, r) /\ ~ChainBroken(L \cup {d}, r)
  <2>1. Before(L \cup {d}, r) = Before(L, r)
    BY DEF Before
  <2> QED BY <2>1 DEF HashMismatch, ChainBroken, Expected, ChainValid
<1> QED BY <1>2, <1>3 DEF ChainValid

(* A set of numbers has a least one.                                       *)
LEMMA LeastNumber ==
  ASSUME NEW S, S \subseteq Nat, S # {}
  PROVE  \E n \in S : \A m \in S : n <= m
<1>1. IsWellFoundedOn(OpToRel(<, Nat), Nat)
  BY NatLessThanWellFounded
<1>2. \A m, n \in Nat : m < n => <<m, n>> \in OpToRel(<, Nat)
  BY DEF OpToRel
<1>3. PICK n \in S : \A m \in S : ~(<<m, n>> \in OpToRel(<, Nat))
  BY <1>1, WFMin
<1>4. ASSUME NEW m \in S PROVE n <= m
  <2>1. m \in Nat /\ n \in Nat
    OBVIOUS
  <2>2. ~(m < n)
    BY <1>2, <1>3, <2>1
  <2> QED
    BY <2>1, <2>2
<1> QED
  BY <1>4

(* Among some rows there is a first one.                                   *)
LEMMA FirstRow ==
  ASSUME NEW R, R # {}, \A r \in R : r.ts \in Time
  PROVE  \E f \in R : \A s \in R : f.ts <= s.ts
<1> DEFINE S == {r.ts : r \in R}
<1>1. S \subseteq Nat /\ S # {}
  BY LedgerAssumption DEF Time
<1>2. PICK n \in S : \A m \in S : n <= m
  BY <1>1, LeastNumber
<1> QED
  BY <1>2

(* Among some rows there is a last one, which verify_chain comes to last.  *)
LEMMA LastRow ==
  ASSUME NEW R, R # {}, \A r \in R : r.ts \in Time
  PROVE  \E m : IsLast(m, R)
<1> DEFINE S == {MaxTime - r.ts : r \in R}
<1>1. S \subseteq Nat /\ S # {}
  BY LedgerAssumption DEF Time
<1>2. PICK n \in S : \A m \in S : n <= m
  BY <1>1, LeastNumber
<1>3. PICK m \in R : n = MaxTime - m.ts
  BY <1>2
<1>4. ASSUME NEW s \in R PROVE s.ts <= m.ts
  <2>1. MaxTime - m.ts <= MaxTime - s.ts
    BY <1>2, <1>3
  <2> QED
    BY <2>1, LedgerAssumption DEF Time
<1> QED
  BY <1>3, <1>4 DEF IsLast

----------------------------------------------------------------------------
(* The empty ledger satisfies the invariant.                               *)
LEMMA InitIInv == LedgerInit => IInv
BY DEF LedgerInit, IInv, LedgerTypeOK, UniqueTimes, SameTip, Descends, DraftOK, TurnOK,
       ChainOK, ChainValid

(* log_event reads the tip: with every other writer idle, it is the tip of *)
(* the rows logged and not cut off.                                        *)
LEMMA ReadTipIInv ==
  ASSUME IInv, NEW w \in Writer, ReadTip(w)
  PROVE  IInv'
<1> USE DEF IInv
<1>1. /\ rows' = rows /\ kept' = kept /\ logged' = logged /\ draft' = draft
      /\ pc' = [pc EXCEPT ![w] = "read"]
      /\ tip' = [tip EXCEPT ![w] = TipHash(rows)]
      /\ orderly' = (orderly /\ \A x \in Writer : pc[x] = "idle")
      /\ pc[w] = "idle"
  BY DEF ReadTip
<1>2. LedgerTypeOK'
  BY <1>1 DEF LedgerTypeOK
<1>3. UniqueTimes(rows)' /\ UniqueTimes(kept)' /\ SameTip' /\ Descends'
  BY <1>1 DEF UniqueTimes, SameTip, IsLast, Descends
<1>4. DraftOK'
  BY <1>1 DEF DraftOK, LedgerTypeOK
<1>5. TurnOK'
  <2> SUFFICES ASSUME orderly', NEW x \in Writer, pc'[x] # "idle"
               PROVE  /\ \A y \in Writer : y # x => pc'[y] = "idle"
                      /\ tip'[x] = TipHash(kept)'
                      /\ pc'[x] = "flushed"
                           => \A r \in kept' : r.ts < draft'[x].ts
    BY DEF TurnOK
  <2>1. x = w /\ pc'[x] = "read"
    BY <1>1 DEF LedgerTypeOK
  <2>2. tip'[x] = TipHash(kept)
    BY <1>1, <2>1, TipsAgree DEF LedgerTypeOK
  <2>3. \A y \in Writer : y # x => pc'[y] = "idle"
    BY <1>1, <2>1 DEF LedgerTypeOK
  <2>4. TipHash(kept)' = TipHash(kept)
    BY <1>1 DEF TipHash, Newest
  <2> QED BY <2>1, <2>2, <2>3, <2>4
<1>6. ChainOK'
  BY <1>1 DEF ChainOK, ChainValid, HashMismatch, ChainBroken, Expected, Before,
              TipHash, Newest
<1> QED BY <1>2, <1>3, <1>4, <1>5, <1>6

(* log_event flushes its row: the timestamp is a new one, and the link is  *)
(* the hash the writer has read.                                           *)
LEMMA FlushIInv ==
  ASSUME IInv, NEW w \in Writer, NEW c \in Content, NEW t \in Time,
         Flush(w, c, t)
  PROVE  IInv'
<1> USE DEF IInv
<1>1. /\ rows' = rows /\ kept' = kept /\ logged' = logged /\ tip' = tip
      /\ pc[w] = "read"
      /\ pc' = [pc EXCEPT ![w] = "flushed"]
      /\ draft' = [draft EXCEPT ![w] = Row(t, c, tip[w])]
      /\ orderly' = (orderly /\ \A r \in logged : r.ts < t)
      /\ kept \subseteq logged
  BY DEF Flush, LedgerTypeOK
<1>2. /\ \A r \in rows \cup kept : r.ts # t
      /\ \A x \in Writer : pc[x] = "flushed" => draft[x].ts # t
  BY DEF Flush, TimesTaken, LedgerTypeOK
<1>3. /\ draft'[w] = Row(t, c, tip[w]) /\ draft'[w].ts = t
      /\ draft'[w].content = c
      /\ \A x \in Writer : x # w => draft'[x] = draft[x] /\ pc'[x] = pc[x]
  BY <1>1 DEF LedgerTypeOK, Row
<1>4. LedgerTypeOK'
  <2>1. \A x \in Writer : pc'[x] = "flushed" => IsRow(draft'[x])
    BY <1>3 DEF IsRow, LedgerTypeOK
  <2> QED BY <1>1, <2>1 DEF LedgerTypeOK
<1>5. UniqueTimes(rows)' /\ UniqueTimes(kept)' /\ SameTip' /\ Descends'
  BY <1>1 DEF UniqueTimes, SameTip, IsLast, Descends
<1>6. DraftOK'
  BY <1>1, <1>2, <1>3 DEF DraftOK
<1>7. TurnOK'
  <2> SUFFICES ASSUME orderly', NEW x \in Writer, pc'[x] # "idle"
               PROVE  /\ \A y \in Writer : y # x => pc'[y] = "idle"
                      /\ tip'[x] = TipHash(kept)'
                      /\ pc'[x] = "flushed"
                           => \A r \in kept' : r.ts < draft'[x].ts
    BY DEF TurnOK
  <2>1. orderly /\ \A y \in Writer : y # w => pc[y] = "idle"
    BY <1>1 DEF TurnOK
  <2>2. x = w
    BY <1>3, <2>1
  <2>3. tip[w] = TipHash(kept)
    BY <1>1, <2>1 DEF TurnOK
  <2>4. TipHash(kept)' = TipHash(kept)
    BY <1>1 DEF TipHash, Newest
  <2> QED BY <1>1, <1>3, <2>1, <2>2, <2>3, <2>4
<1>8. ChainOK'
  BY <1>1 DEF ChainOK, ChainValid, HashMismatch, ChainBroken, Expected, Before,
              TipHash, Newest
<1> QED BY <1>4, <1>5, <1>6, <1>7, <1>8

(* The commit appends to the chain: the writer took its turn, so its row   *)
(* comes last and links to the tip.                                        *)
LEMMA CommitIInv ==
  ASSUME IInv, NEW w \in Writer, Commit(w)
  PROVE  IInv'
<1> USE DEF IInv
<1> DEFINE d == draft[w]
<1>1. /\ pc[w] = "flushed"
      /\ rows' = rows \cup {d} /\ kept' = kept \cup {d}
      /\ logged' = logged \cup {d}
      /\ pc' = [pc EXCEPT ![w] = "idle"]
      /\ tip' = [tip EXCEPT ![w] = Genesis]
      /\ draft' = [draft EXCEPT ![w] = Genesis]
      /\ orderly' = orderly
  BY DEF Commit, Done
<1>2. /\ d = Row(d.ts, d.content, tip[w])
      /\ \A r \in rows \cup kept : r.ts # d.ts
      /\ IsRow(d)
  BY <1>1 DEF DraftOK, LedgerTypeOK
<1>3. /\ d.ts \in Nat
      /\ \A r \in rows \cup kept : r.ts \in Nat
  BY <1>2, TimesAreNat, LedgerAssumption DEF IsRow, Time
<1>4. /\ d.prev = tip[w] /\ d.hash = Hash(d.content, d.prev)
  BY <1>2 DEF Row
<1>5. \A x \in Writer : x # w =>
        draft'[x] = draft[x] /\ pc'[x] = pc[x] /\ tip'[x] = tip[x]
  BY <1>1 DEF LedgerTypeOK
<1>6. pc'[w] = "idle"
  BY <1>1 DEF LedgerTypeOK
<1>7. LedgerTypeOK'
  <2>1. \A x \in Writer : pc'[x] = "flushed" => IsRow(draft'[x])
    BY <1>5, <1>6 DEF LedgerTypeOK
  <2> QED BY <1>1, <1>2, <2>1 DEF LedgerTypeOK
<1>8. UniqueTimes(rows)' /\ UniqueTimes(kept)'
  BY <1>1, <1>2 DEF UniqueTimes
<1>9. SameTip'
  <2>1. CASE rows = {} /\ kept = {}
    <3>1. IsLast(d, rows') /\ IsLast(d, kept')
      BY <1>1, <1>3, <2>1 DEF IsLast
    <3> QED BY <1>1, <3>1 DEF SameTip, IsLast
  <2>2. ASSUME NEW m \in rows, NEW n \in kept,
               IsLast(m, rows), IsLast(n, kept), m.ts = n.ts, m.hash = n.hash
        PROVE  SameTip'
    <3>1. CASE d.ts > m.ts
      <4>1. IsLast(d, rows') /\ IsLast(d, kept')
        BY <1>1, <1>3, <2>2, <3>1 DEF IsLast
      <4> QED BY <1>1, <4>1 DEF SameTip, IsLast
    <3>2. CASE ~(d.ts > m.ts)
      <4>1. IsLast(m, rows') /\ IsLast(n, kept')
        BY <1>1, <1>3, <2>2, <3>2 DEF IsLast
      <4> QED BY <1>1, <2>2, <4>1 DEF SameTip, IsLast
    <3> QED BY <3>1, <3>2
  <2> QED BY <2>1, <2>2 DEF SameTip
<1>10. DraftOK'
  <2> SUFFICES ASSUME NEW x \in Writer, pc'[x] = "flushed"
               PROVE  /\ draft'[x] = Row(draft'[x].ts, draft'[x].content, tip'[x])
                      /\ \A r \in rows' \cup kept' : r.ts # draft'[x].ts
                      /\ \A y \in Writer : y # x /\ pc'[y] = "flushed"
                           => draft'[y].ts # draft'[x].ts
    BY DEF DraftOK
  <2>1. x # w /\ pc[x] = "flushed"
    BY <1>5, <1>6
  <2>2. d.ts # draft[x].ts
    BY <1>1, <2>1 DEF DraftOK
  <2>3. \A y \in Writer : y # x /\ pc'[y] = "flushed"
          => draft'[y].ts # draft'[x].ts
    BY <1>5, <1>6, <2>1 DEF DraftOK
  <2> QED BY <1>1, <1>5, <2>1, <2>2, <2>3 DEF DraftOK
<1>11. orderly => \A x \in Writer : pc'[x] = "idle"
  BY <1>1, <1>5, <1>6 DEF TurnOK
<1>12. TurnOK'
  BY <1>1, <1>11 DEF TurnOK
<1>13. ChainOK'
  <2> SUFFICES ASSUME orderly PROVE ChainValid(kept \cup {d})
    BY <1>1 DEF ChainOK, ChainValid, HashMismatch, ChainBroken, Expected, Before,
                TipHash, Newest
  <2>1. /\ tip[w] = TipHash(kept)
        /\ \A r \in kept : r.ts < d.ts
    BY <1>1 DEF TurnOK
  <2> QED BY <1>3, <1>4, <2>1, ChainExtends DEF ChainOK
<1>14. Descends'
  BY <1>1 DEF Descends
<1> QED BY <1>7, <1>8, <1>9, <1>10, <1>12, <1>13, <1>14

(* A call that dies leaves the table as it was.                            *)
LEMMA AbandonIInv ==
  ASSUME IInv, NEW w \in Writer, Abandon(w)
  PROVE  IInv'
<1> USE DEF IInv
<1>1. /\ rows' = rows /\ kept' = kept /\ logged' = logged /\ orderly' = orderly
      /\ pc' = [pc EXCEPT ![w] = "idle"]
      /\ tip' = [tip EXCEPT ![w] = Genesis]
      /\ draft' = [draft EXCEPT ![w] = Genesis]
  BY DEF Abandon, Done
<1>2. /\ \A x \in Writer : x # w =>
            draft'[x] = draft[x] /\ pc'[x] = pc[x] /\ tip'[x] = tip[x]
      /\ pc'[w] = "idle"
  BY <1>1 DEF LedgerTypeOK
<1>3. LedgerTypeOK'
  <2>1. \A x \in Writer : pc'[x] = "flushed" => IsRow(draft'[x])
    BY <1>2 DEF LedgerTypeOK
  <2> QED BY <1>1, <2>1 DEF LedgerTypeOK
<1>4. UniqueTimes(rows)' /\ UniqueTimes(kept)' /\ SameTip' /\ Descends'
  BY <1>1 DEF UniqueTimes, SameTip, IsLast, Descends
<1>5. DraftOK'
  BY <1>1, <1>2 DEF DraftOK
<1>6. TipHash(kept)' = TipHash(kept)
  BY <1>1 DEF TipHash, Newest
<1>7. TurnOK'
  BY <1>1, <1>2, <1>6 DEF TurnOK
<1>8. ChainOK'
  BY <1>1 DEF ChainOK, ChainValid, HashMismatch, ChainBroken, Expected, Before,
              TipHash, Newest
<1> QED BY <1>3, <1>4, <1>5, <1>7, <1>8

(* Altering a row changes neither its time nor its hash, and nothing of    *)
(* what was logged.                                                        *)
LEMMA AlterIInv ==
  ASSUME IInv, NEW r \in rows, NEW c \in Content, Alter(r, c)
  PROVE  IInv'
<1> USE DEF IInv
<1> DEFINE a == Altered(r, c)
<1>1. /\ kept' = kept /\ logged' = logged /\ orderly' = orderly
      /\ pc' = pc /\ tip' = tip /\ draft' = draft
      /\ rows' = (rows \ {r}) \cup {a}
  BY DEF Alter
<1>2. a.ts = r.ts /\ a.hash = r.hash /\ a.prev = r.prev /\ a.content = c
  BY DEF Altered
<1> HIDE DEF a
<1>3. \A s \in rows \cup kept : s.ts \in Nat
  BY TimesAreNat
<1>4. LedgerTypeOK' /\ UniqueTimes(rows)' /\ UniqueTimes(kept)'
  BY <1>1, <1>2 DEF LedgerTypeOK, IsRow, UniqueTimes
<1>5. Descends'
  BY <1>1, <1>2 DEF Descends
<1>6. SameTip'
  <2>1. PICK m \in rows, n \in kept :
          /\ IsLast(m, rows) /\ IsLast(n, kept)
          /\ m.ts = n.ts /\ m.hash = n.hash
    BY DEF SameTip
  <2>2. CASE m = r
    <3>1. IsLast(a, rows') /\ a.ts = n.ts /\ a.hash = n.hash
      BY <1>1, <1>2, <2>1, <2>2 DEF IsLast
    <3> QED BY <1>1, <2>1, <3>1 DEF SameTip, IsLast
  <2>3. CASE m # r
    <3>1. IsLast(m, rows')
      BY <1>1, <1>2, <2>1, <2>3 DEF IsLast
    <3> QED BY <1>1, <2>1, <3>1 DEF SameTip, IsLast
  <2> QED BY <2>2, <2>3
<1>7. DraftOK'
  BY <1>1, <1>2 DEF DraftOK
<1>8. TipHash(kept)' = TipHash(kept)
  BY <1>1 DEF TipHash, Newest
<1>9. TurnOK'
  BY <1>1, <1>8 DEF TurnOK
<1>10. ChainOK'
  BY <1>1 DEF ChainOK, ChainValid, HashMismatch, ChainBroken, Expected, Before,
              TipHash, Newest
<1> QED BY <1>4, <1>5, <1>6, <1>7, <1>9, <1>10

(* What is left of a valid chain when its end is cut off is a valid chain. *)
LEMMA ChainIsCut ==
  ASSUME NEW L, NEW K, ChainValid(L), K \subseteq L,
         \A r \in K, s \in L : s.ts < r.ts => s \in K
  PROVE  ChainValid(K)
<1> SUFFICES ASSUME NEW r \in K
             PROVE  ~HashMismatch(K, r) /\ ~ChainBroken(K, r)
  BY DEF ChainValid
<1>1. Before(K, r) = Before(L, r)
  BY DEF Before
<1> QED BY <1>1 DEF ChainValid, HashMismatch, ChainBroken, Expected

(* Removing a row leaves a table whose newest row is one that was logged;  *)
(* the tip moves only when the newest row goes, and no call is under way   *)
(* then.                                                                   *)
LEMMA RemoveIInv ==
  ASSUME IInv, NEW r \in rows, Remove(r)
  PROVE  IInv'
<1> USE DEF IInv
<1>1. /\ rows' = rows \ {r} /\ logged' = logged
      /\ kept' = {t \in kept : \E s \in rows' : t.ts \leq s.ts}
      /\ pc' = pc /\ tip' = tip /\ draft' = draft
      /\ orderly' = (orderly /\ (\/ \E s \in rows : r.ts < s.ts
                                 \/ \A w \in Writer : pc[w] = "idle"))
  BY DEF Remove
<1>2. \A s \in rows \cup kept : s.ts \in Nat /\ s.ts \in Time
  BY TimesAreNat DEF LedgerTypeOK, IsRow
<1>3. LedgerTypeOK' /\ UniqueTimes(rows)' /\ UniqueTimes(kept)'
  BY <1>1 DEF LedgerTypeOK, UniqueTimes
<1>4. Descends'
  <2> SUFFICES ASSUME NEW s \in rows'
               PROVE  \E l \in kept' : s.ts = l.ts /\ s.prev = l.prev /\ s.hash = l.hash
    BY DEF Descends
  <2>1. PICK l \in kept : s.ts = l.ts /\ s.prev = l.prev /\ s.hash = l.hash
    BY <1>1 DEF Descends
  <2>2. l \in kept'
    BY <1>1, <1>2, <2>1
  <2> QED BY <2>1, <2>2
<1>5. SameTip'
  <2>1. CASE rows' = {}
    BY <1>1, <2>1 DEF SameTip
  <2>2. CASE rows' # {}
    <3>1. PICK m : IsLast(m, rows')
      BY <1>1, <1>2, <2>2, LastRow
    <3>2. PICK l \in kept' : m.ts = l.ts /\ m.hash = l.hash
      BY <1>4, <3>1 DEF Descends, IsLast
    <3>3. IsLast(l, kept')
      BY <1>1, <1>2, <3>1, <3>2 DEF IsLast
    <3> QED BY <3>1, <3>2, <3>3 DEF SameTip, IsLast
  <2> QED BY <2>1, <2>2
<1>6. DraftOK'
  BY <1>1 DEF DraftOK
<1>7. ASSUME NEW s \in rows, r.ts < s.ts PROVE kept' = kept
  <2>1. PICK m \in rows, n \in kept : IsLast(m, rows) /\ IsLast(n, kept) /\ m.ts = n.ts
    BY DEF SameTip
  <2>2. m \in rows'
    BY <1>1, <1>2, <1>7, <2>1 DEF IsLast
  <2> QED BY <1>1, <2>1, <2>2 DEF IsLast
<1>8. TurnOK'
  <2>1. CASE kept' = kept
    <3>1. TipHash(kept)' = TipHash(kept)
      BY <2>1 DEF TipHash, Newest
    <3> QED BY <1>1, <2>1, <3>1 DEF TurnOK
  <2>2. CASE \A w \in Writer : pc[w] = "idle"
    BY <1>1, <2>2 DEF TurnOK
  <2> QED BY <1>1, <1>7, <2>1, <2>2 DEF TurnOK
<1>9. ChainOK'
  <2>1. \A t \in kept', s \in kept : s.ts < t.ts => s \in kept'
    BY <1>1, <1>2
  <2>2. ChainValid(kept) => ChainValid(kept')
    BY <1>1, <2>1, ChainIsCut
  <2>3. ChainValid(kept)' <=> ChainValid(kept')
    BY DEF ChainValid, HashMismatch, ChainBroken, Expected, Before, TipHash, Newest
  <2> QED BY <1>1, <2>2, <2>3 DEF ChainOK
<1> QED BY <1>3, <1>4, <1>5, <1>6, <1>8, <1>9

(* Every step of a writer or of a tamperer keeps the invariant.            *)
LEMMA NextIInv == IInv /\ [LedgerNext]_ledgerVars => IInv'
<1> SUFFICES ASSUME IInv, [LedgerNext]_ledgerVars PROVE IInv'
  OBVIOUS
<1>1. CASE UNCHANGED ledgerVars
  <2>1. LedgerTypeOK' /\ UniqueTimes(rows)' /\ UniqueTimes(kept)' /\ DraftOK'
    BY <1>1 DEF ledgerVars, IInv, LedgerTypeOK, UniqueTimes, DraftOK
  <2>2. SameTip' /\ Descends'
    BY <1>1 DEF ledgerVars, IInv, SameTip, IsLast, Descends
  <2>3. TurnOK'
    BY <1>1 DEF ledgerVars, IInv, TurnOK, TipHash, Newest
  <2>4. ChainOK'
    BY <1>1 DEF ledgerVars, IInv, ChainOK, ChainValid, HashMismatch, ChainBroken, Expected,
                Before, TipHash, Newest
  <2> QED BY <2>1, <2>2, <2>3, <2>4 DEF IInv
<1> QED
  BY <1>1, ReadTipIInv, FlushIInv, CommitIInv, AbandonIInv, AlterIInv, RemoveIInv DEF LedgerNext

----------------------------------------------------------------------------
(* Every variable keeps its type (log_event, verify_chain).                *)
THEOREM TypeCorrect == LedgerSpec => []LedgerTypeOK
<1>1. IInv => LedgerTypeOK
  BY DEF IInv
<1> QED BY <1>1, InitIInv, NextIInv, PTL DEF LedgerSpec

(* verify_chain answers "valid" on every ledger that was not altered, but  *)
(* for its end, whose writers took turns and whose clocks did not go back. *)
THEOREM UntamperedVerifies == LedgerSpec => []OrderlyLedgerVerifies
<1>1. IInv => OrderlyLedgerVerifies
  BY DEF IInv, ChainOK, OrderlyLedgerVerifies
<1> QED BY <1>1, InitIInv, NextIInv, PTL DEF LedgerSpec
----------------------------------------------------------------------------
(* What a writer has read, it can link to.                                 *)
Links(h) == h = Genesis \/ \E s \in logged : s.hash = h

ReadersLink == \A w \in Writer : pc[w] # "idle" => Links(tip[w])

(* The hash of the newest row is that of a logged one, tampered with or    *)
(* not: log_event never reads a hash that was not committed.               *)
LEMMA TipLinks ==
  ASSUME IInv
  PROVE  Links(TipHash(rows))
<1>1. CASE rows = {}
  BY <1>1 DEF Links, TipHash
<1>2. ASSUME NEW m \in rows, NEW n \in kept, IsLast(m, rows), m.hash = n.hash
      PROVE  Links(TipHash(rows))
  <2>1. TipHash(rows) = m.hash
    BY <1>2, NewestIsLast, TimesAreNat DEF IInv
  <2> QED BY <1>2, <2>1 DEF Links, IInv, LedgerTypeOK
<1> QED BY <1>1, <1>2 DEF IInv, SameTip

(* Links are kept: rows are logged for ever, and a row is logged with the  *)
(* link its writer read.                                                   *)
LEMMA NextLinks ==
  IInv /\ NoDanglingLink /\ ReadersLink /\ [LedgerNext]_ledgerVars
    => NoDanglingLink' /\ ReadersLink'
<1> SUFFICES ASSUME IInv, NoDanglingLink, ReadersLink, [LedgerNext]_ledgerVars
             PROVE  NoDanglingLink' /\ ReadersLink'
  OBVIOUS
<1>1. ASSUME NEW w \in Writer, ReadTip(w)
      PROVE  NoDanglingLink' /\ ReadersLink'
  <2>1. Links(TipHash(rows))
    BY TipLinks
  <2> QED BY <1>1, <2>1 DEF ReadTip, NoDanglingLink, ReadersLink, Links, IInv, LedgerTypeOK
<1>2. ASSUME NEW w \in Writer, NEW c \in Content, NEW t \in Time, Flush(w, c, t)
      PROVE  NoDanglingLink' /\ ReadersLink'
  BY <1>2 DEF Flush, NoDanglingLink, ReadersLink, Links, IInv, LedgerTypeOK
<1>3. ASSUME NEW w \in Writer, Commit(w)
      PROVE  NoDanglingLink' /\ ReadersLink'
  <2>1. Links(draft[w].prev)
    <3>1. pc[w] = "flushed"
      BY <1>3 DEF Commit
    <3>2. Links(tip[w])
      BY <3>1 DEF ReadersLink
    <3>3. draft[w] = Row(draft[w].ts, draft[w].content, tip[w])
      BY <3>1 DEF IInv, DraftOK
    <3>4. draft[w].prev = tip[w]
      BY <3>3 DEF Row
    <3> QED BY <3>2, <3>4
  <2>2. logged' = logged \cup {draft[w]}
    BY <1>3 DEF Commit
  <2>3. NoDanglingLink'
    BY <2>1, <2>2 DEF NoDanglingLink, Links
  <2>4. ReadersLink'
    BY <1>3, <2>2 DEF Commit, Done, ReadersLink, Links, IInv, LedgerTypeOK
  <2> QED BY <2>3, <2>4
<1>4. ASSUME NEW w \in Writer, Abandon(w)
      PROVE  NoDanglingLink' /\ ReadersLink'
  BY <1>4 DEF Abandon, Done, NoDanglingLink, ReadersLink, Links, IInv, LedgerTypeOK
<1>5. ASSUME NEW r \in rows, Remove(r) \/ \E c \in Content : Alter(r, c)
      PROVE  NoDanglingLink' /\ ReadersLink'
  BY <1>5 DEF Remove, Alter, NoDanglingLink, ReadersLink, Links
<1>6. CASE UNCHANGED ledgerVars
  BY <1>6 DEF ledgerVars, NoDanglingLink, ReadersLink, Links
<1> QED
  BY <1>1, <1>2, <1>3, <1>4, <1>5, <1>6 DEF LedgerNext

(* Every logged event links to the genesis or to another logged event,     *)
(* also when calls of log_event overlap or die half-way.                   *)
THEOREM LinksAreLogged == LedgerSpec => []NoDanglingLink
<1>1. LedgerInit => NoDanglingLink /\ ReadersLink
  BY DEF LedgerInit, NoDanglingLink, ReadersLink
<1> QED BY <1>1, InitIInv, NextIInv, NextLinks, PTL DEF LedgerSpec

----------------------------------------------------------------------------
Whole(r) == r = [ts |-> r.ts, content |-> r.content, prev |-> r.prev, hash |-> r.hash]

(* What was logged has the hash of what it says.                           *)
Genuine ==
  /\ \A r \in rows \cup kept : Whole(r)
  /\ \A l \in kept : l.hash = Hash(l.content, l.prev)

HashesDiffer == orderly => \A r, s \in kept : r.hash = s.hash => r = s

TInv == IInv /\ Genuine /\ HashesDiffer

(* The genesis is no hash, and hashes are free of collisions.              *)
LEMMA Hashes ==
  /\ \A c, p : Hash(c, p) # Genesis
  /\ \A c, p, d, q : Hash(c, p) = Hash(d, q) => c = d /\ p = q
BY DEF Hash, Genesis

(* What verify_chain expects of a row of some table is the genesis or the  *)
(* hash of an earlier row.                                                 *)
LEMMA ExpectedIsEarlier ==
  ASSUME NEW R, NEW r, UniqueTimes(R), \A s \in R : s.ts \in Time
  PROVE  \/ Expected(R, r) = Genesis
         \/ \E q \in R : q.ts < r.ts /\ Expected(R, r) = q.hash
<1>1. CASE Before(R, r) = {}
  BY <1>1 DEF Expected, TipHash
<1>2. CASE Before(R, r) # {}
  <2>1. Before(R, r) \subseteq R /\ UniqueTimes(Before(R, r))
    BY DEF Before, UniqueTimes
  <2>2. PICK q : IsLast(q, Before(R, r))
    BY <1>2, <2>1, LastRow
  <2>3. \A s \in Before(R, r) : s.ts \in Nat
    BY <2>1, LedgerAssumption DEF Time
  <2>4. TipHash(Before(R, r)) = q.hash
    BY <2>1, <2>2, <2>3, NewestIsLast
  <2> QED
    BY <2>2, <2>4 DEF Expected, IsLast, Before
<1> QED
  BY <1>1, <1>2

(* A row that log_event commits in its turn has a hash no other has: a row *)
(* with the same would link to the newest row, and yet be older.           *)
LEMMA NewHash ==
  ASSUME TInv, orderly, NEW w \in Writer, pc[w] = "flushed", NEW s \in kept
  PROVE  s.hash # draft[w].hash
<1> SUFFICES ASSUME s.hash = draft[w].hash PROVE FALSE
  OBVIOUS
<1> USE DEF TInv, IInv
<1>0. \A l \in kept : l.ts \in Time /\ l.ts \in Nat
  BY LedgerAssumption DEF LedgerTypeOK, IsRow, Time
<1>1. PICK n \in kept : IsLast(n, kept)
  BY DEF SameTip
<1>2. TipHash(kept) = n.hash
  BY <1>0, <1>1, NewestIsLast
<1>3. draft[w] = Row(draft[w].ts, draft[w].content, tip[w]) /\ tip[w] = n.hash
  BY <1>2 DEF DraftOK, TurnOK
<1>4. draft[w].hash = Hash(draft[w].content, n.hash)
  BY <1>3 DEF Row
<1>5. s.hash = Hash(s.content, s.prev)
  BY DEF Genuine
<1>6. s.prev = n.hash
  BY <1>4, <1>5, Hashes
<1>7. Expected(kept, s) = n.hash
  BY <1>6 DEF ChainOK, ChainValid, ChainBroken
<1>8. n.hash # Genesis
  BY Hashes DEF Genuine
<1>9. PICK q \in kept : q.ts < s.ts /\ n.hash = q.hash
  BY <1>0, <1>7, <1>8, ExpectedIsEarlier
<1>10. q = n
  BY <1>9 DEF HashesDiffer
<1> QED
  BY <1>0, <1>1, <1>9, <1>10 DEF IsLast

(* No step changes what rows descend from, and the hashes of an orderly    *)
(* chain stay different (log_event).                                       *)
LEMMA NextTInv == TInv /\ [LedgerNext]_ledgerVars => TInv'
<1> SUFFICES ASSUME TInv, [LedgerNext]_ledgerVars PROVE TInv'
  OBVIOUS
<1>1. IInv /\ IInv'
  BY NextIInv DEF TInv
<1>2. ASSUME UNCHANGED <<rows, kept, logged>>, orderly' => orderly PROVE TInv'
  BY <1>1, <1>2 DEF TInv, Genuine, HashesDiffer, Whole
<1>3. ASSUME NEW w \in Writer, Commit(w) PROVE TInv'
  <2> DEFINE d == draft[w]
  <2>1. /\ pc[w] = "flushed" /\ orderly' = orderly
        /\ rows' = rows \cup {d} /\ kept' = kept \cup {d}
    BY <1>3 DEF Commit
  <2>2. d = Row(d.ts, d.content, tip[w])
    BY <1>1, <2>1 DEF IInv, DraftOK
  <2>3. Whole(d) /\ d.hash = Hash(d.content, d.prev)
    BY <2>2 DEF Row, Whole
  <2>4. orderly => \A s \in kept : s.hash # d.hash
    BY <2>1, NewHash
  <2> HIDE DEF d
  <2>5. Genuine'
    BY <2>1, <2>3 DEF TInv, Genuine, Whole
  <2>6. HashesDiffer'
    BY <2>1, <2>4 DEF TInv, HashesDiffer
  <2> QED
    BY <1>1, <2>5, <2>6 DEF TInv
<1>4. ASSUME NEW r \in rows, Remove(r) PROVE TInv'
  <2>1. rows' \subseteq rows /\ kept' \subseteq kept /\ (orderly' => orderly)
    BY <1>4 DEF Remove
  <2> QED
    BY <1>1, <2>1 DEF TInv, Genuine, HashesDiffer, Whole
<1>5. ASSUME NEW r \in rows, NEW c \in Content, Alter(r, c) PROVE TInv'
  <2> DEFINE a == Altered(r, c)
  <2>1. rows' = (rows \ {r}) \cup {a} /\ kept' = kept /\ orderly' = orderly
    BY <1>5 DEF Alter
  <2>2. Whole(a) /\ a.ts = r.ts /\ a.prev = r.prev /\ a.hash = r.hash
    BY DEF Altered, Whole
  <2> HIDE DEF a
  <2>3. Genuine'
    BY <2>1, <2>2 DEF TInv, Genuine, Whole
  <2>4. HashesDiffer'
    BY <2>1, <2>2 DEF TInv, HashesDiffer
  <2> QED
    BY <1>1, <2>3, <2>4 DEF TInv
<1>6. ASSUME NEW w \in Writer, ReadTip(w) \/ Abandon(w) PROVE TInv'
  BY <1>2, <1>6 DEF ReadTip, Abandon
<1>7. ASSUME NEW w \in Writer, NEW c \in Content, NEW t \in Time, Flush(w, c, t) PROVE TInv'
  BY <1>2, <1>7 DEF Flush
<1>8. CASE UNCHANGED ledgerVars
  BY <1>2, <1>8 DEF ledgerVars
<1> QED
  BY <1>3, <1>4, <1>5, <1>6, <1>7, <1>8 DEF LedgerNext

(* When a table verifies, none of its rows was altered: each has the hash  *)
(* of a logged row, and so its content (verify_chain recomputes it).       *)
LEMMA NothingAltered ==
  ASSUME TInv, ChainValid(rows)
  PROVE  rows \subseteq kept
<1> SUFFICES ASSUME NEW r \in rows PROVE r \in kept
  OBVIOUS
<1>1. PICK l \in kept : r.ts = l.ts /\ r.prev = l.prev /\ r.hash = l.hash
  BY DEF TInv, IInv, Descends
<1>2. r.hash = Hash(r.content, Expected(rows, r))
  BY DEF ChainValid, HashMismatch
<1>3. l.hash = Hash(l.content, l.prev) /\ Whole(l) /\ Whole(r)
  BY DEF TInv, Genuine
<1>4. Hash(r.content, Expected(rows, r)) = Hash(l.content, l.prev)
  BY <1>1, <1>2, <1>3
<1>5. r.content = l.content
  BY <1>4, Hashes
<1> QED
  BY <1>1, <1>3, <1>5 DEF Whole

(* Nor is one missing: the row after the last that is missing links to it, *)
(* and no other row has its hash (verify_chain walks the links).           *)
LEMMA NothingMissing ==
  ASSUME TInv, orderly, ChainValid(rows)
  PROVE  kept \subseteq rows
<1> SUFFICES ASSUME kept \ rows # {} PROVE FALSE
  OBVIOUS
<1> USE DEF TInv, IInv
<1>0. rows \subseteq kept /\ \A l \in kept : l.ts \in Time /\ l.ts \in Nat
  BY NothingAltered, LedgerAssumption DEF LedgerTypeOK, IsRow, Time
<1>1. PICK x : IsLast(x, kept \ rows)
  BY <1>0, LastRow
<1>2. x \in kept /\ x \notin rows
  BY <1>1 DEF IsLast
<1> DEFINE Later == {s \in kept : x.ts < s.ts}
<1>3. Later # {}
  <2>1. PICK m \in rows, n \in kept : IsLast(n, kept) /\ m.ts = n.ts
    BY <1>2 DEF SameTip
  <2>2. m = n
    BY <1>0, <2>1 DEF UniqueTimes
  <2>3. x.ts # n.ts /\ x.ts <= n.ts
    BY <1>2, <2>1, <2>2 DEF UniqueTimes, IsLast
  <2> QED
    BY <1>0, <1>2, <2>3
<1>4. PICK y \in Later : \A s \in Later : y.ts <= s.ts
  BY <1>0, <1>3, FirstRow
<1>5. y \in rows
  BY <1>0, <1>1, <1>2, <1>4 DEF IsLast
<1>6. Expected(kept, y) = x.hash
  <2>1. IsLast(x, Before(kept, y)) /\ UniqueTimes(Before(kept, y))
    BY <1>0, <1>2, <1>4 DEF IsLast, Before, UniqueTimes
  <2>2. \A s \in Before(kept, y) : s.ts \in Nat
    BY <1>0 DEF Before
  <2> QED
    BY <2>1, <2>2, NewestIsLast DEF Expected
<1>7. Expected(rows, y) = x.hash
  BY <1>4, <1>5, <1>6 DEF ChainOK, ChainValid, ChainBroken
<1>8. x.hash # Genesis
  BY <1>2, Hashes DEF Genuine
<1>9. PICK z \in rows : z.hash = x.hash
  BY <1>0, <1>7, <1>8, ExpectedIsEarlier
<1> QED
  BY <1>0, <1>2, <1>9 DEF HashesDiffer

(* Whatever is altered and removed, in whatever combination and with       *)
(* however many events logged on top, verify_chain never answers "valid"   *)
(* for a ledger that is not what was logged up to its newest row.          *)
THEOREM TamperingShows == LedgerSpec => []TamperEvident
<1>1. LedgerInit => TInv
  BY InitIInv DEF LedgerInit, TInv, Genuine, HashesDiffer
<1>2. TInv => TamperEvident
  <2> SUFFICES ASSUME TInv, orderly, ChainValid(rows) PROVE rows = kept
    BY DEF TamperEvident
  <2> QED
    BY NothingAltered, NothingMissing
<1> QED
  BY <1>1, <1>2, NextTInv, PTL DEF LedgerSpec

(* "flagging any modified or deleted log entries"                          *)
(* (NEXORA_GOD_LEVEL_MASTER_BLUEPRINT.md:503) is so but for the end of the *)
(* table: where calls did not overlap, verify_chain answers "valid" of a   *)
(* ledger exactly when it is what was logged up to some event, so that it  *)
(* never misses anything else, and always misses that.                     *)
VerdictIsExact == orderly => (ChainValid(rows) <=> rows = kept)

(* The verdict of verify_chain is exact, for ledgers of any length         *)
(* (verify_chain).                                                         *)
THEOREM VerdictsAreExact == LedgerSpec => []VerdictIsExact
<1>1. OrderlyLedgerVerifies /\ TamperEvident => VerdictIsExact
  BY DEF OrderlyLedgerVerifies, TamperEvident, VerdictIsExact
<1> QED
  BY <1>1, UntamperedVerifies, TamperingShows, PTL
=============================================================================
