------------------------ MODULE PatchExecutionProofs ------------------------
(***************************************************************************)
(* Proofs about PatchExecution, for plans of any length over any mix of    *)
(* adapters and items.  The strengthening says where the run stands        *)
(* (InOrder), what results it has (Concluded, ReportIsOfResults), which    *)
(* item a rollback by history reverts (LastIsHistory), and what holds of   *)
(* the host half-way: the patches kept so far (Kept), the actions already  *)
(* swept (Swept).                                                          *)
(***************************************************************************)
EXTENDS PatchExecution, Integers, TLAPS

(* The actions after the present one wait, the present one has no result   *)
(* before it is concluded; there is a sweep only after a rollback, and a   *)
(* report only at the end.                                                 *)
InOrder ==
  /\ at \in {"prepare", "execute", "verify"} =>
       /\ status[i] \in {"QUEUED", "RUNNING"}
       /\ \A a \in Action : a > i => status[a] = "QUEUED"
  /\ at = "sweep" => \E a \in Action : status[a] = "ROLLED_BACK"
  /\ at # "done" => report = "none"

(* What a run has made of its actions: a result for each one it has        *)
(* passed, and an overall_status that follows from the results.            *)
Result == {"SUCCESS", "FAILED", "ROLLED_BACK"}

ReportIsOfResults ==
  report \in Result \cup {"COMPLETED_WITH_FAILURES"} =>
    /\ \A a \in Action : status[a] \in Result
    /\ report = Overall(status)

Concluded ==
  /\ at \in {"prepare", "execute", "verify"} =>
       \A a \in Action : a < i => status[a] \in Result
  /\ at = "sweep" => \A a \in Action : status[a] \in Result

(* The last transaction is from before the run, or a history adapter's.    *)
LastIsHistory ==
  last # 0 => \E c \in Action : kind[c] = "history" /\ item[c] = last

(* No action that failed may undo the item of a, which succeeded.          *)
Safe(a) ==
  /\ status[a] = "SUCCESS"
  /\ \A b \in Action : Unsuccessful(b) => ~MayUndo(b, item[a])

Kept ==
  /\ \A a \in Action \ rejected : Safe(a) => cur[item[a]] = "new"
  /\ at = "verify" /\ i \notin rejected => cur[item[i]] = "new"

(* What the sweep has passed is back, if its rollback names the version.   *)
Swept ==
  \A a \in Action :
    /\ (at = "sweep" /\ a < i) \/ report = "ROLLED_BACK"
    /\ status[a] # "SUCCESS"
    /\ \A b \in Action : item[b] = item[a] => kind[b] = "pinned"
    => cur[item[a]] = "old"

IInv ==
  /\ ExecutionTypeOK
  /\ InOrder
  /\ Concluded /\ ReportIsOfResults
  /\ LastIsHistory
  /\ Kept
  /\ Swept

----------------------------------------------------------------------------
(* Every step leaves the plan alone, and does to the host what a patch or  *)
(* a rollback of the present action does, if anything (the adapters).      *)
LEMMA HostStep ==
  ASSUME ExecutionTypeOK, [ExecutionNext]_executionVars
  PROVE  /\ kind' = kind /\ item' = item
         /\ PatchTaken(i) \/ RollbackTaken(i) \/ UNCHANGED host
<1>1. CASE ExecutionNext
  BY <1>1 DEF ExecutionNext, plan, Prepare, PrepareFails, NoAdapter, Execute, ExecuteRaises,
     Verified, RollBack, RollBackRaises, Sweep, SweepRaises
<1>2. CASE UNCHANGED executionVars
  BY <1>2 DEF executionVars, plan
<1> QED BY <1>1, <1>2

(* A patch changes no item but that of its action, which it leaves patched *)
(* (execute_patch).                                                        *)
LEMMA PatchChanges ==
  ASSUME ExecutionTypeOK, NEW b \in Action, PatchTaken(b)
  PROVE  /\ cur' \in [Item -> Version] /\ prev' \in [Item -> Version]
         /\ last' \in Item
         /\ cur'[item[b]] = "new"
         /\ \A x \in Item : x # item[b] => cur'[x] = cur[x] /\ prev'[x] = prev[x]
         /\ last' = last \/ (kind[b] = "history" /\ last' = item[b])
<1>1. item[b] \in Item /\ cur[item[b]] \in Version /\ "new" \in Version
  BY PatchExecutionAssumption DEF ExecutionTypeOK, Action, Item, Version
<1>2. CASE cur[item[b]] = "new" /\ UNCHANGED host
  BY <1>2 DEF host, ExecutionTypeOK
<1>3. CASE /\ cur' = [cur EXCEPT ![item[b]] = "new"]
           /\ prev' = [prev EXCEPT ![item[b]] = cur[item[b]]]
           /\ last' = IF kind[b] = "history" THEN item[b] ELSE last
  BY <1>1, <1>3 DEF ExecutionTypeOK
<1> QED BY <1>2, <1>3 DEF PatchTaken

(* A rollback changes no item but that of its action or, by history, the   *)
(* one of the last transaction (execute_rollback).                         *)
LEMMA RollbackChanges ==
  ASSUME ExecutionTypeOK, NEW b \in Action, RollbackTaken(b)
  PROVE  /\ cur' \in [Item -> Version] /\ prev' \in [Item -> Version]
         /\ last' = last
         /\ \A x \in Item : x # item[b] /\ (kind[b] = "history" => x # last)
              => cur'[x] = cur[x] /\ prev'[x] = prev[x]
         /\ kind[b] = "pinned" => cur'[item[b]] = "old"
<1>1. item[b] \in Item /\ {"old", "preset"} \subseteq Version
  BY PatchExecutionAssumption DEF ExecutionTypeOK, Action, Item, Version
<1>2. \A x \in Item : cur[x] \in Version /\ prev[x] \in Version
  BY DEF ExecutionTypeOK
<1>3. CASE kind[b] \in {"pinned", "preset", "image"}
  <2>1. PICK v \in Version : SetTo(item[b], v) /\ (kind[b] = "pinned" => v = "old")
    BY <1>1, <1>2, <1>3 DEF RollbackTaken
  <2> QED BY <1>1, <1>3, <2>1 DEF SetTo, ExecutionTypeOK
<1>4. CASE kind[b] = "target"
  BY <1>4, PatchChanges DEF RollbackTaken
<1>5. CASE kind[b] = "none"
  BY <1>5 DEF RollbackTaken, host, ExecutionTypeOK
<1>6. CASE kind[b] \in {"rollout", "history"}
  <2>1. PICK x \in Item : Swapped(x) /\ (x = item[b] \/ (kind[b] = "history" /\ x = last))
    BY <1>1, <1>6 DEF RollbackTaken, ExecutionTypeOK
  <2> QED BY <1>2, <1>6, <2>1 DEF Swapped, ExecutionTypeOK
<1> QED BY <1>3, <1>4, <1>5, <1>6 DEF ExecutionTypeOK, Kind, Package

(* The host keeps its types.                                               *)
LEMMA HostTypes ==
  ASSUME ExecutionTypeOK, [ExecutionNext]_executionVars
  PROVE  cur' \in [Item -> Version] /\ prev' \in [Item -> Version] /\ last' \in Item
<1>1. i \in Action
  BY DEF ExecutionTypeOK
<1> QED BY <1>1, HostStep, PatchChanges, RollbackChanges DEF host, ExecutionTypeOK

(* After a result comes the next action, the sweep, or the report.         *)
LEMMA ConcludeCases ==
  ASSUME ExecutionTypeOK, NEW s \in Result, Conclude(s)
  PROVE  /\ status' = [status EXCEPT ![i] = s]
         /\ status' \in [Action -> {"QUEUED", "RUNNING", "SUCCESS", "FAILED", "ROLLED_BACK"}]
         /\ i' \in Action
         /\ \/ i < N /\ i' = i + 1 /\ at' = "prepare" /\ report' = report
            \/ /\ i' = 1 /\ at' = "sweep" /\ report' = report
               /\ \E a \in Action : status'[a] = "ROLLED_BACK"
            \/ i' = i /\ at' = "done" /\ report' \in {"SUCCESS", "COMPLETED_WITH_FAILURES"}
<1> USE PatchExecutionAssumption DEF Action
<1>0. i \in 1..N /\ N \in Nat /\ 1 \in 1..N
  BY DEF ExecutionTypeOK
<1>1. /\ status' = [status EXCEPT ![i] = s]
      /\ status' \in [Action -> {"QUEUED", "RUNNING", "SUCCESS", "FAILED", "ROLLED_BACK"}]
  BY DEF Conclude, Result, ExecutionTypeOK
<1>2. CASE i < N
  BY <1>0, <1>1, <1>2 DEF Conclude
<1>3. CASE ~(i < N) /\ Overall(status') = "ROLLED_BACK"
  <2>1. \E a \in Action : status'[a] = "ROLLED_BACK"
    BY <1>3 DEF Overall
  <2> QED BY <1>0, <1>1, <1>3, <2>1 DEF Conclude
<1>4. CASE ~(i < N) /\ Overall(status') # "ROLLED_BACK"
  <2>1. Overall(status') \in {"SUCCESS", "COMPLETED_WITH_FAILURES"}
    BY <1>4 DEF Overall
  <2> QED BY <1>0, <1>1, <1>4, <2>1 DEF Conclude
<1> QED BY <1>2, <1>3, <1>4

(* Every step keeps the types (execute_plan, rollback_activity).           *)
LEMMA NextTypeOK == IInv /\ [ExecutionNext]_executionVars => ExecutionTypeOK'
<1> SUFFICES ASSUME IInv, [ExecutionNext]_executionVars PROVE ExecutionTypeOK'
  OBVIOUS
<1>1. ExecutionTypeOK /\ kind' = kind /\ item' = item
  BY HostStep DEF IInv
<1>2. cur' \in [Item -> Version] /\ prev' \in [Item -> Version] /\ last' \in Item
  BY <1>1, HostTypes
<1> DEFINE Rest ==
  /\ status' \in [Action -> {"QUEUED", "RUNNING", "SUCCESS", "FAILED", "ROLLED_BACK"}]
  /\ i' \in Action
  /\ at' \in {"prepare", "execute", "verify", "sweep", "done"}
  /\ report' \in {"none", "SUCCESS", "COMPLETED_WITH_FAILURES", "ROLLED_BACK", "raised"}
  /\ rejected' \in SUBSET Action
<1> USE PatchExecutionAssumption DEF Action, host, plan
<1>3. CASE Prepare \/ NoAdapter \/ Execute \/ SweepRaises
  <2>1. Rest
    BY <1>1, <1>3 DEF Prepare, NoAdapter, Execute, SweepRaises, ExecutionTypeOK
  <2> QED BY <1>1, <1>2, <2>1 DEF ExecutionTypeOK
<1>4. CASE PrepareFails \/ ExecuteRaises \/ Verified \/ RollBack \/ RollBackRaises
  <2>1. PICK s \in Result : rejected' = rejected /\ Conclude(s)
    BY <1>4
       DEF PrepareFails, ExecuteRaises, Verified, RollBack, RollBackRaises, Result
  <2>2. Rest
    BY <1>1, <2>1, ConcludeCases DEF ExecutionTypeOK
  <2> QED BY <1>1, <1>2, <2>2 DEF ExecutionTypeOK
<1>5. CASE Sweep
  <2>1. i' \in Action
    <3>1. i \in 1..N /\ N \in Nat
      BY <1>1 DEF ExecutionTypeOK
    <3> QED BY <1>5, <3>1 DEF Sweep, SweepOn
  <2>2. Rest
    BY <1>1, <1>5, <2>1 DEF Sweep, SweepOn, ExecutionTypeOK
  <2> QED BY <1>1, <1>2, <2>2 DEF ExecutionTypeOK
<1>6. CASE UNCHANGED executionVars
  BY <1>1, <1>2, <1>6 DEF executionVars, ExecutionTypeOK
<1> QED BY <1>3, <1>4, <1>5, <1>6 DEF ExecutionNext

(* The actions are taken in order, one at a time (execute_plan).           *)
LEMMA NextInOrder == IInv /\ [ExecutionNext]_executionVars => InOrder'
<1> SUFFICES ASSUME IInv, [ExecutionNext]_executionVars PROVE InOrder'
  OBVIOUS
<1>0. InOrder /\ i \in Action /\ DOMAIN status = Action
  BY DEF IInv, ExecutionTypeOK
<1>1. CASE Prepare \/ NoAdapter \/ Execute \/ SweepRaises
  <2>1. CASE Prepare
    <3>1. /\ at = "prepare" /\ at' = "execute" /\ i' = i /\ report' = report
          /\ status' = [status EXCEPT ![i] = "RUNNING"]
      BY <2>1 DEF Prepare
    <3>2. status'[i'] = "RUNNING"
      BY <1>0, <3>1
    <3>3. \A a \in Action : a > i => a # i
      BY <1>0, PatchExecutionAssumption DEF Action
    <3>4. \A a \in Action : a > i' => status'[a] = "QUEUED"
      BY <1>0, <3>1, <3>3 DEF InOrder
    <3> QED BY <1>0, <3>1, <3>2, <3>4 DEF InOrder
  <2>2. CASE NoAdapter \/ SweepRaises
    BY <2>2 DEF NoAdapter, SweepRaises, InOrder
  <2>3. CASE Execute
    BY <1>0, <2>3 DEF Execute, InOrder
  <2> QED BY <1>1, <2>1, <2>2, <2>3
<1> USE PatchExecutionAssumption DEF IInv, Action, host, plan
<1>2. CASE PrepareFails \/ ExecuteRaises \/ Verified \/ RollBack \/ RollBackRaises
  <2>1. /\ at \in {"prepare", "execute", "verify"}
        /\ \E s \in Result : Conclude(s)
    BY <1>2
       DEF PrepareFails, ExecuteRaises, Verified, RollBack, RollBackRaises, Result
  <2>2. PICK s \in Result : Conclude(s)
    BY <2>1
  <2>3. at' = "prepare" =>
          /\ status'[i'] = "QUEUED"
          /\ \A a \in Action : a > i' => status'[a] = "QUEUED"
    <3>0. i' \in 1..N /\ N \in Nat
      BY <2>2, ConcludeCases
    <3> SUFFICES ASSUME at' = "prepare", NEW a \in Action, a >= i'
                 PROVE  status'[a] = "QUEUED"
      BY <3>0
    <3>1. i' = i + 1 /\ status' = [status EXCEPT ![i] = s]
      BY <2>2, ConcludeCases
    <3>2. i \in 1..N /\ a \in 1..N /\ N \in Nat
      BY DEF ExecutionTypeOK
    <3>3. a > i /\ a # i
      BY <3>1, <3>2
    <3>4. status[a] = "QUEUED"
      BY <2>1, <3>3 DEF InOrder
    <3> QED BY <3>1, <3>3, <3>4 DEF ExecutionTypeOK
  <2> QED BY <2>1, <2>2, <2>3, ConcludeCases DEF InOrder
<1>3. CASE Sweep
  BY <1>3 DEF Sweep, SweepOn, ExecutionTypeOK, InOrder
<1>4. CASE UNCHANGED executionVars
  BY <1>4 DEF executionVars, ExecutionTypeOK, InOrder
<1> QED BY <1>1, <1>2, <1>3, <1>4 DEF ExecutionNext

(* Only history adapters make transactions that can be undone as the last. *)
LEMMA NextLastIsHistory == IInv /\ [ExecutionNext]_executionVars => LastIsHistory'
<1> SUFFICES ASSUME IInv, [ExecutionNext]_executionVars PROVE LastIsHistory'
  OBVIOUS
<1>1. i \in Action /\ ExecutionTypeOK /\ LastIsHistory /\ kind' = kind /\ item' = item
  BY HostStep DEF IInv, ExecutionTypeOK
<1>2. last' = last \/ (kind[i] = "history" /\ last' = item[i])
  BY <1>1, HostStep, PatchChanges, RollbackChanges DEF host
<1> QED BY <1>1, <1>2 DEF LastIsHistory

(* What a rollback of b may change is what b may undo.                     *)
LEMMA RollbackSpares ==
  ASSUME ExecutionTypeOK, LastIsHistory, NEW b \in Action, NEW x \in Action,
         RollbackTaken(b), ~MayUndo(b, x)
  PROVE  cur'[x] = cur[x] /\ prev'[x] = prev[x]
<1>1. x \in Item /\ x # 0
  BY PatchExecutionAssumption DEF Action, Item
<1>2. x # item[b] /\ (kind[b] = "history" => x # last)
  BY <1>1 DEF MayUndo, LastIsHistory
<1> QED BY <1>1, <1>2, RollbackChanges

(* Conclude gives the present action its result, and either goes on to the *)
(* next one, to the sweep, or to the report.                               *)
LEMMA ConcludeStep ==
  ASSUME IInv, NEW s \in Result, Conclude(s),
         at \in {"prepare", "execute", "verify"}
  PROVE  Concluded' /\ ReportIsOfResults'
<1> USE PatchExecutionAssumption DEF IInv, Action, Result
<1>1. /\ i \in 1..N
      /\ status' = [status EXCEPT ![i] = s]
      /\ status'[i] = s
      /\ \A a \in Action : a < i => status'[a] \in Result
  BY DEF Conclude, ExecutionTypeOK, Concluded
<1>2. CASE i < N
  <2>1. i' = i + 1 /\ at' = "prepare" /\ report' = "none"
    BY <1>2 DEF Conclude, InOrder
  <2> QED BY <1>1, <2>1 DEF Concluded, ReportIsOfResults
<1>3. CASE ~(i < N)
  <2>1. \A a \in Action : status'[a] \in Result
    BY <1>1, <1>3
  <2>2. CASE Overall(status') = "ROLLED_BACK"
    <3>1. at' = "sweep" /\ report' = "none"
      BY <1>3, <2>2 DEF Conclude, InOrder
    <3> QED BY <2>1, <3>1 DEF Concluded, ReportIsOfResults
  <2>3. CASE Overall(status') # "ROLLED_BACK"
    <3>1. at' = "done" /\ report' = Overall(status')
      BY <1>3, <2>3 DEF Conclude
    <3> QED BY <2>1, <3>1 DEF Concluded, ReportIsOfResults
  <2> QED BY <2>2, <2>3
<1> QED BY <1>2, <1>3

(* Every step of a run keeps its results in order.                         *)
LEMMA NextReported ==
  IInv /\ [ExecutionNext]_executionVars => Concluded' /\ ReportIsOfResults'
<1> SUFFICES ASSUME IInv, [ExecutionNext]_executionVars
             PROVE  Concluded' /\ ReportIsOfResults'
  OBVIOUS
<1>1. CASE Prepare
  BY <1>1 DEF Prepare, IInv, ExecutionTypeOK, InOrder, Concluded, ReportIsOfResults,
     Action, Result
<1>2. CASE Execute
  BY <1>2 DEF Execute, IInv, InOrder, Concluded, ReportIsOfResults, Result
<1>3. CASE NoAdapter \/ SweepRaises
  BY <1>3 DEF NoAdapter, SweepRaises, IInv, Concluded, ReportIsOfResults, Result
<1>4. CASE PrepareFails \/ ExecuteRaises \/ Verified \/ RollBack \/ RollBackRaises
  <2>1. PICK s \in Result : Conclude(s)
    BY <1>4
       DEF PrepareFails, ExecuteRaises, Verified, RollBack, RollBackRaises, Result
  <2>2. at \in {"prepare", "execute", "verify"}
    BY <1>4 DEF PrepareFails, ExecuteRaises, Verified, RollBack, RollBackRaises
  <2> QED BY <2>1, <2>2, ConcludeStep
<1>5. CASE Sweep
  <2>1. /\ status' = status
        /\ \A a \in Action : status[a] \in Result
        /\ \E a \in Action : status[a] = "ROLLED_BACK"
    BY <1>5 DEF Sweep, IInv, InOrder, Concluded
  <2>2. CASE i < N
    BY <1>5, <2>1, <2>2
       DEF Sweep, SweepOn, IInv, InOrder, Concluded, ReportIsOfResults, Result
  <2>3. CASE ~(i < N)
    BY <1>5, <2>1, <2>3
       DEF Sweep, SweepOn, Overall, IInv, Concluded, ReportIsOfResults
  <2> QED BY <2>2, <2>3
<1>6. CASE UNCHANGED executionVars
  BY <1>6 DEF executionVars, IInv, Concluded, ReportIsOfResults, Overall
<1> QED BY <1>1, <1>2, <1>3, <1>4, <1>5, <1>6 DEF ExecutionNext

(* What was safe after a step was so before it: results are not taken back.*)
LEMMA SafeBefore ==
  ASSUME IInv, [ExecutionNext]_executionVars, NEW a \in Action, Safe(a)', status[a] = "SUCCESS"
  PROVE  Safe(a)
<1> SUFFICES ASSUME NEW b \in Action, Unsuccessful(b) PROVE ~MayUndo(b, item[a])
  BY DEF Safe
<1>1. /\ kind' = kind /\ item' = item
      /\ \A c \in Action : MayUndo(c, item[a])' <=> MayUndo(c, item[a])
  BY HostStep DEF MayUndo, IInv
<1>2. status'[b] = status[b]
  <2>1. CASE at \in {"prepare", "execute", "verify"}
    <3>1. b # i
      BY <2>1 DEF IInv, InOrder, Unsuccessful
    <3>2. status' = status \/ \E s : status' = [status EXCEPT ![i] = s]
      BY DEF ExecutionNext, executionVars, Prepare, PrepareFails, NoAdapter, Execute, ExecuteRaises,
         Verified, RollBack, RollBackRaises, Sweep, SweepRaises, Conclude
    <3> QED BY <3>1, <3>2 DEF IInv, ExecutionTypeOK
  <2>2. CASE at \notin {"prepare", "execute", "verify"}
    BY <2>2 DEF ExecutionNext, executionVars, Prepare, PrepareFails, NoAdapter, Execute,
       ExecuteRaises, Verified, RollBack, RollBackRaises, Sweep, SweepRaises
  <2> QED BY <2>1, <2>2
<1> QED BY <1>1, <1>2 DEF Safe, Unsuccessful

(* A rollback is of an action that is unsuccessful, or becomes so.         *)
LEMMA RollbacksFail ==
  ASSUME IInv, [ExecutionNext]_executionVars
  PROVE  \/ PatchTaken(i) \/ UNCHANGED host
         \/ RollbackTaken(i) /\ status'[i] \in {"FAILED", "ROLLED_BACK"}
<1>1. i \in Action /\ ExecutionTypeOK
  BY DEF IInv, ExecutionTypeOK
<1>2. CASE Prepare \/ PrepareFails \/ NoAdapter \/ Execute \/ ExecuteRaises \/ Verified
  BY <1>2 DEF Prepare, PrepareFails, NoAdapter, Execute, ExecuteRaises, Verified
<1>3. CASE RollBack \/ RollBackRaises
  BY <1>1, <1>3 DEF RollBack, RollBackRaises, Conclude, ExecutionTypeOK, host
<1>4. CASE Sweep \/ SweepRaises
  <2>1. status' = status /\ status[i] \in Result
    BY <1>1, <1>4 DEF Sweep, SweepRaises, IInv, Concluded
  <2> QED BY <1>4, <2>1 DEF Sweep, SweepRaises, Result
<1>5. CASE UNCHANGED executionVars
  BY <1>5 DEF executionVars
<1> QED BY <1>2, <1>3, <1>4, <1>5 DEF ExecutionNext

(* A rollback reverts what an action that is not SUCCESS may undo.         *)
LEMMA NextKept == IInv /\ [ExecutionNext]_executionVars => Kept'
<1> SUFFICES ASSUME IInv, [ExecutionNext]_executionVars PROVE Kept'
  OBVIOUS
<1>0. /\ ExecutionTypeOK /\ LastIsHistory /\ i \in Action
      /\ kind' = kind /\ item' = item
  BY HostStep DEF IInv, ExecutionTypeOK
<1>1. ASSUME NEW a \in Action \ rejected', Safe(a)'
      PROVE  cur'[item[a]] = "new"
  <2>1. item[a] \in Action /\ item[a] \in Item
    BY <1>0, PatchExecutionAssumption DEF ExecutionTypeOK, Action, Item
  <2>2. a \notin rejected /\ status'[a] = "SUCCESS"
    <3>1. rejected \subseteq rejected'
      BY DEF ExecutionNext, executionVars, Prepare, PrepareFails, NoAdapter, Execute, ExecuteRaises,
         Verified, RollBack, RollBackRaises, Sweep, SweepRaises
    <3> QED BY <1>1, <3>1 DEF Safe
  <2>3. cur[item[a]] = "new"
    <3>1. CASE status[a] = "SUCCESS"
      BY <1>1, <2>2, <3>1, SafeBefore DEF IInv, Kept
    <3>2. CASE status[a] # "SUCCESS"
      <4>1. Verified /\ a = i
        <5>1. CASE Prepare \/ NoAdapter \/ Execute \/ Sweep \/ SweepRaises \/ UNCHANGED executionVars
          BY <1>0, <2>2, <3>2, <5>1
             DEF Prepare, NoAdapter, Execute, Sweep, SweepRaises, executionVars, ExecutionTypeOK
        <5>2. CASE PrepareFails \/ ExecuteRaises \/ RollBack \/ RollBackRaises
          BY <1>0, <2>2, <3>2, <5>2
             DEF PrepareFails, ExecuteRaises, RollBack, RollBackRaises, Conclude, ExecutionTypeOK
        <5>3. CASE Verified
          BY <1>0, <2>2, <3>2, <5>3 DEF Verified, Conclude, ExecutionTypeOK
        <5> QED BY <5>1, <5>2, <5>3 DEF ExecutionNext
      <4> QED BY <2>2, <4>1 DEF Verified, IInv, Kept
    <3> QED BY <3>1, <3>2
  <2>4. CASE PatchTaken(i)
    BY <1>0, <2>1, <2>3, <2>4, PatchChanges
  <2>5. CASE UNCHANGED host
    BY <2>3, <2>5 DEF host
  <2>6. CASE RollbackTaken(i) /\ status'[i] \in {"FAILED", "ROLLED_BACK"}
    <3>1. ~MayUndo(i, item[a])
      BY <1>0, <1>1, <2>6 DEF Safe, MayUndo, Unsuccessful
    <3> QED BY <1>0, <2>1, <2>3, <2>6, <3>1, RollbackSpares
  <2> QED BY <2>4, <2>5, <2>6, RollbacksFail
<1>2. ASSUME at' = "verify", i' \notin rejected'
      PROVE  cur'[item[i']] = "new"
  <2>1. CASE Execute
    BY <1>0, <1>2, <2>1, PatchChanges DEF Execute
  <2>2. CASE UNCHANGED executionVars
    BY <1>2, <2>2 DEF executionVars, host, IInv, Kept
  <2>3. CASE ExecutionNext /\ ~Execute
    BY <1>2, <2>3 DEF ExecutionNext, Prepare, PrepareFails, NoAdapter, ExecuteRaises,
       Verified, RollBack, RollBackRaises, Sweep, SweepRaises, Conclude, SweepOn
  <2> QED BY <2>1, <2>2, <2>3
<1> QED BY <1>0, <1>1, <1>2 DEF Kept

(* The sweep passes every action that is not SUCCESS (rollback_activity).  *)
LEMMA NextSwept == IInv /\ [ExecutionNext]_executionVars => Swept'
<1> SUFFICES ASSUME IInv, [ExecutionNext]_executionVars,
                    NEW a \in Action,
                    (at' = "sweep" /\ a < i') \/ report' = "ROLLED_BACK",
                    status'[a] # "SUCCESS",
                    \A b \in Action : item'[b] = item'[a] => kind'[b] = "pinned"
             PROVE  cur'[item'[a]] = "old"
  BY DEF Swept
<1>0. /\ ExecutionTypeOK /\ LastIsHistory /\ i \in Action
      /\ kind' = kind /\ item' = item
      /\ item[a] \in Action
  BY HostStep DEF IInv, ExecutionTypeOK
<1> USE PatchExecutionAssumption DEF Action
<1>1. CASE UNCHANGED executionVars
  BY <1>0, <1>1 DEF executionVars, host, IInv, Swept
<1>2. CASE Sweep
  <2>1. status' = status /\ at = "sweep" /\ report = "none"
    BY <1>2 DEF Sweep, IInv, InOrder
  <2>2. a < i \/ a = i
    <3>1. i \in 1..N /\ a \in 1..N /\ N \in Nat
      BY <1>0
    <3> QED BY <1>2, <2>1, <3>1 DEF Sweep, SweepOn
  <2>3. CASE RollbackTaken(i) /\ item[i] = item[a]
    BY <1>0, <2>3, RollbackChanges
  <2>4. CASE a < i
    <3>1. cur[item[a]] = "old"
      BY <1>0, <2>1, <2>4 DEF IInv, Swept
    <3>2. CASE UNCHANGED host
      BY <1>0, <3>1, <3>2 DEF host
    <3>3. CASE RollbackTaken(i) /\ item[i] # item[a]
      <4>1. ~MayUndo(i, item[a])
        BY <1>0, <3>3 DEF MayUndo
      <4> QED BY <1>0, <3>1, <3>3, <4>1, RollbackSpares
    <3> QED BY <1>2, <2>3, <3>2, <3>3 DEF Sweep
  <2>5. CASE a = i
    BY <1>2, <2>1, <2>3, <2>5 DEF Sweep
  <2> QED BY <2>2, <2>4, <2>5
<1>3. CASE PrepareFails \/ ExecuteRaises \/ Verified \/ RollBack \/ RollBackRaises
  <2>1. /\ at \in {"prepare", "execute", "verify"}
        /\ \E s \in Result : Conclude(s)
    BY <1>3
       DEF PrepareFails, ExecuteRaises, Verified, RollBack, RollBackRaises, Result
  <2> QED BY <1>0, <2>1 DEF Conclude, IInv, InOrder
<1>4. CASE Prepare \/ NoAdapter \/ Execute \/ SweepRaises
  BY <1>4 DEF Prepare, NoAdapter, Execute, SweepRaises, IInv, InOrder
<1> QED BY <1>1, <1>2, <1>3, <1>4 DEF ExecutionNext

(* The run begins with nothing done.                                       *)
LEMMA InitIInv == ExecutionInit => IInv
<1> SUFFICES ASSUME ExecutionInit PROVE IInv
  OBVIOUS
<1> USE PatchExecutionAssumption DEF ExecutionInit, Action, Item
<1>1. ExecutionTypeOK
  BY DEF ExecutionTypeOK, Version
<1>2. InOrder /\ LastIsHistory
  BY DEF InOrder, LastIsHistory
<1>3. Kept /\ Swept
  BY DEF Kept, Swept, Safe
<1>4. Concluded /\ ReportIsOfResults
  BY DEF Concluded, ReportIsOfResults, Result
<1> QED
  BY <1>1, <1>2, <1>3, <1>4 DEF IInv

(* The inductive invariant of a run.                                       *)
THEOREM Inductive == ExecutionSpec => []IInv
<1>1. IInv /\ [ExecutionNext]_executionVars => IInv'
  BY NextTypeOK, NextInOrder, NextReported, NextLastIsHistory, NextKept, NextSwept
     DEF IInv
<1> QED
  BY <1>1, InitIInv, PTL DEF ExecutionSpec

(* Every reachable state of a run is well typed (execute_plan).            *)
THEOREM TypeCorrect == ExecutionSpec => []ExecutionTypeOK
<1>1. IInv => ExecutionTypeOK
  BY DEF IInv
<1> QED
  BY <1>1, Inductive, PTL

(* What a run reports SUCCESS stays patched, whatever else the run does,   *)
(* for plans of any length, as long as no action that fails may undo it    *)
(* (execute_plan, rollback_activity).                                      *)
THEOREM SuccessesAreKept == ExecutionSpec => []SuccessIsKept
<1>1. IInv => SuccessIsKept
  BY DEF IInv, Kept, Safe, SuccessIsKept
<1> QED
  BY <1>1, Inductive, PTL

(* A run that ends ROLLED_BACK has brought back every item of an action    *)
(* that did not succeed, where the rollbacks name the version before       *)
(* (rollback_activity).                                                    *)
THEOREM PinnedRollbacksRevert == ExecutionSpec => []PinnedRunsRevert
<1>1. IInv => PinnedRunsRevert
  BY DEF IInv, Swept, PinnedRunsRevert
<1> QED
  BY <1>1, Inductive, PTL

(* When a run ends with a report, every action has a result and the report *)
(* is the overall_status of these results, also after the sweep, which     *)
(* computes none of its own (execute_plan, rollback_activity).             *)
THEOREM ReportsAreOfResults == ExecutionSpec => []ReportIsOfResults
<1>1. IInv => ReportIsOfResults
  BY DEF IInv
<1> QED BY <1>1, Inductive, PTL

----------------------------------------------------------------------------
(* How many steps a run has left at most: three for each action that has   *)
(* to be prepared, executed and verified, and one for each in the sweep.   *)
StepsLeft ==
  CASE at = "prepare" -> 3 * (N - i) + 3 + N
    [] at = "execute" -> 3 * (N - i) + 2 + N
    [] at = "verify"  -> 3 * (N - i) + 1 + N
    [] at = "sweep"   -> N - i + 1
    [] at = "done"    -> 0

RunIsBounded == StepsLeft \in 0..(4 * N)

GetsNearer == StepsLeft' < StepsLeft

ResultsAreFinal ==
  \A a \in Action : status[a] \in Result => status'[a] = status[a]

(* Every step of a run brings its end nearer.                              *)
LEMMA NextGetsNearer == IInv /\ ExecutionNext => GetsNearer
<1> SUFFICES ASSUME IInv, ExecutionNext PROVE GetsNearer
  OBVIOUS
<1> USE PatchExecutionAssumption DEF Action, GetsNearer, StepsLeft
<1>1. N \in Nat /\ i \in 1..N
  BY DEF IInv, ExecutionTypeOK
<1>2. CASE Prepare
  BY <1>1, <1>2 DEF Prepare
<1>3. CASE Execute
  BY <1>1, <1>3 DEF Execute
<1>4. CASE NoAdapter \/ SweepRaises
  BY <1>1, <1>4 DEF NoAdapter, SweepRaises
<1>5. CASE PrepareFails \/ ExecuteRaises \/ Verified \/ RollBack \/ RollBackRaises
  <2>1. /\ at \in {"prepare", "execute", "verify"}
        /\ \E s \in Result : Conclude(s)
    BY <1>5
       DEF PrepareFails, ExecuteRaises, Verified, RollBack, RollBackRaises, Result
  <2>2. \/ i < N /\ i' = i + 1 /\ at' = "prepare"
        \/ ~(i < N) /\ i' = 1 /\ at' = "sweep"
        \/ ~(i < N) /\ at' = "done"
    BY <2>1 DEF Conclude
  <2> QED BY <1>1, <2>1, <2>2
<1>6. CASE Sweep
  BY <1>1, <1>6 DEF Sweep, SweepOn
<1> QED BY <1>2, <1>3, <1>4, <1>5, <1>6 DEF ExecutionNext

(* No step takes back the result of an action, the sweep included.         *)
LEMMA NextResultsAreFinal == IInv /\ [ExecutionNext]_executionVars => ResultsAreFinal
<1> SUFFICES ASSUME IInv, [ExecutionNext]_executionVars,
                    NEW a \in Action, status[a] \in Result
             PROVE  status'[a] = status[a]
  BY DEF ResultsAreFinal
<1>1. CASE at \in {"prepare", "execute", "verify"}
  <2>1. a # i
    BY <1>1 DEF IInv, InOrder, Result
  <2>2. status' = status \/ \E s : status' = [status EXCEPT ![i] = s]
    BY DEF ExecutionNext, executionVars, Prepare, PrepareFails, NoAdapter, Execute, ExecuteRaises,
       Verified, RollBack, RollBackRaises, Sweep, SweepRaises, Conclude
  <2> QED BY <2>1, <2>2 DEF IInv, ExecutionTypeOK
<1>2. CASE at \notin {"prepare", "execute", "verify"}
  BY <1>2 DEF ExecutionNext, executionVars, Prepare, PrepareFails, NoAdapter, Execute,
     ExecuteRaises, Verified, RollBack, RollBackRaises, Sweep, SweepRaises
<1> QED BY <1>1, <1>2

(* A run of N actions ends after at most 4 * N of its steps, whatever      *)
(* fails and however often, and no result is ever taken back: the executor *)
(* has no retry, and the sweep passes each action once.                    *)
THEOREM RunsRunDown ==
  ExecutionSpec => []RunIsBounded /\ [][GetsNearer /\ ResultsAreFinal]_executionVars
<1>1. IInv => RunIsBounded
  BY PatchExecutionAssumption DEF IInv, ExecutionTypeOK, Action, RunIsBounded, StepsLeft
<1>2. IInv /\ [ExecutionNext]_executionVars => [GetsNearer /\ ResultsAreFinal]_executionVars
  BY NextGetsNearer, NextResultsAreFinal
<1> QED BY <1>1, <1>2, Inductive, PTL DEF ExecutionSpec

----------------------------------------------------------------------------
(* A rollout adapter's workload is at its old revision until it is         *)
(* patched, and each undo exchanges the present and the previous one.      *)
RolloutItem(a) ==
  /\ at \in {"prepare", "execute", "verify"} /\ a > i => cur[item[a]] = "old"
  /\ at \in {"prepare", "execute"} /\ a = i => cur[item[a]] = "old"
  /\ at = "verify" /\ i = a => cur[item[a]] = "new" /\ prev[item[a]] = "old"
  /\ status[a] = "ROLLED_BACK" /\ report = "ROLLED_BACK" => cur[item[a]] = "new"
  /\ status[a] = "ROLLED_BACK" /\ at = "sweep" /\ a < i => cur[item[a]] = "new"
  /\ status[a] = "ROLLED_BACK" /\ at # "done" /\ ~(at = "sweep" /\ a < i)
       => cur[item[a]] = "old" /\ prev[item[a]] = "new"

RolloutItems ==
  \A a \in Action : kind[a] = "rollout" /\ Alone(a) => RolloutItem(a)

SecondUndoRedoes ==
  \A a \in Action :
    /\ report = "ROLLED_BACK"
    /\ kind[a] = "rollout" /\ Alone(a)
    /\ status[a] = "ROLLED_BACK"
    => cur[item[a]] = "new"

(* Rollbacks by history revert no workload: their items are packages.      *)
Sorted == \A a, b \in Action : item[a] = item[b] => SameSort(a, b)

(* No other action touches the item of a rollout action that has it alone. *)
LEMMA RolloutsAreApart ==
  ASSUME IInv, Sorted, NEW a \in Action, kind[a] = "rollout", Alone(a),
         NEW b \in Action, a # b,
         PatchTaken(b) \/ RollbackTaken(b) \/ UNCHANGED host
  PROVE  cur'[item[a]] = cur[item[a]] /\ prev'[item[a]] = prev[item[a]]
<1>0. ExecutionTypeOK /\ LastIsHistory
  BY DEF IInv
<1>1. /\ item[a] \in Action /\ item[a] \in Item
      /\ item[b] # item[a]
  BY <1>0, PatchExecutionAssumption DEF ExecutionTypeOK, Action, Item, Alone
<1>2. ~MayUndo(b, item[a])
  BY <1>1 DEF MayUndo, Sorted, SameSort, Package
<1>3. CASE PatchTaken(b)
  BY <1>0, <1>1, <1>3, PatchChanges
<1>4. CASE RollbackTaken(b)
  BY <1>0, <1>1, <1>2, <1>4, RollbackSpares
<1>5. CASE UNCHANGED host
  BY <1>5 DEF host
<1> QED
  BY <1>3, <1>4, <1>5

(* Patching a rollout action makes its old revision the previous one.      *)
LEMMA RolloutPatched ==
  ASSUME IInv, kind[i] = "rollout", PatchTaken(i), cur[item[i]] = "old"
  PROVE  cur'[item[i]] = "new" /\ prev'[item[i]] = cur[item[i]]
BY PatchExecutionAssumption DEF PatchTaken, IInv, ExecutionTypeOK, Action, Item

(* Undoing one exchanges the two.                                          *)
LEMMA RolloutUndone ==
  ASSUME IInv, kind[i] = "rollout", RollbackTaken(i)
  PROVE  cur'[item[i]] = prev[item[i]] /\ prev'[item[i]] = cur[item[i]]
BY PatchExecutionAssumption
   DEF RollbackTaken, Swapped, IInv, ExecutionTypeOK, Action, Item

(* Every step keeps what is known of the rollout actions.                  *)
LEMMA NextRolloutItems ==
  IInv /\ Sorted /\ RolloutItems /\ [ExecutionNext]_executionVars => RolloutItems'
<1> SUFFICES ASSUME IInv, Sorted, RolloutItems, [ExecutionNext]_executionVars
             PROVE  RolloutItems'
  OBVIOUS
<1>K. kind' = kind /\ item' = item
  BY HostStep DEF IInv
<1> SUFFICES ASSUME NEW a \in Action, kind[a] = "rollout", Alone(a)
             PROVE  RolloutItem(a)'
  BY <1>K DEF RolloutItems, RolloutItem, Alone
<1> USE PatchExecutionAssumption DEF Action
<1>0. /\ ExecutionTypeOK /\ InOrder /\ Concluded
      /\ item' = item
      /\ N \in Nat /\ i \in 1..N /\ a \in 1..N
  BY <1>K DEF IInv, ExecutionTypeOK
<1>A. RolloutItem(a)
  BY DEF RolloutItems
<1> USE DEF RolloutItem
<1>1. CASE Prepare
  BY <1>0, <1>1, <1>A DEF Prepare, host, ExecutionTypeOK, InOrder
<1>2. CASE NoAdapter
  BY <1>0, <1>2, <1>A DEF NoAdapter, host
<1>3. CASE Execute
  <2>1. /\ status' = status /\ report' = "none"
        /\ at = "execute" /\ at' = "verify" /\ i' = i
        /\ status[i] \in {"QUEUED", "RUNNING"}
    BY <1>0, <1>3 DEF Execute, InOrder
  <2>2. CASE a # i
    <3>1. cur'[item[a]] = cur[item[a]] /\ prev'[item[a]] = prev[item[a]]
      BY <1>0, <1>3, <2>2, RolloutsAreApart DEF Execute
    <3> QED BY <1>0, <1>A, <2>1, <2>2, <3>1 DEF InOrder
  <2>3. CASE a = i
    <3>1. cur'[item[a]] = "new" /\ prev'[item[a]] = "old"
      BY <1>3, <1>A, <2>1, <2>3, RolloutPatched DEF Execute
    <3> QED BY <1>0, <2>1, <2>3, <3>1
  <2> QED BY <2>2, <2>3
<1>4. CASE PrepareFails \/ ExecuteRaises \/ Verified \/ RollBack \/ RollBackRaises
  <2>1. PICK s \in Result : Conclude(s) /\ (s = "ROLLED_BACK" => RollBack)
    BY <1>4
       DEF PrepareFails, ExecuteRaises, Verified, RollBack, RollBackRaises, Result
  <2>2. /\ at \in {"prepare", "execute", "verify"}
        /\ PatchTaken(i) \/ RollbackTaken(i) \/ UNCHANGED host
    BY <1>4 DEF PrepareFails, ExecuteRaises, Verified, RollBack, RollBackRaises
  <2>3. /\ report' # "ROLLED_BACK"
        /\ at' \notin {"execute", "verify"}
        /\ at' = "prepare" => i' = i + 1
        /\ ~(at' = "sweep" /\ a < i')
    BY <1>0, <2>1, <2>2 DEF Conclude, InOrder
  <2>4. CASE a # i
    <3>1. cur'[item[a]] = cur[item[a]] /\ prev'[item[a]] = prev[item[a]]
      BY <1>0, <2>2, <2>4, RolloutsAreApart
    <3>2. status'[a] = status[a]
      BY <1>0, <2>1, <2>4 DEF Conclude, ExecutionTypeOK
    <3>3. report = "none" /\ at \notin {"sweep", "done"}
      BY <1>0, <2>2 DEF InOrder
    <3> QED BY <1>0, <1>A, <2>2, <2>3, <2>4, <3>1, <3>2, <3>3
  <2>5. CASE a = i
    <3>1. status'[a] = s
      BY <1>0, <2>1, <2>5 DEF Conclude, ExecutionTypeOK
    <3>2. ASSUME s = "ROLLED_BACK"
          PROVE  cur'[item[a]] = "old" /\ prev'[item[a]] = "new"
      BY <1>A, <2>1, <2>5, <3>2, RolloutUndone DEF RollBack
    <3> QED BY <1>0, <2>3, <2>5, <3>1, <3>2 DEF Result
  <2> QED BY <2>4, <2>5
<1>5. CASE Sweep \/ SweepRaises
  <2>1. /\ status' = status
        /\ at = "sweep" /\ report = "none"
        /\ status[a] \in Result
        /\ PatchTaken(i) \/ RollbackTaken(i) \/ UNCHANGED host
    BY <1>0, <1>5 DEF Sweep, SweepRaises, InOrder, Concluded
  <2>2. CASE SweepRaises
    <3>1. at' = "done" /\ report' = "raised"
      BY <2>2 DEF SweepRaises
    <3> QED BY <2>1, <3>1 DEF Result
  <2>3. CASE Sweep /\ a # i
    <3>1. cur'[item[a]] = cur[item[a]] /\ prev'[item[a]] = prev[item[a]]
      BY <1>0, <2>1, <2>3, RolloutsAreApart
    <3>2. \/ i < N /\ i' = i + 1 /\ at' = "sweep" /\ report' = "none"
          \/ i = N /\ at' = "done"
      BY <1>0, <2>1, <2>3 DEF Sweep, SweepOn
    <3> QED BY <1>0, <1>A, <2>1, <2>3, <3>1, <3>2 DEF Result
  <2>4. CASE Sweep /\ a = i
    <3>1. at' \in {"sweep", "done"} /\ (at' = "done" => report' = "ROLLED_BACK")
      BY <2>1, <2>4 DEF Sweep, SweepOn
    <3>2. at' = "sweep" => i' = i + 1
      BY <2>4 DEF Sweep, SweepOn
    <3>3. ASSUME status[a] = "ROLLED_BACK"
          PROVE  cur'[item[a]] = "new"
      BY <1>0, <1>A, <2>1, <2>4, <3>3, RolloutUndone DEF Sweep
    <3> QED BY <1>0, <2>1, <2>4, <3>1, <3>2, <3>3 DEF Result
  <2> QED BY <1>5, <2>2, <2>3, <2>4
<1>6. CASE UNCHANGED executionVars
  BY <1>0, <1>6, <1>A DEF executionVars, host
<1> QED BY <1>1, <1>2, <1>3, <1>4, <1>5, <1>6 DEF ExecutionNext

(* A workload whose adapter undoes the last revision is never reverted by  *)
(* a run that rolled it back and swept: the sweep, which passes it again,  *)
(* brings the patch back, every time (execute_action, rollback_activity).  *)
(* For these adapters RolledBackMeansReverted fails in all such runs, not  *)
(* in some.                                                                *)
THEOREM SecondUndosRedo == ExecutionSpec => []SecondUndoRedoes
<1>1. ExecutionInit => Sorted /\ RolloutItems
  <2> SUFFICES ASSUME ExecutionInit PROVE Sorted /\ RolloutItems
    OBVIOUS
  <2>1. \A a \in Action : item[a] \in Item
    BY PatchExecutionAssumption DEF ExecutionInit, Action, Item
  <2> QED BY <2>1 DEF ExecutionInit, Sorted, RolloutItems, RolloutItem
<1>2. RolloutItems => SecondUndoRedoes
  BY DEF RolloutItems, RolloutItem, SecondUndoRedoes
<1>3. IInv /\ Sorted /\ [ExecutionNext]_executionVars => Sorted'
  BY HostStep DEF IInv, Sorted, SameSort
<1> QED
  BY <1>1, <1>2, <1>3, NextRolloutItems, Inductive, PTL DEF ExecutionSpec

----------------------------------------------------------------------------
(* The rollback of a "target" action is its patch: what it leaves is new.  *)
TargetsStay ==
  \A a \in Action :
    /\ (at = "sweep" /\ a < i) \/ report = "ROLLED_BACK"
    /\ status[a] # "SUCCESS"
    /\ \A b \in Action : item[b] = item[a] => kind[b] = "target"
    => cur[item[a]] = "new"

(* The sweep passes each such action, and nothing else touches its item.   *)
LEMMA NextTargetsStay == IInv /\ TargetsStay /\ [ExecutionNext]_executionVars => TargetsStay'
<1> SUFFICES ASSUME IInv, TargetsStay, [ExecutionNext]_executionVars,
                    NEW a \in Action,
                    (at' = "sweep" /\ a < i') \/ report' = "ROLLED_BACK",
                    status'[a] # "SUCCESS",
                    \A b \in Action : item'[b] = item'[a] => kind'[b] = "target"
             PROVE  cur'[item'[a]] = "new"
  BY DEF TargetsStay
<1>0. /\ ExecutionTypeOK /\ LastIsHistory /\ i \in Action
      /\ kind' = kind /\ item' = item
      /\ item[a] \in Action
  BY HostStep DEF IInv, ExecutionTypeOK
<1> USE PatchExecutionAssumption DEF Action
<1>1. CASE UNCHANGED executionVars
  BY <1>0, <1>1 DEF executionVars, host, TargetsStay
<1>2. CASE Sweep
  <2>1. status' = status /\ at = "sweep" /\ report = "none"
    BY <1>2 DEF Sweep, IInv, InOrder
  <2>2. a < i \/ a = i
    <3>1. i \in 1..N /\ a \in 1..N /\ N \in Nat
      BY <1>0
    <3> QED BY <1>2, <2>1, <3>1 DEF Sweep, SweepOn
  <2>3. CASE RollbackTaken(i) /\ item[i] = item[a]
    <3>1. PatchTaken(i)
      BY <1>0, <2>3 DEF RollbackTaken
    <3> QED BY <1>0, <2>3, <3>1, PatchChanges
  <2>4. CASE a < i
    <3>1. cur[item[a]] = "new"
      BY <1>0, <2>1, <2>4 DEF TargetsStay
    <3>2. CASE UNCHANGED host
      BY <1>0, <3>1, <3>2 DEF host
    <3>3. CASE RollbackTaken(i) /\ item[i] # item[a]
      <4>1. ~MayUndo(i, item[a])
        BY <1>0, <3>3 DEF MayUndo
      <4> QED BY <1>0, <3>1, <3>3, <4>1, RollbackSpares
    <3> QED BY <1>2, <2>3, <3>2, <3>3 DEF Sweep
  <2>5. CASE a = i
    BY <1>2, <2>1, <2>3, <2>5 DEF Sweep
  <2> QED BY <2>2, <2>4, <2>5
<1>3. CASE PrepareFails \/ ExecuteRaises \/ Verified \/ RollBack \/ RollBackRaises
  <2>1. /\ at \in {"prepare", "execute", "verify"}
        /\ \E s \in Result : Conclude(s)
    BY <1>3
       DEF PrepareFails, ExecuteRaises, Verified, RollBack, RollBackRaises, Result
  <2> QED BY <1>0, <2>1 DEF Conclude, IInv, InOrder
<1>4. CASE Prepare \/ NoAdapter \/ Execute \/ SweepRaises
  BY <1>4 DEF Prepare, NoAdapter, Execute, SweepRaises, IInv, InOrder
<1> QED BY <1>1, <1>2, <1>3, <1>4 DEF ExecutionNext

(* What the table of rollback strategies (README.md:59 and 61) says of apt *)
(* and apk, that a package goes back to its previous version, is not so of *)
(* apk, nor of apt without a template: in every run that ends ROLLED_BACK, *)
(* the packages of the actions that did not succeed are at the version of  *)
(* the patch, also the ones that were never patched (execute_rollback).    *)
THEOREM TargetRollbacksPatch == ExecutionSpec => []TargetsStay
<1>1. ExecutionInit => TargetsStay
  BY DEF ExecutionInit, TargetsStay
<1> QED
  BY <1>1, NextTargetsStay, Inductive, PTL DEF ExecutionSpec
=============================================================================
