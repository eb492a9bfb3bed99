--------------------------- MODULE PatchExecution ---------------------------
(***************************************************************************)
(* One engine run of a plan on one host: PatchExecutor.execute_plan        *)
(* (services/execution_engine/executor.py) takes the actions in order,     *)
(* each with its own rollback when its verification fails, and if any of   *)
(* them was rolled back, rollback_activity (orchestrator/activities.py)    *)
(* sweeps over the actions that did not succeed.                           *)
(*                                                                         *)
(* An action changes one item of the host: a package, a kernel parameter,  *)
(* a workload, an image.  Nothing keeps two actions of a plan from naming  *)
(* the same one.  What an adapter's command does to the item is external:  *)
(* the adapters in src/ only build the command line.  They differ in how   *)
(* they roll back:                                                         *)
(*   "pinned"  to what was there before: the command of an action with a   *)
(*             rollback template (apt, ssm; the template is taken to name  *)
(*             the version installed), the removal of an update (winrm) or *)
(*             of a rule (waf_rule)                                        *)
(*   "target"  to the version of the patch: apk, apt given no template     *)
(*   "preset"  to a value that is always the same: sysctl                  *)
(*   "none"    with no command: a template that is saved as null or empty  *)
(*   "rollout" to the revision before the present one: kubectl rollout     *)
(*             undo, which makes the present one the previous one          *)
(*   "history" by reverting the last transaction of the host, whatever it  *)
(*             was: dnf history undo last                                  *)
(*   "image"   to the previous tag: the container patcher, whose patch may *)
(*             also be rejected by the signature check                     *)
(***************************************************************************)
EXTENDS Naturals

CONSTANT N     \* how many actions the plan has

ASSUME PatchExecutionAssumption == N \in Nat \ {0}

VARIABLES
  kind,      \* how the adapter of each action rolls back
  item,      \* what each action is about; two actions may share it
  cur, prev, \* of each item, the version in use and the one before it
  last,      \* the item that the host's last package transaction changed
  status,    \* status of each action's result
  i,         \* the action that is being executed, or swept
  at,        \* what is done with it: "prepare", "execute", "verify", "sweep"
  report,    \* overall_status once the run is over, "raised" if it raised
  rejected   \* history: the actions whose adapter answered FAILED

plan == <<kind, item>>

host == <<cur, prev, last>>

executionVars == <<plan, host, status, i, at, report, rejected>>

----------------------------------------------------------------------------
Action == 1..N

(* 0 is what the host's last transaction before this run changed.          *)
Item == 0..N

Package == {"pinned", "target", "none", "history"}

Kind == Package \cup {"preset", "rollout", "image"}

(* "new" is what an action of the plan installs: where two actions of the  *)
(* plan share an item, what either of them does.                           *)
Version == {"older", "old", "new", "preset"}

(* Actions that share an item have adapters that deal with such items.     *)
SameSort(a, b) == kind[a] = kind[b] \/ {kind[a], kind[b]} \subseteq Package

ExecutionTypeOK ==
  /\ kind \in [Action -> Kind]
  /\ item \in [Action -> Action]
  /\ cur \in [Item -> Version]
  /\ prev \in [Item -> Version]
  /\ last \in Item
  /\ status \in [Action -> {"QUEUED", "RUNNING", "SUCCESS", "FAILED", "ROLLED_BACK"}]
  /\ i \in Action
  /\ at \in {"prepare", "execute", "verify", "sweep", "done"}
  /\ report \in {"none", "SUCCESS", "COMPLETED_WITH_FAILURES", "ROLLED_BACK", "raised"}
  /\ rejected \in SUBSET Action

ExecutionInit ==
  /\ kind \in [Action -> Kind]
  /\ item \in [Action -> Action]
  /\ \A a \in Action : item[a] \leq a /\ item[item[a]] = item[a]
  /\ \A a, b \in Action : item[a] = item[b] => SameSort(a, b)
  /\ cur = [x \in Item |-> "old"]
  /\ prev = [x \in Item |-> "older"]
  /\ last = 0
  /\ status = [a \in Action |-> "QUEUED"]
  /\ i = 1
  /\ at = "prepare"
  /\ report = "none"
  /\ rejected = {}

----------------------------------------------------------------------------
(* What the commands do to the host.  An item that is patched already is   *)
(* left alone, or changed to the other version of the two.                 *)
PatchTaken(a) ==
  \/ /\ cur' = [cur EXCEPT ![item[a]] = "new"]
     /\ prev' = [prev EXCEPT ![item[a]] = cur[item[a]]]
     /\ last' = IF kind[a] = "history" THEN item[a] ELSE last
  \/ cur[item[a]] = "new" /\ UNCHANGED host

SetTo(x, version) ==
  /\ cur' = [cur EXCEPT ![x] = version]
  /\ UNCHANGED <<prev, last>>

Swapped(x) ==
  /\ cur' = [cur EXCEPT ![x] = prev[x]]
  /\ prev' = [prev EXCEPT ![x] = cur[x]]
  /\ UNCHANGED last

RollbackTaken(a) ==
  \/ kind[a] = "pinned"  /\ SetTo(item[a], "old")
  \/ kind[a] = "target"  /\ PatchTaken(a)
  \/ kind[a] = "preset"  /\ SetTo(item[a], "preset")
  \/ kind[a] = "none"    /\ UNCHANGED host
  \/ kind[a] = "rollout" /\ Swapped(item[a])
  \/ kind[a] = "history" /\ Swapped(last)
  \/ kind[a] = "image"   /\ SetTo(item[a], prev[item[a]])

----------------------------------------------------------------------------
(* overall_status of execute_plan, from the statuses of its actions.       *)
Overall(s) ==
  IF \E a \in Action : s[a] = "ROLLED_BACK" THEN "ROLLED_BACK"
  ELSE IF \A a \in Action : s[a] = "SUCCESS" THEN "SUCCESS"
  ELSE "COMPLETED_WITH_FAILURES"

(* The result of action i is s, and the next action follows.  After the    *)
(* last one the run is over, or the sweep begins at the first action.      *)
Conclude(s) ==
  /\ status' = [status EXCEPT ![i] = s]
  /\ IF i < N
       THEN i' = i + 1 /\ at' = "prepare" /\ UNCHANGED report
     ELSE IF Overall(status') = "ROLLED_BACK"
       THEN i' = 1 /\ at' = "sweep" /\ UNCHANGED report
       ELSE UNCHANGED i /\ at' = "done" /\ report' = Overall(status')

(* The snapshot and the dry-run, or one of them fails.                     *)
Prepare ==
  /\ at = "prepare"
  /\ at' = "execute"
  /\ status' = [status EXCEPT ![i] = "RUNNING"]
  /\ UNCHANGED <<plan, host, i, report, rejected>>

PrepareFails ==
  /\ at = "prepare"
  /\ Conclude("FAILED")
  /\ UNCHANGED <<plan, host, rejected>>

(* There is no adapter for the method of action i: the run raises.         *)
NoAdapter ==
  /\ at = "prepare"
  /\ at' = "done"
  /\ report' = "raised"
  /\ UNCHANGED <<plan, host, status, i, rejected>>

(* execute_patch returns: the patch is in place, or was rejected.  The     *)
(* executor reads the logs of its answer, never the status.                *)
Execute ==
  /\ at = "execute"
  /\ at' = "verify"
  /\ \/ PatchTaken(i) /\ UNCHANGED rejected
     \/ kind[i] = "image" /\ rejected' = rejected \cup {i} /\ UNCHANGED host
  /\ UNCHANGED <<plan, status, i, report>>

(* execute_patch raises, before or after the host was changed.             *)
ExecuteRaises ==
  /\ at = "execute"
  /\ PatchTaken(i) \/ UNCHANGED host
  /\ Conclude("FAILED")
  /\ UNCHANGED <<plan, rejected>>

(* _verify is satisfied.                                                   *)
Verified ==
  /\ at = "verify"
  /\ Conclude("SUCCESS")
  /\ UNCHANGED <<plan, host, rejected>>

(* _verify is not satisfied: the automatic rollback, which may raise,      *)
(* before or after it changed the host.                                    *)
RollBack ==
  /\ at = "verify"
  /\ RollbackTaken(i)
  /\ Conclude("ROLLED_BACK")
  /\ UNCHANGED <<plan, rejected>>

RollBackRaises ==
  /\ at = "verify"
  /\ RollbackTaken(i) \/ UNCHANGED host
  /\ Conclude("FAILED")
  /\ UNCHANGED <<plan, rejected>>

----------------------------------------------------------------------------
(* Mutant of SweepOn: one index too far.                                   *)
SweepOnPastEnd ==
  IF i \leq N THEN i' = i + 1 /\ UNCHANGED <<at, report>>
              ELSE UNCHANGED i /\ at' = "done" /\ report' = "ROLLED_BACK"

(* rollback_activity: once more, for every action that did not succeed.    *)
SweepOn ==
  IF i < N THEN i' = i + 1 /\ UNCHANGED <<at, report>>
           ELSE UNCHANGED i /\ at' = "done" /\ report' = "ROLLED_BACK"

(* Mutants of Sweep: it skips the actions that failed, or skips none.      *)
SweepRolledBackOnly ==
  /\ at = "sweep"
  /\ IF status[i] = "ROLLED_BACK" THEN RollbackTaken(i) ELSE UNCHANGED host
  /\ SweepOn
  /\ UNCHANGED <<plan, status, rejected>>

SweepAll ==
  /\ at = "sweep"
  /\ RollbackTaken(i)
  /\ SweepOn
  /\ UNCHANGED <<plan, status, rejected>>

Sweep ==
  /\ at = "sweep"
  /\ IF status[i] # "SUCCESS" THEN RollbackTaken(i) ELSE UNCHANGED host
  /\ SweepOn
  /\ UNCHANGED <<plan, status, rejected>>

(* The sweep is not guarded: a rollback that raises ends the run.          *)
SweepRaises ==
  /\ at = "sweep"
  /\ status[i] # "SUCCESS"
  /\ RollbackTaken(i) \/ UNCHANGED host
  /\ at' = "done"
  /\ report' = "raised"
  /\ UNCHANGED <<plan, status, i, rejected>>

ExecutionNext ==
  \/ Prepare \/ PrepareFails \/ NoAdapter
  \/ Execute \/ ExecuteRaises
  \/ Verified \/ RollBack \/ RollBackRaises
  \/ Sweep \/ SweepRaises

ExecutionSpec == ExecutionInit /\ [][ExecutionNext]_executionVars

----------------------------------------------------------------------------
Alone(a) == \A b \in Action \ {a} : item[b] # item[a]

Unsuccessful(a) == status[a] \in {"FAILED", "ROLLED_BACK"}

(* The rollback of b may undo a patch on item x: its own, or, when it goes *)
(* by history, that of any action whose package manager keeps the history. *)
MayUndo(b, x) ==
  \/ item[b] = x
  \/ kind[b] = "history" /\ \E c \in Action : kind[c] = "history" /\ item[c] = x

(* An action reported SUCCESS has its patch on the host, if its adapter    *)
(* took it: whatever fails before or after it, and whatever the rollbacks  *)
(* and the sweep do, as long as no action that fails may undo its item.    *)
SuccessIsKept ==
  \A a \in Action \ rejected :
    /\ status[a] = "SUCCESS"
    /\ \A b \in Action : Unsuccessful(b) => ~MayUndo(b, item[a])
    => cur[item[a]] = "new"

(* When the rollbacks name the version before, a run that ends ROLLED_BACK *)
(* has brought back every item of an action that did not succeed, also of  *)
(* the ones that failed half-way and were never rolled back before.        *)
PinnedRunsRevert ==
  \A a \in Action :
    /\ report = "ROLLED_BACK"
    /\ status[a] # "SUCCESS"
    /\ \A b \in Action : item[b] = item[a] => kind[b] = "pinned"
    => cur[item[a]] = "old"

(* What the activity promises (activities.py:71), "roll back any failed /  *)
(* unverified actions", and the executor (executor.py:11-13), of workloads *)
(* that a single action is about: a run that ends ROLLED_BACK leaves those *)
(* it did roll back at the revision before.                                *)
RolledBackMeansReverted ==
  \A a \in Action :
    /\ report = "ROLLED_BACK"
    /\ status[a] = "ROLLED_BACK"
    /\ kind[a] = "rollout" /\ Alone(a)
    => cur[item[a]] = "old"
=============================================================================
