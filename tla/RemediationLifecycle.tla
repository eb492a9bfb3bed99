----------------------- MODULE RemediationLifecycle -----------------------
(***************************************************************************)
(* The control plane's remediation lifecycle: plans, approvals and patch   *)
(* jobs as the handlers of services/control_plane/api/v1 (remediation.py,  *)
(* approvals.py, patch_jobs.py) move them, around one engine run under the *)
(* host lock (services/orchestrator/engine.py).                            *)
(*                                                                         *)
(* A request is a session of its own (core/db.py): what it has loaded      *)
(* stays in its objects across commits (expire_on_commit=False), the SQL   *)
(* it commits writes a column only if the new value differs from the       *)
(* loaded one, and every await lets other requests commit in between.  A   *)
(* handler is modelled from commit to commit, with its reads as steps of   *)
(* their own where the value read is used after another await.             *)
(*                                                                         *)
(* All requests live in one process, the one whose death is Crash.  The    *)
(* lock is LeaseLock, which Redlock implements.                            *)
(***************************************************************************)
EXTENDS Naturals

CONSTANTS
  Plan, Job, Request, Host,
  HostOf,        \* the host of each plan's asset
  Outcome,       \* what an engine run may report: SUCCESS and the others
  NoPlan, NoJob, \* the plan and the job of a row or request that has none
  NoOne,         \* the owner of a lock that is free
  Nowhere,       \* the section of a request that holds no lock
  MaxCalls       \* bound: how many approvals, executions and rollbacks arrive

ASSUME LifecycleAssumption ==
  /\ HostOf \in [Plan -> Host]
  /\ "SUCCESS" \in Outcome
  /\ Outcome \cap {"none", "QUEUED", "RUNNING", "BLOCKED"} = {}
  /\ NoPlan \notin Plan
  /\ NoJob \notin Job
  /\ NoOne \notin Request
  /\ Nowhere \notin Host
  /\ MaxCalls \in Nat

VARIABLES
  plan,       \* status of each row of remediation_plans, "none" before it exists
  job,        \* status of each row of patch_jobs, "none" before it exists
  planOf,     \* plan_id of each job
  decisions,  \* the decisions recorded for each plan in approvals
  events,     \* the audit events logged: what, about which plan, saying what
  req,        \* where each request is, its rows, and what it loaded of them
  calls,      \* how many of them have arrived
  owner, inside, lost,   \* the host locks, see LeaseLock
  denied,     \* history: the plans the policy engine rejected
  ran,        \* history: per plan, what the engine reported when it was run
  failed      \* history: the plans about which a request died on its way

lockVars == <<owner, inside, lost>>

vars == <<plan, job, planOf, decisions, events, req, calls, lockVars, denied, ran, failed>>

HostLock == INSTANCE LeaseLock WITH Client <- Request, Lock <- Host

----------------------------------------------------------------------------
Decision == {"APPROVED", "REJECTED"}

PlanStatus == {"none", "PENDING_APPROVAL", "REJECTED_BY_POLICY", "APPROVED",
               "REJECTED_BY_HUMAN", "EXECUTED", "FAILED"}

Result == Outcome \cup {"BLOCKED"}

JobStatus == Result \cup {"none", "QUEUED", "RUNNING", "ROLLED_BACK"}

Event == [what : {"APPROVAL_DECISION", "PATCH_EXECUTED", "PATCH_ROLLED_BACK"},
          plan : Plan, says : Decision \cup JobStatus]

(* Where a request is.  execute_patch_job: loadPlan, markRunning, run,     *)
(* running, saveJob, refreshJob, savePlan, logRun; an approval: decide,    *)
(* logDecision; rollback_patch_job: undo, logUndo.                         *)
Stage == {"idle",
          "loadPlan", "markRunning", "run", "running", "saveJob", "refreshJob", "savePlan", "logRun",
          "decide", "logDecision",
          "undo", "logUndo"}

(* "saw" is the status last loaded with the row the request acts on,       *)
(* "result" the overall_status or the decision it carries.                 *)
Idle == [at |-> "idle", plan |-> NoPlan, job |-> NoJob, saw |-> "none", result |-> "none"]

Req == [at : Stage, plan : Plan \cup {NoPlan}, job : Job \cup {NoJob},
        saw : PlanStatus \cup JobStatus, result : {"none"} \cup Result \cup Decision]

TypeOK ==
  /\ plan \in [Plan -> PlanStatus]
  /\ job \in [Job -> JobStatus]
  /\ planOf \in [Job -> Plan \cup {NoPlan}]
  /\ decisions \in [Plan -> SUBSET Decision]
  /\ events \in SUBSET Event
  /\ req \in [Request -> Req]
  /\ calls \in 0..MaxCalls
  /\ HostLock!TypeOK
  /\ denied \in SUBSET Plan
  /\ ran \in [Plan -> SUBSET Outcome]
  /\ failed \in SUBSET Plan

Init ==
  /\ plan = [p \in Plan |-> "none"]
  /\ job = [j \in Job |-> "none"]
  /\ planOf = [j \in Job |-> NoPlan]
  /\ decisions = [p \in Plan |-> {}]
  /\ events = {}
  /\ req = [r \in Request |-> Idle]
  /\ calls = 0
  /\ HostLock!Init
  /\ denied = {}
  /\ ran = [p \in Plan |-> {}]
  /\ failed = {}

(* What a commit leaves in a column: the session writes the new value only *)
(* if it is not the one it loaded.                                         *)
Written(current, saw, new) == IF new = saw THEN current ELSE new

Log(what, p, says) ==
  events' = events \cup {[what |-> what, plan |-> p, says |-> says]}

(* A call arrives at the request r, which begins as start.                 *)
Begin(r, start) ==
  /\ req[r].at = "idle"
  /\ calls < MaxCalls
  /\ calls' = calls + 1
  /\ req' = [req EXCEPT ![r] = start]

Finish(r) == req' = [req EXCEPT ![r] = Idle]

----------------------------------------------------------------------------
(* POST /remediation/generate: the plan is inserted with the verdict of    *)
(* the policy engine as its status.                                        *)
Generate(p, allowed) ==
  /\ plan[p] = "none"
  /\ plan' = [plan EXCEPT ![p] = IF allowed THEN "PENDING_APPROVAL"
                                             ELSE "REJECTED_BY_POLICY"]
  /\ denied' = IF allowed THEN denied ELSE denied \cup {p}
  /\ UNCHANGED <<calls, job, planOf, decisions, events, req, lockVars, ran, failed>>

(* POST /patch-jobs: for any plan that exists, whatever its status.        *)
CreateJob(j, p) ==
  /\ job[j] = "none"
  /\ plan[p] # "none"
  /\ job' = [job EXCEPT ![j] = "QUEUED"]
  /\ planOf' = [planOf EXCEPT ![j] = p]
  /\ UNCHANGED <<calls, plan, decisions, events, req, lockVars, denied, ran, failed>>

----------------------------------------------------------------------------
(* POST /approvals and its callback: load the plan, record the decision    *)
(* and move the plan whatever its status, commit; then log the decision.   *)
StartApproval(r, p, d) ==
  /\ plan[p] # "none"
  /\ Begin(r, [at |-> "decide", plan |-> p, job |-> NoJob, saw |-> plan[p], result |-> d])
  /\ UNCHANGED <<plan, job, planOf, decisions, events, lockVars, denied, ran, failed>>

Verdict(d) == IF d = "APPROVED" THEN "APPROVED" ELSE "REJECTED_BY_HUMAN"

(* Mutant of CommitDecision: the decision itself becomes the plan's status. *)
CommitRawDecision(r) ==
  /\ req[r].at = "decide"
  /\ LET p == req[r].plan  d == req[r].result IN
       /\ plan' = [plan EXCEPT ![p] = d]
       /\ decisions' = [decisions EXCEPT ![p] = @ \cup {d}]
  /\ req' = [req EXCEPT ![r].at = "logDecision"]
  /\ UNCHANGED <<calls, job, planOf, events, lockVars, denied, ran, failed>>

CommitDecision(r) ==
  /\ req[r].at = "decide"
  /\ LET p == req[r].plan  d == req[r].result IN
       /\ plan' = [plan EXCEPT ![p] = Written(@, req[r].saw, Verdict(d))]
       /\ decisions' = [decisions EXCEPT ![p] = @ \cup {d}]
  /\ req' = [req EXCEPT ![r].at = "logDecision"]
  /\ UNCHANGED <<calls, job, planOf, events, lockVars, denied, ran, failed>>

LogDecision(r) ==
  /\ req[r].at = "logDecision"
  /\ Log("APPROVAL_DECISION", req[r].plan, req[r].result)
  /\ Finish(r)
  /\ UNCHANGED <<calls, plan, job, planOf, decisions, lockVars, denied, ran, failed>>

----------------------------------------------------------------------------
(* POST /patch-jobs/{id}/execute, up to its first await: load the job.     *)
StartExecution(r, j) ==
  /\ job[j] # "none"
  /\ Begin(r, [at |-> "loadPlan", plan |-> planOf[j], job |-> j, saw |-> job[j], result |-> "none"])
  /\ UNCHANGED <<plan, job, planOf, decisions, events, lockVars, denied, ran, failed>>

(* Mutant of CheckApproved: only a rejection stands in the way.            *)
CheckNotRejected(r) ==
  /\ req[r].at = "loadPlan"
  /\ IF plan[req[r].plan] \notin {"REJECTED_BY_POLICY", "REJECTED_BY_HUMAN"}
       THEN req' = [req EXCEPT ![r].at = "markRunning"]
       ELSE Finish(r)
  /\ UNCHANGED <<calls, plan, job, planOf, decisions, events, lockVars, denied, ran, failed>>

(* Mutant of CheckApproved: the job is marked before the plan is checked.  *)
MarkThenCheck(r) ==
  /\ req[r].at = "loadPlan"
  /\ job' = [job EXCEPT ![req[r].job] = Written(@, req[r].saw, "RUNNING")]
  /\ IF plan[req[r].plan] = "APPROVED"
       THEN req' = [req EXCEPT ![r].at = "run"]
       ELSE Finish(r)
  /\ UNCHANGED <<calls, plan, planOf, decisions, events, lockVars, denied, ran, failed>>

(* Load the plan; 409 unless it is APPROVED.                               *)
CheckApproved(r) ==
  /\ req[r].at = "loadPlan"
  /\ IF plan[req[r].plan] = "APPROVED"
       THEN req' = [req EXCEPT ![r].at = "markRunning"]
       ELSE Finish(r)
  /\ UNCHANGED <<calls, plan, job, planOf, decisions, events, lockVars, denied, ran, failed>>

(* The first commit: the job is RUNNING.                                   *)
MarkRunning(r) ==
  /\ req[r].at = "markRunning"
  /\ job' = [job EXCEPT ![req[r].job] = Written(@, req[r].saw, "RUNNING")]
  /\ req' = [req EXCEPT ![r].at = "run"]
  /\ UNCHANGED <<calls, plan, planOf, decisions, events, lockVars, denied, ran, failed>>

(* Mutant of EnterEngine: acquire() is called and its answer ignored.      *)
EnterRegardless(r) ==
  /\ req[r].at = "run"
  /\ owner' = [owner EXCEPT ![HostOf[req[r].plan]] = IF @ = NoOne THEN r ELSE @]
  /\ inside' = [inside EXCEPT ![r] = HostOf[req[r].plan]]
  /\ req' = [req EXCEPT ![r].at = "running"]
  /\ UNCHANGED <<calls, plan, job, planOf, decisions, events, lost, denied, ran, failed>>

(* run_remediation takes the host lock, or reports BLOCKED.                *)
EnterEngine(r) ==
  /\ req[r].at = "run"
  /\ HostLock!Enter(r, HostOf[req[r].plan])
  /\ req' = [req EXCEPT ![r].at = "running"]
  /\ UNCHANGED <<calls, plan, job, planOf, decisions, events, denied, ran, failed>>

Blocked(r) ==
  /\ req[r].at = "run"
  /\ owner[HostOf[req[r].plan]] # NoOne
  /\ req' = [req EXCEPT ![r].at = "saveJob", ![r].result = "BLOCKED"]
  /\ UNCHANGED <<calls, plan, job, planOf, decisions, events, lockVars, denied, ran, failed>>

(* The request leaves the section of its host; the record of the lock goes *)
(* or stays.                                                               *)
Leave(r) == \E K \in {{}, {inside[r]}} : HostLock!Vanish({r}, K)

(* run_remediation returns, after release(): the record is gone if it was  *)
(* this request's, and if it was not, the backend decides.                 *)
RunReturns(r, outcome) ==
  /\ req[r].at = "running"
  /\ Leave(r)
  /\ owner'[inside[r]] # r
  /\ ran' = [ran EXCEPT ![req[r].plan] = @ \cup {outcome}]
  /\ req' = [req EXCEPT ![r].at = "saveJob", ![r].result = outcome]
  /\ UNCHANGED <<calls, plan, job, planOf, decisions, events, denied, failed>>

(* The request ends in an error on its way: a commit is refused, Redis     *)
(* does not answer, or run_remediation raises (no such adapter, a rollback *)
(* that fails).  What it committed stays, the rest of it never happens.    *)
(* An acquire() that takes the lock and raises leaves what a request does  *)
(* that enters and raises at once.                                         *)
Raise(r) ==
  /\ req[r].at # "idle"
  /\ IF req[r].at = "running" THEN Leave(r) ELSE UNCHANGED lockVars
  /\ failed' = failed \cup {req[r].plan}
  /\ Finish(r)
  /\ UNCHANGED <<calls, plan, job, planOf, decisions, events, denied, ran>>

(* The second commit: the job takes the overall status of the run.         *)
SaveJob(r) ==
  /\ req[r].at = "saveJob"
  /\ job' = [job EXCEPT ![req[r].job] = req[r].result]
  /\ req' = [req EXCEPT ![r].at = "refreshJob"]
  /\ UNCHANGED <<calls, plan, planOf, decisions, events, lockVars, denied, ran, failed>>

(* The job is refreshed: it says what was committed last, which may be     *)
(* another request's.                                                      *)
RefreshJob(r) ==
  /\ req[r].at = "refreshJob"
  /\ req' = [req EXCEPT ![r].at = "savePlan", ![r].saw = job[req[r].job]]
  /\ UNCHANGED <<calls, plan, job, planOf, decisions, events, lockVars, denied, ran, failed>>

(* Mutant of SavePlan: every run that was not blocked executes the plan.   *)
SavePlanUnlessBlocked(r) ==
  /\ req[r].at = "savePlan"
  /\ plan' = [plan EXCEPT ![req[r].plan] =
                IF req[r].saw # "BLOCKED" THEN "EXECUTED" ELSE "FAILED"]
  /\ req' = [req EXCEPT ![r].at = "logRun"]
  /\ UNCHANGED <<calls, job, planOf, decisions, events, lockVars, denied, ran, failed>>

(* The third commit moves the plan by what the refreshed job says,         *)
(* whatever the plan has become.                                           *)
SavePlan(r) ==
  /\ req[r].at = "savePlan"
  /\ plan' = [plan EXCEPT ![req[r].plan] =
                IF req[r].saw = "SUCCESS" THEN "EXECUTED" ELSE "FAILED"]
  /\ req' = [req EXCEPT ![r].at = "logRun"]
  /\ UNCHANGED <<calls, job, planOf, decisions, events, lockVars, denied, ran, failed>>

(* Mutant of LogRun: failures are not logged.                              *)
LogRunIfSuccess(r) ==
  /\ req[r].at = "logRun"
  /\ IF req[r].saw = "SUCCESS"
       THEN Log("PATCH_EXECUTED", req[r].plan, req[r].saw)
       ELSE UNCHANGED events
  /\ Finish(r)
  /\ UNCHANGED <<calls, plan, job, planOf, decisions, lockVars, denied, ran, failed>>

(* The event tells what the job said when it was refreshed.                *)
LogRun(r) ==
  /\ req[r].at = "logRun"
  /\ Log("PATCH_EXECUTED", req[r].plan, req[r].saw)
  /\ Finish(r)
  /\ UNCHANGED <<calls, plan, job, planOf, decisions, lockVars, denied, ran, failed>>

----------------------------------------------------------------------------
(* POST /patch-jobs/{id}/rollback: load the job, mark it ROLLED_BACK,      *)
(* commit; then log it.  Neither the plan nor the host is touched.         *)
StartRollback(r, j) ==
  /\ job[j] # "none"
  /\ Begin(r, [at |-> "undo", plan |-> planOf[j], job |-> j, saw |-> job[j], result |-> "none"])
  /\ UNCHANGED <<plan, job, planOf, decisions, events, lockVars, denied, ran, failed>>

CommitRollback(r) ==
  /\ req[r].at = "undo"
  /\ job' = [job EXCEPT ![req[r].job] = Written(@, req[r].saw, "ROLLED_BACK")]
  /\ req' = [req EXCEPT ![r].at = "logUndo"]
  /\ UNCHANGED <<calls, plan, planOf, decisions, events, lockVars, denied, ran, failed>>

LogRollback(r) ==
  /\ req[r].at = "logUndo"
  /\ Log("PATCH_ROLLED_BACK", req[r].plan, "ROLLED_BACK")
  /\ Finish(r)
  /\ UNCHANGED <<calls, plan, job, planOf, decisions, lockVars, denied, ran, failed>>

----------------------------------------------------------------------------
(* A host's lock record expires.                                           *)
LeaseExpires(h) ==
  /\ owner[h] # NoOne
  /\ HostLock!Vanish({}, {h})
  /\ UNCHANGED <<calls, plan, job, planOf, decisions, events, req, denied, ran, failed>>

(* The process dies: its requests are gone, and its lock records may be    *)
(* (they are when they are kept in the process).                           *)
Crash ==
  /\ req # [r \in Request |-> Idle]
  /\ req' = [r \in Request |-> Idle]
  /\ \E K \in {{}, Host} : HostLock!Vanish(Request, K)
  /\ failed' = failed \cup ({req[r].plan : r \in Request} \ {NoPlan})
  /\ UNCHANGED <<calls, plan, job, planOf, decisions, events, denied, ran>>

Proceed(r) ==
  \/ CommitDecision(r) \/ LogDecision(r)
  \/ CheckApproved(r) \/ MarkRunning(r) \/ EnterEngine(r) \/ Blocked(r)
  \/ \E o \in Outcome : RunReturns(r, o)
  \/ SaveJob(r) \/ RefreshJob(r) \/ SavePlan(r) \/ LogRun(r)
  \/ CommitRollback(r) \/ LogRollback(r)

Next ==
  \/ \E p \in Plan, allowed \in BOOLEAN : Generate(p, allowed)
  \/ \E j \in Job, p \in Plan : CreateJob(j, p)
  \/ \E r \in Request, p \in Plan, d \in Decision : StartApproval(r, p, d)
  \/ \E r \in Request, j \in Job : StartExecution(r, j) \/ StartRollback(r, j)
  \/ \E r \in Request : Proceed(r) \/ Raise(r)
  \/ \E h \in Host : LeaseExpires(h)
  \/ Crash

Spec == Init /\ [][Next]_vars

(* A request that can go on does: the event loop runs every ready          *)
(* coroutine, and the database and the adapters answer or raise.           *)
FairSpec == Spec /\ \A r \in Request : WF_vars(Proceed(r) \/ Raise(r))

----------------------------------------------------------------------------
(* Nothing is run for a plan nobody approved: not after stale reads, not   *)
(* through a second job, not by a request that overlaps a rejection        *)
(* (execute_patch_job and the approval handlers).                          *)
RunsAreApproved == \A p \in Plan : ran[p] # {} => "APPROVED" \in decisions[p]

(* Whatever claims success (an EXECUTED plan, a SUCCESS job, a logged      *)
(* event) goes back to an engine run of that plan that succeeded, however  *)
(* the requests about it overlapped (execute_patch_job).                   *)
SuccessIsReal ==
  /\ \A p \in Plan : plan[p] = "EXECUTED" => "SUCCESS" \in ran[p]
  /\ \A j \in Job : job[j] = "SUCCESS" => "SUCCESS" \in ran[planOf[j]]
  /\ \A e \in events : e.says = "SUCCESS" => "SUCCESS" \in ran[e.plan]

(* A job says RUNNING only while some request is executing it, unless a    *)
(* request about its plan died (execute_patch_job, rollback_patch_job).    *)
RunningJobIsAttended ==
  \A j \in Job :
    job[j] = "RUNNING" /\ planOf[j] \notin failed
      => \E r \in Request : /\ req[r].job = j
                            /\ req[r].at \in {"run", "running", "saveJob"}

(* What was decided about a plan, and that it was run, is in the audit     *)
(* trail, or a request is about to log it, or one died before it could:    *)
(* the trail is a commit of its own, after the one it reports.             *)
DecisionsAreAudited ==
  \A p \in Plan \ failed : \A d \in decisions[p] :
    \/ \E e \in events : e.what = "APPROVAL_DECISION" /\ e.plan = p /\ e.says = d
    \/ \E r \in Request : req[r].at = "logDecision" /\ req[r].plan = p /\ req[r].result = d

RunsAreAudited ==
  \A p \in Plan \ failed : plan[p] \in {"EXECUTED", "FAILED"} =>
    \/ \E e \in events : e.what = "PATCH_EXECUTED" /\ e.plan = p
    \/ \E r \in Request : req[r].at = "logRun" /\ req[r].plan = p

DecisionsAndRunsAreAudited == DecisionsAreAudited /\ RunsAreAudited

(* Two engine runs are never inside one host at a time, unless the lease   *)
(* of one of them ended under it (run_remediation under the lock).         *)
Running(h) == {r \in Request : req[r].at = "running" /\ HostOf[req[r].plan] = h}

OneRunPerHost ==
  \A h \in Host \ lost : \A r, s \in Running(h) : r = s

(* A RUNNING job settles: some request gives it another status, or one     *)
(* about its plan died.                                                    *)
JobsSettle ==
  \A j \in Job :
    job[j] = "RUNNING" ~> job[j] # "RUNNING" \/ planOf[j] \in failed

(* What the README promises (README.md:34): the policy gate is not         *)
(* bypassable, so a plan it rejected is never run.                         *)
PolicyIsNotBypassed == \A p \in denied : ran[p] = {}
=============================================================================
