--------------------- MODULE RemediationLifecycleProofs ---------------------
(***************************************************************************)
(* Proofs about RemediationLifecycle: every safety invariant its run       *)
(* checks, for any number of plans, jobs, hosts and requests.  None of     *)
(* them is inductive alone; IInv adds what a request carries from one step *)
(* to the next (Carried), the approval behind a request that found its     *)
(* plan APPROVED, the run behind a SUCCESS on its way to a row, and who    *)
(* owns the lock of a host.  One lemma per conjunct of IInv, and in it one *)
(* step per action.                                                        *)
(***************************************************************************)
EXTENDS RemediationLifecycle, TLAPS

OnJob == {"loadPlan", "markRunning", "run", "running", "saveJob", "refreshJob", "savePlan",
          "logRun", "undo", "logUndo"}

PastCheck == {"markRunning", "run", "running", "saveJob", "refreshJob", "savePlan",
              "logRun"}

(* The rows of a request exist, and its job belongs to its plan.           *)
RowsExist ==
  /\ \A j \in Job : job[j] # "none" => planOf[j] \in Plan
  /\ \A r \in Request :
       /\ req[r].at # "idle" => req[r].plan \in Plan
       /\ req[r].at \in OnJob =>
            /\ req[r].job \in Job
            /\ job[req[r].job] # "none"
            /\ planOf[req[r].job] = req[r].plan

(* What a request carries in "result" and "saw" is what its stage says.    *)
CargoFits ==
  \A r \in Request :
    /\ req[r].at \in {"decide", "logDecision"} => req[r].result \in Decision
    /\ req[r].at = "saveJob" => req[r].result \in Result
    /\ req[r].at \in {"savePlan", "logRun"} => req[r].saw \in JobStatus

(* A request is inside the lock of its host exactly while the engine runs. *)
SectionFits ==
  \A r \in Request :
    inside[r] = IF req[r].at = "running" THEN HostOf[req[r].plan] ELSE Nowhere

(* An approval is on record for a plan that is APPROVED, and for the plan  *)
(* of every request that found it so.                                      *)
ApprovalOnRecord ==
  /\ \A p \in Plan : plan[p] = "APPROVED" => "APPROVED" \in decisions[p]
  /\ \A r \in Request :
       req[r].at \in PastCheck => "APPROVED" \in decisions[req[r].plan]

(* A request that is about to write or log SUCCESS has it from a run.      *)
SuccessCarried ==
  \A r \in Request :
    /\ req[r].at = "saveJob" /\ req[r].result = "SUCCESS" => "SUCCESS" \in ran[req[r].plan]
    /\ req[r].at \in {"savePlan", "logRun"} /\ req[r].saw = "SUCCESS"
         => "SUCCESS" \in ran[req[r].plan]

(* Until its lock is lost, a request inside a host is its lock's owner.    *)
OwnerOfSection ==
  \A r \in Request : inside[r] \in Host \ lost => owner[inside[r]] = r

Carried == RowsExist /\ CargoFits /\ SectionFits

IInv ==
  /\ TypeOK
  /\ Carried
  /\ ApprovalOnRecord
  /\ RunsAreApproved
  /\ SuccessCarried
  /\ SuccessIsReal
  /\ OwnerOfSection
  /\ RunningJobIsAttended
  /\ DecisionsAndRunsAreAudited

(* The parts of TypeOK, one per group of variables.                        *)
ReqTyped == req \in [Request -> Req]

RowsTyped ==
  /\ plan \in [Plan -> PlanStatus]
  /\ job \in [Job -> JobStatus]
  /\ planOf \in [Job -> Plan \cup {NoPlan}]

TrailTyped == events \in SUBSET Event

HistoryTyped ==
  /\ decisions \in [Plan -> SUBSET Decision]
  /\ calls \in 0..MaxCalls
  /\ denied \in SUBSET Plan
  /\ ran \in [Plan -> SUBSET Outcome]
  /\ failed \in SUBSET Plan

(* A request may carry any result and see any job's status.                *)
LEMMA ReqWith ==
  ASSUME NEW q \in Req
  PROVE  /\ \A x \in Stage : [q EXCEPT !.at = x] \in Req
         /\ \A x \in Result : [q EXCEPT !.result = x] \in Req
         /\ \A x \in JobStatus : [q EXCEPT !.saw = x] \in Req
  BY DEF Req

(* A request that leaves its section leaves the locks well typed.          *)
LEMMA LeaveTyped ==
  ASSUME IInv, NEW r \in Request, req[r].at = "running", Leave(r)
  PROVE  HostLock!TypeOK'
<1>1. inside[r] \in Host
  BY LifecycleAssumption DEF IInv, Carried, SectionFits, RowsExist
<1>2. PICK K \in {{}, {inside[r]}} : HostLock!Vanish({r}, K)
  BY DEF Leave
<1>3. K \subseteq Host
  BY <1>1
<1>4. owner' \in [Host -> Request \cup {NoOne}]
  BY <1>2 DEF HostLock!Vanish, IInv, TypeOK, HostLock!TypeOK
<1>5. inside' \in [Request -> Host \cup {Nowhere}]
  BY <1>2 DEF HostLock!Vanish, IInv, TypeOK, HostLock!TypeOK
<1>6. lost' \in SUBSET Host
  BY <1>2, <1>3 DEF HostLock!Vanish, IInv, TypeOK, HostLock!TypeOK
<1> QED
  BY <1>4, <1>5, <1>6 DEF HostLock!TypeOK

(* Every handler leaves each request's rows and what it loaded well typed. *)
LEMMA NextReqTyped == IInv /\ [Next]_vars => ReqTyped'
<1> SUFFICES ASSUME IInv, [Next]_vars PROVE ReqTyped'
  OBVIOUS
<1> USE LifecycleAssumption DEF IInv, Carried, lockVars
<1>1. ASSUME NEW p \in Plan, NEW allowed \in BOOLEAN, Generate(p, allowed)
      PROVE  ReqTyped'
  BY <1>1 DEF Generate, TypeOK, ReqTyped
<1>2. ASSUME NEW j \in Job, NEW p \in Plan, CreateJob(j, p) PROVE ReqTyped'
  BY <1>2 DEF CreateJob, TypeOK, ReqTyped
<1>3. ASSUME NEW r \in Request, NEW p \in Plan, NEW d \in Decision, StartApproval(r, p, d)
      PROVE  ReqTyped'
  BY <1>3 DEF StartApproval, Begin, TypeOK, ReqTyped, Req, Stage, PlanStatus,
     Result, Decision, JobStatus
<1>4. ASSUME NEW r \in Request, NEW j \in Job, StartExecution(r, j)
      PROVE  ReqTyped'
  BY <1>4 DEF StartExecution, Begin, TypeOK, ReqTyped, Req, Stage,
     PlanStatus, Result, Decision, JobStatus
<1>5. ASSUME NEW r \in Request, NEW j \in Job, StartRollback(r, j)
      PROVE  ReqTyped'
  BY <1>5 DEF StartRollback, Begin, TypeOK, ReqTyped, Req, Stage, PlanStatus,
     Result, Decision, JobStatus
<1>6. ASSUME NEW r \in Request, CommitDecision(r) PROVE ReqTyped'
  <2>1. [req[r] EXCEPT !.at = "logDecision"] \in Req
    BY <1>6, ReqWith DEF TypeOK, Stage
  <2> QED
    BY <1>6, <2>1 DEF CommitDecision, TypeOK, ReqTyped
<1>7. ASSUME NEW r \in Request, LogDecision(r) PROVE ReqTyped'
  BY <1>7 DEF LogDecision, Log, Finish, Idle, TypeOK, ReqTyped, Req, Stage,
     PlanStatus, Result, Decision, JobStatus
<1>8. ASSUME NEW r \in Request, CheckApproved(r) PROVE ReqTyped'
  <2>1. [req[r] EXCEPT !.at = "markRunning"] \in Req
    BY <1>8, ReqWith DEF TypeOK, Stage
  <2>2. Idle \in Req
    BY DEF Idle, Req, Stage, PlanStatus
  <2> QED
    BY <1>8, <2>1, <2>2 DEF CheckApproved, Finish, TypeOK, ReqTyped
<1>9. ASSUME NEW r \in Request, MarkRunning(r) PROVE ReqTyped'
  <2>1. [req[r] EXCEPT !.at = "run"] \in Req
    BY <1>9, ReqWith DEF TypeOK, Stage
  <2> QED
    BY <1>9, <2>1 DEF MarkRunning, TypeOK, ReqTyped
<1>10. ASSUME NEW r \in Request, EnterEngine(r) PROVE ReqTyped'
  <2>1. [req[r] EXCEPT !.at = "running"] \in Req
    BY <1>10, ReqWith DEF TypeOK, Stage
  <2> QED
    BY <1>10, <2>1 DEF EnterEngine, TypeOK, ReqTyped
<1>11. ASSUME NEW r \in Request, Blocked(r) PROVE ReqTyped'
  <2>1. [req[r] EXCEPT !.at = "saveJob"] \in Req
    BY <1>11, ReqWith DEF TypeOK, Stage
  <2>2. "BLOCKED" \in Result
    BY <1>11 DEF Blocked, TypeOK, Result
  <2>3. [[req[r] EXCEPT !.at = "saveJob"] EXCEPT !.result = "BLOCKED"] \in Req
    BY <2>1, <2>2, ReqWith
  <2>4. req' = [req EXCEPT ![r] = [[req[r] EXCEPT !.at = "saveJob"] EXCEPT !.result = "BLOCKED"]]
    BY <1>11 DEF Blocked
  <2> QED
    BY <2>3, <2>4 DEF TypeOK, ReqTyped
<1>12. ASSUME NEW r \in Request, NEW o \in Outcome, RunReturns(r, o)
       PROVE  ReqTyped'
  <2>1. [req[r] EXCEPT !.at = "saveJob"] \in Req
    BY <1>12, ReqWith DEF TypeOK, Stage
  <2>2. o \in Result
    BY <1>12 DEF RunReturns, TypeOK, Result
  <2>3. [[req[r] EXCEPT !.at = "saveJob"] EXCEPT !.result = o] \in Req
    BY <2>1, <2>2, ReqWith
  <2>4. req' = [req EXCEPT ![r] = [[req[r] EXCEPT !.at = "saveJob"] EXCEPT !.result = o]]
    BY <1>12 DEF RunReturns
  <2> QED
    BY <2>3, <2>4 DEF TypeOK, ReqTyped
<1>13. ASSUME NEW r \in Request, SaveJob(r) PROVE ReqTyped'
  <2>1. [req[r] EXCEPT !.at = "refreshJob"] \in Req
    BY <1>13, ReqWith DEF TypeOK, Stage
  <2> QED
    BY <1>13, <2>1 DEF SaveJob, TypeOK, ReqTyped
<1>14. ASSUME NEW r \in Request, RefreshJob(r) PROVE ReqTyped'
  <2>1. [req[r] EXCEPT !.at = "savePlan"] \in Req
    BY <1>14, ReqWith DEF TypeOK, Stage
  <2>2. job[req[r].job] \in JobStatus
    BY <1>14 DEF RefreshJob, RowsExist, OnJob, TypeOK, Result
  <2>3. [[req[r] EXCEPT !.at = "savePlan"] EXCEPT !.saw = job[req[r].job]] \in Req
    BY <2>1, <2>2, ReqWith
  <2>4. req' = [req EXCEPT ![r] = [[req[r] EXCEPT !.at = "savePlan"] EXCEPT !.saw = job[req[r].job]]]
    BY <1>14 DEF RefreshJob
  <2> QED
    BY <2>3, <2>4 DEF TypeOK, ReqTyped
<1>15. ASSUME NEW r \in Request, SavePlan(r) PROVE ReqTyped'
  <2>1. [req[r] EXCEPT !.at = "logRun"] \in Req
    BY <1>15, ReqWith DEF TypeOK, Stage
  <2> QED
    BY <1>15, <2>1 DEF SavePlan, TypeOK, ReqTyped
<1>16. ASSUME NEW r \in Request, LogRun(r) PROVE ReqTyped'
  BY <1>16 DEF LogRun, Log, Finish, Idle, TypeOK, ReqTyped, Req, Stage,
     PlanStatus, Result, Decision, JobStatus
<1>17. ASSUME NEW r \in Request, CommitRollback(r) PROVE ReqTyped'
  <2>1. [req[r] EXCEPT !.at = "logUndo"] \in Req
    BY <1>17, ReqWith DEF TypeOK, Stage
  <2> QED
    BY <1>17, <2>1 DEF CommitRollback, TypeOK, ReqTyped
<1>18. ASSUME NEW r \in Request, LogRollback(r) PROVE ReqTyped'
  BY <1>18 DEF LogRollback, Log, Finish, Idle, TypeOK, ReqTyped, Req, Stage,
     PlanStatus, Result, Decision, JobStatus
<1>19. ASSUME NEW r \in Request, Raise(r) PROVE ReqTyped'
  BY <1>19 DEF Raise, Leave, HostLock!Vanish, Finish, Idle, TypeOK, ReqTyped,
     Req, Stage, PlanStatus, Result, Decision, JobStatus
<1>20. ASSUME NEW h \in Host, LeaseExpires(h) PROVE ReqTyped'
  BY <1>20 DEF LeaseExpires, HostLock!Vanish, TypeOK, ReqTyped
<1>21. ASSUME Crash PROVE ReqTyped'
  BY <1>21 DEF Crash, HostLock!Vanish, Idle, TypeOK, ReqTyped, Req, Stage,
     PlanStatus, Result, Decision, JobStatus
<1>22. CASE UNCHANGED vars
  BY <1>22 DEF vars, TypeOK, ReqTyped
<1> QED
  BY <1>1, <1>2, <1>3, <1>4, <1>5, <1>6, <1>7, <1>8, <1>9, <1>10, <1>11,
     <1>12, <1>13, <1>14, <1>15, <1>16, <1>17, <1>18, <1>19, <1>20, <1>21, <1>22 DEF
     Next, Proceed

(* Every commit leaves the rows of remediation_plans and patch_jobs well   *)
(* typed.                                                                  *)
LEMMA NextRowsTyped == IInv /\ [Next]_vars => RowsTyped'
<1> SUFFICES ASSUME IInv, [Next]_vars PROVE RowsTyped'
  OBVIOUS
<1> USE LifecycleAssumption DEF IInv, Carried, lockVars
<1>1. ASSUME NEW p \in Plan, NEW allowed \in BOOLEAN, Generate(p, allowed)
      PROVE  RowsTyped'
  BY <1>1 DEF Generate, TypeOK, RowsTyped, RowsExist, CargoFits, OnJob,
     PlanStatus, JobStatus, Result, Decision
<1>2. ASSUME NEW j \in Job, NEW p \in Plan, CreateJob(j, p) PROVE RowsTyped'
  BY <1>2 DEF CreateJob, TypeOK, RowsTyped, RowsExist, CargoFits, OnJob,
     PlanStatus, JobStatus, Result, Decision
<1>3. ASSUME NEW r \in Request, NEW p \in Plan, NEW d \in Decision, StartApproval(r, p, d)
      PROVE  RowsTyped'
  BY <1>3 DEF StartApproval, Begin, TypeOK, RowsTyped
<1>4. ASSUME NEW r \in Request, NEW j \in Job, StartExecution(r, j)
      PROVE  RowsTyped'
  BY <1>4 DEF StartExecution, Begin, TypeOK, RowsTyped
<1>5. ASSUME NEW r \in Request, NEW j \in Job, StartRollback(r, j)
      PROVE  RowsTyped'
  BY <1>5 DEF StartRollback, Begin, TypeOK, RowsTyped
<1>6. ASSUME NEW r \in Request, CommitDecision(r) PROVE RowsTyped'
  BY <1>6 DEF CommitDecision, Written, Verdict, TypeOK, RowsTyped, RowsExist,
     CargoFits, OnJob, PlanStatus, JobStatus, Result, Decision
<1>7. ASSUME NEW r \in Request, LogDecision(r) PROVE RowsTyped'
  BY <1>7 DEF LogDecision, Log, Finish, Idle, TypeOK, RowsTyped
<1>8. ASSUME NEW r \in Request, CheckApproved(r) PROVE RowsTyped'
  BY <1>8 DEF CheckApproved, Finish, Idle, TypeOK, RowsTyped
<1>9. ASSUME NEW r \in Request, MarkRunning(r) PROVE RowsTyped'
  BY <1>9 DEF MarkRunning, Written, TypeOK, RowsTyped, RowsExist, CargoFits,
     OnJob, PlanStatus, JobStatus, Result, Decision
<1>10. ASSUME NEW r \in Request, EnterEngine(r) PROVE RowsTyped'
  BY <1>10 DEF EnterEngine, HostLock!Enter, TypeOK, RowsTyped
<1>11. ASSUME NEW r \in Request, Blocked(r) PROVE RowsTyped'
  BY <1>11 DEF Blocked, TypeOK, RowsTyped
<1>12. ASSUME NEW r \in Request, NEW o \in Outcome, RunReturns(r, o)
       PROVE  RowsTyped'
  BY <1>12 DEF RunReturns, Leave, HostLock!Vanish, TypeOK, RowsTyped
<1>13. ASSUME NEW r \in Request, SaveJob(r) PROVE RowsTyped'
  BY <1>13 DEF SaveJob, TypeOK, RowsTyped, RowsExist, CargoFits, OnJob,
     PlanStatus, JobStatus, Result, Decision
<1>14. ASSUME NEW r \in Request, RefreshJob(r) PROVE RowsTyped'
  BY <1>14 DEF RefreshJob, TypeOK, RowsTyped, RowsExist, CargoFits, OnJob,
     PlanStatus, JobStatus, Result, Decision
<1>15. ASSUME NEW r \in Request, SavePlan(r) PROVE RowsTyped'
  BY <1>15 DEF SavePlan, TypeOK, RowsTyped, RowsExist, CargoFits, OnJob,
     PlanStatus, JobStatus, Result, Decision
<1>16. ASSUME NEW r \in Request, LogRun(r) PROVE RowsTyped'
  BY <1>16 DEF LogRun, Log, Finish, Idle, TypeOK, RowsTyped
<1>17. ASSUME NEW r \in Request, CommitRollback(r) PROVE RowsTyped'
  BY <1>17 DEF CommitRollback, Written, TypeOK, RowsTyped, RowsExist,
     CargoFits, OnJob, PlanStatus, JobStatus, Result, Decision
<1>18. ASSUME NEW r \in Request, LogRollback(r) PROVE RowsTyped'
  BY <1>18 DEF LogRollback, Log, Finish, Idle, TypeOK, RowsTyped
<1>19. ASSUME NEW r \in Request, Raise(r) PROVE RowsTyped'
  BY <1>19 DEF Raise, Leave, HostLock!Vanish, Finish, Idle, TypeOK, RowsTyped
<1>20. ASSUME NEW h \in Host, LeaseExpires(h) PROVE RowsTyped'
  BY <1>20 DEF LeaseExpires, HostLock!Vanish, TypeOK, RowsTyped
<1>21. ASSUME Crash PROVE RowsTyped'
  BY <1>21 DEF Crash, HostLock!Vanish, Idle, TypeOK, RowsTyped
<1>22. CASE UNCHANGED vars
  BY <1>22 DEF vars, TypeOK, RowsTyped
<1> QED
  BY <1>1, <1>2, <1>3, <1>4, <1>5, <1>6, <1>7, <1>8, <1>9, <1>10, <1>11,
     <1>12, <1>13, <1>14, <1>15, <1>16, <1>17, <1>18, <1>19, <1>20, <1>21, <1>22 DEF
     Next, Proceed

(* Every logged audit event is about a plan, a decision or a job's status. *)
LEMMA NextTrailTyped == IInv /\ [Next]_vars => TrailTyped'
<1> SUFFICES ASSUME IInv, [Next]_vars PROVE TrailTyped'
  OBVIOUS
<1> USE LifecycleAssumption DEF IInv, Carried, lockVars
<1>1. ASSUME NEW p \in Plan, NEW allowed \in BOOLEAN, Generate(p, allowed)
      PROVE  TrailTyped'
  BY <1>1 DEF Generate, TypeOK, TrailTyped
<1>2. ASSUME NEW j \in Job, NEW p \in Plan, CreateJob(j, p) PROVE TrailTyped'
  BY <1>2 DEF CreateJob, TypeOK, TrailTyped
<1>3. ASSUME NEW r \in Request, NEW p \in Plan, NEW d \in Decision, StartApproval(r, p, d)
      PROVE  TrailTyped'
  BY <1>3 DEF StartApproval, Begin, TypeOK, TrailTyped
<1>4. ASSUME NEW r \in Request, NEW j \in Job, StartExecution(r, j)
      PROVE  TrailTyped'
  BY <1>4 DEF StartExecution, Begin, TypeOK, TrailTyped
<1>5. ASSUME NEW r \in Request, NEW j \in Job, StartRollback(r, j)
      PROVE  TrailTyped'
  BY <1>5 DEF StartRollback, Begin, TypeOK, TrailTyped
<1>6. ASSUME NEW r \in Request, CommitDecision(r) PROVE TrailTyped'
  BY <1>6 DEF CommitDecision, Written, Verdict, TypeOK, TrailTyped
<1>7. ASSUME NEW r \in Request, LogDecision(r) PROVE TrailTyped'
  BY <1>7 DEF LogDecision, Log, Finish, Idle, TypeOK, TrailTyped, RowsExist,
     CargoFits, OnJob, Event, JobStatus, Result, Decision
<1>8. ASSUME NEW r \in Request, CheckApproved(r) PROVE TrailTyped'
  BY <1>8 DEF CheckApproved, Finish, Idle, TypeOK, TrailTyped
<1>9. ASSUME NEW r \in Request, MarkRunning(r) PROVE TrailTyped'
  BY <1>9 DEF MarkRunning, Written, TypeOK, TrailTyped
<1>10. ASSUME NEW r \in Request, EnterEngine(r) PROVE TrailTyped'
  BY <1>10 DEF EnterEngine, HostLock!Enter, TypeOK, TrailTyped
<1>11. ASSUME NEW r \in Request, Blocked(r) PROVE TrailTyped'
  BY <1>11 DEF Blocked, TypeOK, TrailTyped
<1>12. ASSUME NEW r \in Request, NEW o \in Outcome, RunReturns(r, o)
       PROVE  TrailTyped'
  BY <1>12 DEF RunReturns, Leave, HostLock!Vanish, TypeOK, TrailTyped
<1>13. ASSUME NEW r \in Request, SaveJob(r) PROVE TrailTyped'
  BY <1>13 DEF SaveJob, TypeOK, TrailTyped
<1>14. ASSUME NEW r \in Request, RefreshJob(r) PROVE TrailTyped'
  BY <1>14 DEF RefreshJob, TypeOK, TrailTyped
<1>15. ASSUME NEW r \in Request, SavePlan(r) PROVE TrailTyped'
  BY <1>15 DEF SavePlan, TypeOK, TrailTyped
<1>16. ASSUME NEW r \in Request, LogRun(r) PROVE TrailTyped'
  BY <1>16 DEF LogRun, Log, Finish, Idle, TypeOK, TrailTyped, RowsExist,
     CargoFits, OnJob, Event, JobStatus, Result, Decision
<1>17. ASSUME NEW r \in Request, CommitRollback(r) PROVE TrailTyped'
  BY <1>17 DEF CommitRollback, Written, TypeOK, TrailTyped
<1>18. ASSUME NEW r \in Request, LogRollback(r) PROVE TrailTyped'
  BY <1>18 DEF LogRollback, Log, Finish, Idle, TypeOK, TrailTyped, RowsExist,
     CargoFits, OnJob, Event, JobStatus, Result, Decision
<1>19. ASSUME NEW r \in Request, Raise(r) PROVE TrailTyped'
  BY <1>19 DEF Raise, Leave, HostLock!Vanish, Finish, Idle, TypeOK,
     TrailTyped
<1>20. ASSUME NEW h \in Host, LeaseExpires(h) PROVE TrailTyped'
  BY <1>20 DEF LeaseExpires, HostLock!Vanish, TypeOK, TrailTyped
<1>21. ASSUME Crash PROVE TrailTyped'
  BY <1>21 DEF Crash, HostLock!Vanish, Idle, TypeOK, TrailTyped
<1>22. CASE UNCHANGED vars
  BY <1>22 DEF vars, TypeOK, TrailTyped
<1> QED
  BY <1>1, <1>2, <1>3, <1>4, <1>5, <1>6, <1>7, <1>8, <1>9, <1>10, <1>11,
     <1>12, <1>13, <1>14, <1>15, <1>16, <1>17, <1>18, <1>19, <1>20, <1>21, <1>22 DEF
     Next, Proceed

(* Decisions, the count of calls and the history stay well typed.          *)
LEMMA NextHistoryTyped == IInv /\ [Next]_vars => HistoryTyped'
<1> SUFFICES ASSUME IInv, [Next]_vars PROVE HistoryTyped'
  OBVIOUS
<1> USE LifecycleAssumption DEF IInv, Carried, lockVars
<1>1. ASSUME NEW p \in Plan, NEW allowed \in BOOLEAN, Generate(p, allowed)
      PROVE  HistoryTyped'
  BY <1>1 DEF Generate, TypeOK, HistoryTyped
<1>2. ASSUME NEW j \in Job, NEW p \in Plan, CreateJob(j, p) PROVE HistoryTyped'
  BY <1>2 DEF CreateJob, TypeOK, HistoryTyped
<1>3. ASSUME NEW r \in Request, NEW p \in Plan, NEW d \in Decision, StartApproval(r, p, d)
      PROVE  HistoryTyped'
  BY <1>3 DEF StartApproval, Begin, TypeOK, HistoryTyped
<1>4. ASSUME NEW r \in Request, NEW j \in Job, StartExecution(r, j)
      PROVE  HistoryTyped'
  BY <1>4 DEF StartExecution, Begin, TypeOK, HistoryTyped
<1>5. ASSUME NEW r \in Request, NEW j \in Job, StartRollback(r, j)
      PROVE  HistoryTyped'
  BY <1>5 DEF StartRollback, Begin, TypeOK, HistoryTyped
<1>6. ASSUME NEW r \in Request, CommitDecision(r) PROVE HistoryTyped'
  BY <1>6 DEF CommitDecision, Written, Verdict, TypeOK, HistoryTyped,
     RowsExist, CargoFits, OnJob, Decision
<1>7. ASSUME NEW r \in Request, LogDecision(r) PROVE HistoryTyped'
  BY <1>7 DEF LogDecision, Log, Finish, Idle, TypeOK, HistoryTyped
<1>8. ASSUME NEW r \in Request, CheckApproved(r) PROVE HistoryTyped'
  BY <1>8 DEF CheckApproved, Finish, Idle, TypeOK, HistoryTyped
<1>9. ASSUME NEW r \in Request, MarkRunning(r) PROVE HistoryTyped'
  BY <1>9 DEF MarkRunning, Written, TypeOK, HistoryTyped
<1>10. ASSUME NEW r \in Request, EnterEngine(r) PROVE HistoryTyped'
  BY <1>10 DEF EnterEngine, HostLock!Enter, TypeOK, HistoryTyped
<1>11. ASSUME NEW r \in Request, Blocked(r) PROVE HistoryTyped'
  BY <1>11 DEF Blocked, TypeOK, HistoryTyped
<1>12. ASSUME NEW r \in Request, NEW o \in Outcome, RunReturns(r, o)
       PROVE  HistoryTyped'
  BY <1>12 DEF RunReturns, Leave, HostLock!Vanish, TypeOK, HistoryTyped
<1>13. ASSUME NEW r \in Request, SaveJob(r) PROVE HistoryTyped'
  BY <1>13 DEF SaveJob, TypeOK, HistoryTyped
<1>14. ASSUME NEW r \in Request, RefreshJob(r) PROVE HistoryTyped'
  BY <1>14 DEF RefreshJob, TypeOK, HistoryTyped
<1>15. ASSUME NEW r \in Request, SavePlan(r) PROVE HistoryTyped'
  BY <1>15 DEF SavePlan, TypeOK, HistoryTyped
<1>16. ASSUME NEW r \in Request, LogRun(r) PROVE HistoryTyped'
  BY <1>16 DEF LogRun, Log, Finish, Idle, TypeOK, HistoryTyped
<1>17. ASSUME NEW r \in Request, CommitRollback(r) PROVE HistoryTyped'
  BY <1>17 DEF CommitRollback, Written, TypeOK, HistoryTyped
<1>18. ASSUME NEW r \in Request, LogRollback(r) PROVE HistoryTyped'
  BY <1>18 DEF LogRollback, Log, Finish, Idle, TypeOK, HistoryTyped
<1>19. ASSUME NEW r \in Request, Raise(r) PROVE HistoryTyped'
  BY <1>19 DEF Raise, Leave, HostLock!Vanish, Finish, Idle, TypeOK,
     HistoryTyped, RowsExist, CargoFits, OnJob, Decision
<1>20. ASSUME NEW h \in Host, LeaseExpires(h) PROVE HistoryTyped'
  BY <1>20 DEF LeaseExpires, HostLock!Vanish, TypeOK, HistoryTyped
<1>21. ASSUME Crash PROVE HistoryTyped'
  <2>1. {req[r].plan : r \in Request} \ {NoPlan} \in SUBSET Plan
    BY DEF TypeOK, Req
  <2> QED
    BY <1>21, <2>1 DEF Crash, TypeOK, HistoryTyped
<1>22. CASE UNCHANGED vars
  BY <1>22 DEF vars, TypeOK, HistoryTyped
<1> QED
  BY <1>1, <1>2, <1>3, <1>4, <1>5, <1>6, <1>7, <1>8, <1>9, <1>10, <1>11,
     <1>12, <1>13, <1>14, <1>15, <1>16, <1>17, <1>18, <1>19, <1>20, <1>21, <1>22 DEF
     Next, Proceed

(* Entering, leaving and losing a host's lock keep the locks well typed.   *)
LEMMA NextLockTyped == IInv /\ [Next]_vars => HostLock!TypeOK'
<1> SUFFICES ASSUME IInv, [Next]_vars PROVE HostLock!TypeOK'
  OBVIOUS
<1> USE LifecycleAssumption DEF IInv, Carried, lockVars
<1>1. ASSUME NEW p \in Plan, NEW allowed \in BOOLEAN, Generate(p, allowed)
      PROVE  HostLock!TypeOK'
  BY <1>1 DEF Generate, TypeOK, HostLock!TypeOK
<1>2. ASSUME NEW j \in Job, NEW p \in Plan, CreateJob(j, p)
      PROVE  HostLock!TypeOK'
  BY <1>2 DEF CreateJob, TypeOK, HostLock!TypeOK
<1>3. ASSUME NEW r \in Request, NEW p \in Plan, NEW d \in Decision, StartApproval(r, p, d)
      PROVE  HostLock!TypeOK'
  BY <1>3 DEF StartApproval, Begin, TypeOK, HostLock!TypeOK
<1>4. ASSUME NEW r \in Request, NEW j \in Job, StartExecution(r, j)
      PROVE  HostLock!TypeOK'
  BY <1>4 DEF StartExecution, Begin, TypeOK, HostLock!TypeOK
<1>5. ASSUME NEW r \in Request, NEW j \in Job, StartRollback(r, j)
      PROVE  HostLock!TypeOK'
  BY <1>5 DEF StartRollback, Begin, TypeOK, HostLock!TypeOK
<1>6. ASSUME NEW r \in Request, CommitDecision(r) PROVE HostLock!TypeOK'
  BY <1>6 DEF CommitDecision, Written, Verdict, TypeOK, HostLock!TypeOK
<1>7. ASSUME NEW r \in Request, LogDecision(r) PROVE HostLock!TypeOK'
  BY <1>7 DEF LogDecision, Log, Finish, Idle, TypeOK, HostLock!TypeOK
<1>8. ASSUME NEW r \in Request, CheckApproved(r) PROVE HostLock!TypeOK'
  BY <1>8 DEF CheckApproved, Finish, Idle, TypeOK, HostLock!TypeOK
<1>9. ASSUME NEW r \in Request, MarkRunning(r) PROVE HostLock!TypeOK'
  BY <1>9 DEF MarkRunning, Written, TypeOK, HostLock!TypeOK
<1>10. ASSUME NEW r \in Request, EnterEngine(r) PROVE HostLock!TypeOK'
  BY <1>10 DEF EnterEngine, HostLock!Enter, TypeOK, HostLock!TypeOK,
     RowsExist, OnJob
<1>11. ASSUME NEW r \in Request, Blocked(r) PROVE HostLock!TypeOK'
  BY <1>11 DEF Blocked, TypeOK, HostLock!TypeOK
<1>12. ASSUME NEW r \in Request, NEW o \in Outcome, RunReturns(r, o)
       PROVE  HostLock!TypeOK'
  <2>1. HostLock!TypeOK /\ req[r].at = "running" /\ Leave(r)
    BY <1>12 DEF RunReturns, TypeOK
  <2> QED
    BY <2>1, LeaveTyped
<1>13. ASSUME NEW r \in Request, SaveJob(r) PROVE HostLock!TypeOK'
  BY <1>13 DEF SaveJob, TypeOK, HostLock!TypeOK
<1>14. ASSUME NEW r \in Request, RefreshJob(r) PROVE HostLock!TypeOK'
  BY <1>14 DEF RefreshJob, TypeOK, HostLock!TypeOK
<1>15. ASSUME NEW r \in Request, SavePlan(r) PROVE HostLock!TypeOK'
  BY <1>15 DEF SavePlan, TypeOK, HostLock!TypeOK
<1>16. ASSUME NEW r \in Request, LogRun(r) PROVE HostLock!TypeOK'
  BY <1>16 DEF LogRun, Log, Finish, Idle, TypeOK, HostLock!TypeOK
<1>17. ASSUME NEW r \in Request, CommitRollback(r) PROVE HostLock!TypeOK'
  BY <1>17 DEF CommitRollback, Written, TypeOK, HostLock!TypeOK
<1>18. ASSUME NEW r \in Request, LogRollback(r) PROVE HostLock!TypeOK'
  BY <1>18 DEF LogRollback, Log, Finish, Idle, TypeOK, HostLock!TypeOK
<1>19. ASSUME NEW r \in Request, Raise(r) PROVE HostLock!TypeOK'
  <2>1. CASE req[r].at = "running"
    <3>1. HostLock!TypeOK /\ Leave(r)
      BY <1>19, <2>1 DEF Raise, TypeOK
    <3> QED
      BY <2>1, <3>1, LeaveTyped
  <2>2. CASE req[r].at # "running"
    BY <1>19, <2>2 DEF Raise, TypeOK, HostLock!TypeOK
  <2> QED
    BY <2>1, <2>2
<1>20. ASSUME NEW h \in Host, LeaseExpires(h) PROVE HostLock!TypeOK'
  BY <1>20 DEF LeaseExpires, HostLock!Vanish, TypeOK, HostLock!TypeOK
<1>21. ASSUME Crash PROVE HostLock!TypeOK'
  BY <1>21 DEF Crash, HostLock!Vanish, Idle, TypeOK, HostLock!TypeOK
<1>22. CASE UNCHANGED vars
  BY <1>22 DEF vars, TypeOK, HostLock!TypeOK
<1> QED
  BY <1>1, <1>2, <1>3, <1>4, <1>5, <1>6, <1>7, <1>8, <1>9, <1>10, <1>11,
     <1>12, <1>13, <1>14, <1>15, <1>16, <1>17, <1>18, <1>19, <1>20, <1>21, <1>22 DEF
     Next, Proceed

(* No handler goes on with a plan or a job that has no row.                *)
LEMMA NextRowsExist == IInv /\ [Next]_vars => RowsExist'
<1> SUFFICES ASSUME IInv, [Next]_vars PROVE RowsExist'
  OBVIOUS
<1> USE LifecycleAssumption DEF IInv, Carried, lockVars
<1>1. ASSUME NEW p \in Plan, NEW allowed \in BOOLEAN, Generate(p, allowed)
      PROVE  RowsExist'
  BY <1>1 DEF Generate, TypeOK, RowsExist
<1>2. ASSUME NEW j \in Job, NEW p \in Plan, CreateJob(j, p) PROVE RowsExist'
  BY <1>2 DEF CreateJob, TypeOK, RowsExist
<1>3. ASSUME NEW r \in Request, NEW p \in Plan, NEW d \in Decision, StartApproval(r, p, d)
      PROVE  RowsExist'
  BY <1>3 DEF StartApproval, Begin, TypeOK, Req, RowsExist, CargoFits, OnJob,
     Result
<1>4. ASSUME NEW r \in Request, NEW j \in Job, StartExecution(r, j)
      PROVE  RowsExist'
  BY <1>4 DEF StartExecution, Begin, TypeOK, RowsExist
<1>5. ASSUME NEW r \in Request, NEW j \in Job, StartRollback(r, j)
      PROVE  RowsExist'
  BY <1>5 DEF StartRollback, Begin, TypeOK, RowsExist
<1>6. ASSUME NEW r \in Request, CommitDecision(r) PROVE RowsExist'
  BY <1>6 DEF CommitDecision, Written, Verdict, TypeOK, Req, RowsExist,
     CargoFits, OnJob, Result
<1>7. ASSUME NEW r \in Request, LogDecision(r) PROVE RowsExist'
  BY <1>7 DEF LogDecision, Log, Finish, Idle, TypeOK, Req, RowsExist,
     CargoFits, OnJob, Result
<1>8. ASSUME NEW r \in Request, CheckApproved(r) PROVE RowsExist'
  BY <1>8 DEF CheckApproved, Finish, Idle, TypeOK, Req, RowsExist, CargoFits,
     OnJob, Result
<1>9. ASSUME NEW r \in Request, MarkRunning(r) PROVE RowsExist'
  BY <1>9 DEF MarkRunning, Written, TypeOK, Req, RowsExist, CargoFits, OnJob,
     Result
<1>10. ASSUME NEW r \in Request, EnterEngine(r) PROVE RowsExist'
  BY <1>10 DEF EnterEngine, HostLock!Enter, TypeOK, Req, RowsExist,
     CargoFits, OnJob, Result
<1>11. ASSUME NEW r \in Request, Blocked(r) PROVE RowsExist'
  BY <1>11 DEF Blocked, TypeOK, Req, RowsExist, CargoFits, OnJob, Result
<1>12. ASSUME NEW r \in Request, NEW o \in Outcome, RunReturns(r, o)
       PROVE  RowsExist'
  BY <1>12 DEF RunReturns, Leave, HostLock!Vanish, TypeOK, Req, RowsExist,
     CargoFits, OnJob, Result
<1>13. ASSUME NEW r \in Request, SaveJob(r) PROVE RowsExist'
  BY <1>13 DEF SaveJob, TypeOK, Req, RowsExist, CargoFits, OnJob, Result
<1>14. ASSUME NEW r \in Request, RefreshJob(r) PROVE RowsExist'
  BY <1>14 DEF RefreshJob, TypeOK, Req, RowsExist, CargoFits, OnJob, Result
<1>15. ASSUME NEW r \in Request, SavePlan(r) PROVE RowsExist'
  BY <1>15 DEF SavePlan, TypeOK, Req, RowsExist, CargoFits, OnJob, Result
<1>16. ASSUME NEW r \in Request, LogRun(r) PROVE RowsExist'
  BY <1>16 DEF LogRun, Log, Finish, Idle, TypeOK, Req, RowsExist, CargoFits,
     OnJob, Result
<1>17. ASSUME NEW r \in Request, CommitRollback(r) PROVE RowsExist'
  BY <1>17 DEF CommitRollback, Written, TypeOK, Req, RowsExist, CargoFits,
     OnJob, Result
<1>18. ASSUME NEW r \in Request, LogRollback(r) PROVE RowsExist'
  BY <1>18 DEF LogRollback, Log, Finish, Idle, TypeOK, Req, RowsExist,
     CargoFits, OnJob, Result
<1>19. ASSUME NEW r \in Request, Raise(r) PROVE RowsExist'
  BY <1>19 DEF Raise, Leave, HostLock!Vanish, Finish, Idle, TypeOK, Req,
     RowsExist, CargoFits, OnJob, Result
<1>20. ASSUME NEW h \in Host, LeaseExpires(h) PROVE RowsExist'
  BY <1>20 DEF LeaseExpires, HostLock!Vanish, TypeOK, RowsExist
<1>21. ASSUME Crash PROVE RowsExist'
  BY <1>21 DEF Crash, HostLock!Vanish, Idle, TypeOK, Req, RowsExist,
     CargoFits, OnJob, Result
<1>22. CASE UNCHANGED vars
  BY <1>22 DEF vars, TypeOK, RowsExist
<1> QED
  BY <1>1, <1>2, <1>3, <1>4, <1>5, <1>6, <1>7, <1>8, <1>9, <1>10, <1>11,
     <1>12, <1>13, <1>14, <1>15, <1>16, <1>17, <1>18, <1>19, <1>20, <1>21, <1>22 DEF
     Next, Proceed

(* A handler carries a decision or a result where its next step needs one. *)
LEMMA NextCargoFits == IInv /\ [Next]_vars => CargoFits'
<1> SUFFICES ASSUME IInv, [Next]_vars PROVE CargoFits'
  OBVIOUS
<1> USE LifecycleAssumption DEF IInv, Carried, lockVars
<1>1. ASSUME NEW p \in Plan, NEW allowed \in BOOLEAN, Generate(p, allowed)
      PROVE  CargoFits'
  BY <1>1 DEF Generate, TypeOK, CargoFits
<1>2. ASSUME NEW j \in Job, NEW p \in Plan, CreateJob(j, p) PROVE CargoFits'
  BY <1>2 DEF CreateJob, TypeOK, CargoFits
<1>3. ASSUME NEW r \in Request, NEW p \in Plan, NEW d \in Decision, StartApproval(r, p, d)
      PROVE  CargoFits'
  BY <1>3 DEF StartApproval, Begin, TypeOK, CargoFits
<1>4. ASSUME NEW r \in Request, NEW j \in Job, StartExecution(r, j)
      PROVE  CargoFits'
  BY <1>4 DEF StartExecution, Begin, TypeOK, CargoFits
<1>5. ASSUME NEW r \in Request, NEW j \in Job, StartRollback(r, j)
      PROVE  CargoFits'
  BY <1>5 DEF StartRollback, Begin, TypeOK, CargoFits
<1>6. ASSUME NEW r \in Request, CommitDecision(r) PROVE CargoFits'
  BY <1>6 DEF CommitDecision, Written, Verdict, TypeOK, CargoFits
<1>7. ASSUME NEW r \in Request, LogDecision(r) PROVE CargoFits'
  BY <1>7 DEF LogDecision, Log, Finish, Idle, TypeOK, CargoFits
<1>8. ASSUME NEW r \in Request, CheckApproved(r) PROVE CargoFits'
  BY <1>8 DEF CheckApproved, Finish, Idle, TypeOK, Req, RowsExist, CargoFits,
     OnJob, Result, Decision
<1>9. ASSUME NEW r \in Request, MarkRunning(r) PROVE CargoFits'
  BY <1>9 DEF MarkRunning, Written, TypeOK, CargoFits
<1>10. ASSUME NEW r \in Request, EnterEngine(r) PROVE CargoFits'
  BY <1>10 DEF EnterEngine, HostLock!Enter, TypeOK, CargoFits
<1>11. ASSUME NEW r \in Request, Blocked(r) PROVE CargoFits'
  BY <1>11 DEF Blocked, TypeOK, Req, RowsExist, CargoFits, OnJob, Result,
     Decision
<1>12. ASSUME NEW r \in Request, NEW o \in Outcome, RunReturns(r, o)
       PROVE  CargoFits'
  BY <1>12 DEF RunReturns, Leave, HostLock!Vanish, TypeOK, Req, RowsExist,
     CargoFits, OnJob, Result, Decision
<1>13. ASSUME NEW r \in Request, SaveJob(r) PROVE CargoFits'
  BY <1>13 DEF SaveJob, TypeOK, CargoFits
<1>14. ASSUME NEW r \in Request, RefreshJob(r) PROVE CargoFits'
  BY <1>14 DEF RefreshJob, TypeOK, Req, RowsExist, CargoFits, OnJob, Result,
     Decision
<1>15. ASSUME NEW r \in Request, SavePlan(r) PROVE CargoFits'
  BY <1>15 DEF SavePlan, TypeOK, Req, RowsExist, CargoFits, OnJob, Result,
     Decision
<1>16. ASSUME NEW r \in Request, LogRun(r) PROVE CargoFits'
  BY <1>16 DEF LogRun, Log, Finish, Idle, TypeOK, CargoFits
<1>17. ASSUME NEW r \in Request, CommitRollback(r) PROVE CargoFits'
  BY <1>17 DEF CommitRollback, Written, TypeOK, CargoFits
<1>18. ASSUME NEW r \in Request, LogRollback(r) PROVE CargoFits'
  BY <1>18 DEF LogRollback, Log, Finish, Idle, TypeOK, CargoFits
<1>19. ASSUME NEW r \in Request, Raise(r) PROVE CargoFits'
  BY <1>19 DEF Raise, Leave, HostLock!Vanish, Finish, Idle, TypeOK, CargoFits
<1>20. ASSUME NEW h \in Host, LeaseExpires(h) PROVE CargoFits'
  BY <1>20 DEF LeaseExpires, HostLock!Vanish, TypeOK, CargoFits
<1>21. ASSUME Crash PROVE CargoFits'
  BY <1>21 DEF Crash, HostLock!Vanish, Idle, TypeOK, CargoFits
<1>22. CASE UNCHANGED vars
  BY <1>22 DEF vars, TypeOK, CargoFits
<1> QED
  BY <1>1, <1>2, <1>3, <1>4, <1>5, <1>6, <1>7, <1>8, <1>9, <1>10, <1>11,
     <1>12, <1>13, <1>14, <1>15, <1>16, <1>17, <1>18, <1>19, <1>20, <1>21, <1>22 DEF
     Next, Proceed

(* A request is inside its host's lock exactly from EnterEngine to         *)
(* RunReturns, Raise or Crash.                                             *)
LEMMA NextSectionFits == IInv /\ [Next]_vars => SectionFits'
<1> SUFFICES ASSUME IInv, [Next]_vars PROVE SectionFits'
  OBVIOUS
<1> USE LifecycleAssumption DEF IInv, Carried, lockVars
<1>1. ASSUME NEW p \in Plan, NEW allowed \in BOOLEAN, Generate(p, allowed)
      PROVE  SectionFits'
  BY <1>1 DEF Generate, TypeOK, HostLock!TypeOK, SectionFits
<1>2. ASSUME NEW j \in Job, NEW p \in Plan, CreateJob(j, p) PROVE SectionFits'
  BY <1>2 DEF CreateJob, TypeOK, HostLock!TypeOK, SectionFits
<1>3. ASSUME NEW r \in Request, NEW p \in Plan, NEW d \in Decision, StartApproval(r, p, d)
      PROVE  SectionFits'
  BY <1>3 DEF StartApproval, Begin, TypeOK, HostLock!TypeOK, SectionFits
<1>4. ASSUME NEW r \in Request, NEW j \in Job, StartExecution(r, j)
      PROVE  SectionFits'
  BY <1>4 DEF StartExecution, Begin, TypeOK, HostLock!TypeOK, SectionFits
<1>5. ASSUME NEW r \in Request, NEW j \in Job, StartRollback(r, j)
      PROVE  SectionFits'
  BY <1>5 DEF StartRollback, Begin, TypeOK, HostLock!TypeOK, SectionFits
<1>6. ASSUME NEW r \in Request, CommitDecision(r) PROVE SectionFits'
  BY <1>6 DEF CommitDecision, Written, Verdict, TypeOK, HostLock!TypeOK,
     SectionFits
<1>7. ASSUME NEW r \in Request, LogDecision(r) PROVE SectionFits'
  BY <1>7 DEF LogDecision, Log, Finish, Idle, TypeOK, HostLock!TypeOK,
     SectionFits
<1>8. ASSUME NEW r \in Request, CheckApproved(r) PROVE SectionFits'
  BY <1>8 DEF CheckApproved, Finish, Idle, TypeOK, Req, HostLock!TypeOK,
     RowsExist, SectionFits, OnJob
<1>9. ASSUME NEW r \in Request, MarkRunning(r) PROVE SectionFits'
  BY <1>9 DEF MarkRunning, Written, TypeOK, HostLock!TypeOK, SectionFits
<1>10. ASSUME NEW r \in Request, EnterEngine(r) PROVE SectionFits'
  BY <1>10 DEF EnterEngine, HostLock!Enter, TypeOK, HostLock!TypeOK,
     SectionFits
<1>11. ASSUME NEW r \in Request, Blocked(r) PROVE SectionFits'
  BY <1>11 DEF Blocked, TypeOK, HostLock!TypeOK, SectionFits
<1>12. ASSUME NEW r \in Request, NEW o \in Outcome, RunReturns(r, o)
       PROVE  SectionFits'
  BY <1>12 DEF RunReturns, Leave, HostLock!Vanish, TypeOK, HostLock!TypeOK,
     SectionFits
<1>13. ASSUME NEW r \in Request, SaveJob(r) PROVE SectionFits'
  BY <1>13 DEF SaveJob, TypeOK, HostLock!TypeOK, SectionFits
<1>14. ASSUME NEW r \in Request, RefreshJob(r) PROVE SectionFits'
  BY <1>14 DEF RefreshJob, TypeOK, HostLock!TypeOK, SectionFits
<1>15. ASSUME NEW r \in Request, SavePlan(r) PROVE SectionFits'
  BY <1>15 DEF SavePlan, TypeOK, HostLock!TypeOK, SectionFits
<1>16. ASSUME NEW r \in Request, LogRun(r) PROVE SectionFits'
  BY <1>16 DEF LogRun, Log, Finish, Idle, TypeOK, HostLock!TypeOK,
     SectionFits
<1>17. ASSUME NEW r \in Request, CommitRollback(r) PROVE SectionFits'
  BY <1>17 DEF CommitRollback, Written, TypeOK, HostLock!TypeOK, SectionFits
<1>18. ASSUME NEW r \in Request, LogRollback(r) PROVE SectionFits'
  BY <1>18 DEF LogRollback, Log, Finish, Idle, TypeOK, HostLock!TypeOK,
     SectionFits
<1>19. ASSUME NEW r \in Request, Raise(r) PROVE SectionFits'
  BY <1>19 DEF Raise, Leave, HostLock!Vanish, Finish, Idle, TypeOK,
     HostLock!TypeOK, SectionFits
<1>20. ASSUME NEW h \in Host, LeaseExpires(h) PROVE SectionFits'
  BY <1>20 DEF LeaseExpires, HostLock!Vanish, TypeOK, HostLock!TypeOK,
     SectionFits
<1>21. ASSUME Crash PROVE SectionFits'
  BY <1>21 DEF Crash, HostLock!Vanish, Idle, TypeOK, HostLock!TypeOK,
     SectionFits
<1>22. CASE UNCHANGED vars
  BY <1>22 DEF vars, TypeOK, HostLock!TypeOK, SectionFits
<1> QED
  BY <1>1, <1>2, <1>3, <1>4, <1>5, <1>6, <1>7, <1>8, <1>9, <1>10, <1>11,
     <1>12, <1>13, <1>14, <1>15, <1>16, <1>17, <1>18, <1>19, <1>20, <1>21, <1>22 DEF
     Next, Proceed

(* A plan found APPROVED keeps an approval on record while a request       *)
(* executes it: decisions are only added (approval_callback,               *)
(* submit_approval).                                                       *)
LEMMA NextApproved == IInv /\ [Next]_vars => ApprovalOnRecord'
<1> SUFFICES ASSUME IInv, [Next]_vars PROVE ApprovalOnRecord'
  OBVIOUS
<1> USE LifecycleAssumption DEF IInv, Carried, lockVars
<1>1. ASSUME NEW p \in Plan, NEW allowed \in BOOLEAN, Generate(p, allowed)
      PROVE  ApprovalOnRecord'
  BY <1>1 DEF Generate, TypeOK, ApprovalOnRecord
<1>2. ASSUME NEW j \in Job, NEW p \in Plan, CreateJob(j, p)
      PROVE  ApprovalOnRecord'
  BY <1>2 DEF CreateJob, TypeOK, ApprovalOnRecord
<1>3. ASSUME NEW r \in Request, NEW p \in Plan, NEW d \in Decision, StartApproval(r, p, d)
      PROVE  ApprovalOnRecord'
  BY <1>3 DEF StartApproval, Begin, TypeOK, Req, RowsExist, CargoFits, OnJob,
     ApprovalOnRecord, PastCheck, Decision
<1>4. ASSUME NEW r \in Request, NEW j \in Job, StartExecution(r, j)
      PROVE  ApprovalOnRecord'
  BY <1>4 DEF StartExecution, Begin, TypeOK, Req, RowsExist, CargoFits,
     OnJob, ApprovalOnRecord, PastCheck, Decision
<1>5. ASSUME NEW r \in Request, NEW j \in Job, StartRollback(r, j)
      PROVE  ApprovalOnRecord'
  BY <1>5 DEF StartRollback, Begin, TypeOK, Req, RowsExist, CargoFits, OnJob,
     ApprovalOnRecord, PastCheck, Decision
<1>6. ASSUME NEW r \in Request, CommitDecision(r) PROVE ApprovalOnRecord'
  BY <1>6 DEF CommitDecision, Written, Verdict, TypeOK, Req, RowsExist,
     CargoFits, OnJob, ApprovalOnRecord, PastCheck, Decision
<1>7. ASSUME NEW r \in Request, LogDecision(r) PROVE ApprovalOnRecord'
  BY <1>7 DEF LogDecision, Log, Finish, Idle, TypeOK, Req, RowsExist,
     CargoFits, OnJob, ApprovalOnRecord, PastCheck, Decision
<1>8. ASSUME NEW r \in Request, CheckApproved(r) PROVE ApprovalOnRecord'
  BY <1>8 DEF CheckApproved, Finish, Idle, TypeOK, Req, RowsExist, CargoFits,
     OnJob, ApprovalOnRecord, PastCheck, Decision
<1>9. ASSUME NEW r \in Request, MarkRunning(r) PROVE ApprovalOnRecord'
  BY <1>9 DEF MarkRunning, Written, TypeOK, Req, RowsExist, CargoFits, OnJob,
     ApprovalOnRecord, PastCheck, Decision
<1>10. ASSUME NEW r \in Request, EnterEngine(r) PROVE ApprovalOnRecord'
  BY <1>10 DEF EnterEngine, HostLock!Enter, TypeOK, Req, RowsExist,
     CargoFits, OnJob, ApprovalOnRecord, PastCheck, Decision
<1>11. ASSUME NEW r \in Request, Blocked(r) PROVE ApprovalOnRecord'
  BY <1>11 DEF Blocked, TypeOK, Req, RowsExist, CargoFits, OnJob,
     ApprovalOnRecord, PastCheck, Decision
<1>12. ASSUME NEW r \in Request, NEW o \in Outcome, RunReturns(r, o)
       PROVE  ApprovalOnRecord'
  BY <1>12 DEF RunReturns, Leave, HostLock!Vanish, TypeOK, Req, RowsExist,
     CargoFits, OnJob, ApprovalOnRecord, PastCheck, Decision
<1>13. ASSUME NEW r \in Request, SaveJob(r) PROVE ApprovalOnRecord'
  BY <1>13 DEF SaveJob, TypeOK, Req, RowsExist, CargoFits, OnJob,
     ApprovalOnRecord, PastCheck, Decision
<1>14. ASSUME NEW r \in Request, RefreshJob(r) PROVE ApprovalOnRecord'
  BY <1>14 DEF RefreshJob, TypeOK, Req, RowsExist, CargoFits, OnJob,
     ApprovalOnRecord, PastCheck, Decision
<1>15. ASSUME NEW r \in Request, SavePlan(r) PROVE ApprovalOnRecord'
  BY <1>15 DEF SavePlan, TypeOK, Req, RowsExist, CargoFits, OnJob,
     ApprovalOnRecord, PastCheck, Decision
<1>16. ASSUME NEW r \in Request, LogRun(r) PROVE ApprovalOnRecord'
  BY <1>16 DEF LogRun, Log, Finish, Idle, TypeOK, Req, RowsExist, CargoFits,
     OnJob, ApprovalOnRecord, PastCheck, Decision
<1>17. ASSUME NEW r \in Request, CommitRollback(r) PROVE ApprovalOnRecord'
  BY <1>17 DEF CommitRollback, Written, TypeOK, Req, RowsExist, CargoFits,
     OnJob, ApprovalOnRecord, PastCheck, Decision
<1>18. ASSUME NEW r \in Request, LogRollback(r) PROVE ApprovalOnRecord'
  BY <1>18 DEF LogRollback, Log, Finish, Idle, TypeOK, Req, RowsExist,
     CargoFits, OnJob, ApprovalOnRecord, PastCheck, Decision
<1>19. ASSUME NEW r \in Request, Raise(r) PROVE ApprovalOnRecord'
  BY <1>19 DEF Raise, Leave, HostLock!Vanish, Finish, Idle, TypeOK, Req,
     RowsExist, CargoFits, OnJob, ApprovalOnRecord, PastCheck, Decision
<1>20. ASSUME NEW h \in Host, LeaseExpires(h) PROVE ApprovalOnRecord'
  BY <1>20 DEF LeaseExpires, HostLock!Vanish, TypeOK, ApprovalOnRecord
<1>21. ASSUME Crash PROVE ApprovalOnRecord'
  BY <1>21 DEF Crash, HostLock!Vanish, Idle, TypeOK, Req, RowsExist,
     CargoFits, OnJob, ApprovalOnRecord, PastCheck, Decision
<1>22. CASE UNCHANGED vars
  BY <1>22 DEF vars, TypeOK, ApprovalOnRecord
<1> QED
  BY <1>1, <1>2, <1>3, <1>4, <1>5, <1>6, <1>7, <1>8, <1>9, <1>10, <1>11,
     <1>12, <1>13, <1>14, <1>15, <1>16, <1>17, <1>18, <1>19, <1>20, <1>21, <1>22 DEF
     Next, Proceed

(* An engine run ends only for a request that found its plan APPROVED.     *)
LEMMA NextRunsApproved == IInv /\ [Next]_vars => RunsAreApproved'
<1> SUFFICES ASSUME IInv, [Next]_vars PROVE RunsAreApproved'
  OBVIOUS
<1> USE LifecycleAssumption DEF IInv, Carried, lockVars
<1>1. ASSUME NEW p \in Plan, NEW allowed \in BOOLEAN, Generate(p, allowed)
      PROVE  RunsAreApproved'
  BY <1>1 DEF Generate, TypeOK, RunsAreApproved
<1>2. ASSUME NEW j \in Job, NEW p \in Plan, CreateJob(j, p)
      PROVE  RunsAreApproved'
  BY <1>2 DEF CreateJob, TypeOK, RunsAreApproved
<1>3. ASSUME NEW r \in Request, NEW p \in Plan, NEW d \in Decision, StartApproval(r, p, d)
      PROVE  RunsAreApproved'
  BY <1>3 DEF StartApproval, Begin, TypeOK, RunsAreApproved
<1>4. ASSUME NEW r \in Request, NEW j \in Job, StartExecution(r, j)
      PROVE  RunsAreApproved'
  BY <1>4 DEF StartExecution, Begin, TypeOK, RunsAreApproved
<1>5. ASSUME NEW r \in Request, NEW j \in Job, StartRollback(r, j)
      PROVE  RunsAreApproved'
  BY <1>5 DEF StartRollback, Begin, TypeOK, RunsAreApproved
<1>6. ASSUME NEW r \in Request, CommitDecision(r) PROVE RunsAreApproved'
  BY <1>6 DEF CommitDecision, Written, Verdict, TypeOK, RunsAreApproved
<1>7. ASSUME NEW r \in Request, LogDecision(r) PROVE RunsAreApproved'
  BY <1>7 DEF LogDecision, Log, Finish, Idle, TypeOK, RunsAreApproved
<1>8. ASSUME NEW r \in Request, CheckApproved(r) PROVE RunsAreApproved'
  BY <1>8 DEF CheckApproved, Finish, Idle, TypeOK, RunsAreApproved
<1>9. ASSUME NEW r \in Request, MarkRunning(r) PROVE RunsAreApproved'
  BY <1>9 DEF MarkRunning, Written, TypeOK, RunsAreApproved
<1>10. ASSUME NEW r \in Request, EnterEngine(r) PROVE RunsAreApproved'
  BY <1>10 DEF EnterEngine, HostLock!Enter, TypeOK, RunsAreApproved
<1>11. ASSUME NEW r \in Request, Blocked(r) PROVE RunsAreApproved'
  BY <1>11 DEF Blocked, TypeOK, RunsAreApproved
<1>12. ASSUME NEW r \in Request, NEW o \in Outcome, RunReturns(r, o)
       PROVE  RunsAreApproved'
  BY <1>12 DEF RunReturns, Leave, HostLock!Vanish, TypeOK, Req, RowsExist,
     CargoFits, OnJob, ApprovalOnRecord, RunsAreApproved, PastCheck, Decision
<1>13. ASSUME NEW r \in Request, SaveJob(r) PROVE RunsAreApproved'
  BY <1>13 DEF SaveJob, TypeOK, RunsAreApproved
<1>14. ASSUME NEW r \in Request, RefreshJob(r) PROVE RunsAreApproved'
  BY <1>14 DEF RefreshJob, TypeOK, RunsAreApproved
<1>15. ASSUME NEW r \in Request, SavePlan(r) PROVE RunsAreApproved'
  BY <1>15 DEF SavePlan, TypeOK, RunsAreApproved
<1>16. ASSUME NEW r \in Request, LogRun(r) PROVE RunsAreApproved'
  BY <1>16 DEF LogRun, Log, Finish, Idle, TypeOK, RunsAreApproved
<1>17. ASSUME NEW r \in Request, CommitRollback(r) PROVE RunsAreApproved'
  BY <1>17 DEF CommitRollback, Written, TypeOK, RunsAreApproved
<1>18. ASSUME NEW r \in Request, LogRollback(r) PROVE RunsAreApproved'
  BY <1>18 DEF LogRollback, Log, Finish, Idle, TypeOK, RunsAreApproved
<1>19. ASSUME NEW r \in Request, Raise(r) PROVE RunsAreApproved'
  BY <1>19 DEF Raise, Leave, HostLock!Vanish, Finish, Idle, TypeOK,
     RunsAreApproved
<1>20. ASSUME NEW h \in Host, LeaseExpires(h) PROVE RunsAreApproved'
  BY <1>20 DEF LeaseExpires, HostLock!Vanish, TypeOK, RunsAreApproved
<1>21. ASSUME Crash PROVE RunsAreApproved'
  BY <1>21 DEF Crash, HostLock!Vanish, Idle, TypeOK, RunsAreApproved
<1>22. CASE UNCHANGED vars
  BY <1>22 DEF vars, TypeOK, RunsAreApproved
<1> QED
  BY <1>1, <1>2, <1>3, <1>4, <1>5, <1>6, <1>7, <1>8, <1>9, <1>10, <1>11,
     <1>12, <1>13, <1>14, <1>15, <1>16, <1>17, <1>18, <1>19, <1>20, <1>21, <1>22 DEF
     Next, Proceed

(* SUCCESS reaches a request from the engine or from the row of its own    *)
(* job.                                                                    *)
LEMMA NextSuccessCarried == IInv /\ [Next]_vars => SuccessCarried'
<1> SUFFICES ASSUME IInv, [Next]_vars PROVE SuccessCarried'
  OBVIOUS
<1> USE LifecycleAssumption DEF IInv, Carried, lockVars
<1>1. ASSUME NEW p \in Plan, NEW allowed \in BOOLEAN, Generate(p, allowed)
      PROVE  SuccessCarried'
  BY <1>1 DEF Generate, TypeOK, SuccessCarried
<1>2. ASSUME NEW j \in Job, NEW p \in Plan, CreateJob(j, p)
      PROVE  SuccessCarried'
  BY <1>2 DEF CreateJob, TypeOK, SuccessCarried
<1>3. ASSUME NEW r \in Request, NEW p \in Plan, NEW d \in Decision, StartApproval(r, p, d)
      PROVE  SuccessCarried'
  BY <1>3 DEF StartApproval, Begin, TypeOK, SuccessCarried
<1>4. ASSUME NEW r \in Request, NEW j \in Job, StartExecution(r, j)
      PROVE  SuccessCarried'
  BY <1>4 DEF StartExecution, Begin, TypeOK, SuccessCarried
<1>5. ASSUME NEW r \in Request, NEW j \in Job, StartRollback(r, j)
      PROVE  SuccessCarried'
  BY <1>5 DEF StartRollback, Begin, TypeOK, SuccessCarried
<1>6. ASSUME NEW r \in Request, CommitDecision(r) PROVE SuccessCarried'
  BY <1>6 DEF CommitDecision, Written, Verdict, TypeOK, SuccessCarried
<1>7. ASSUME NEW r \in Request, LogDecision(r) PROVE SuccessCarried'
  BY <1>7 DEF LogDecision, Log, Finish, Idle, TypeOK, SuccessCarried
<1>8. ASSUME NEW r \in Request, CheckApproved(r) PROVE SuccessCarried'
  BY <1>8 DEF CheckApproved, Finish, Idle, TypeOK, Req, RowsExist, CargoFits,
     OnJob, SuccessCarried, SuccessIsReal, Result
<1>9. ASSUME NEW r \in Request, MarkRunning(r) PROVE SuccessCarried'
  BY <1>9 DEF MarkRunning, Written, TypeOK, SuccessCarried
<1>10. ASSUME NEW r \in Request, EnterEngine(r) PROVE SuccessCarried'
  BY <1>10 DEF EnterEngine, HostLock!Enter, TypeOK, SuccessCarried
<1>11. ASSUME NEW r \in Request, Blocked(r) PROVE SuccessCarried'
  BY <1>11 DEF Blocked, TypeOK, SuccessCarried
<1>12. ASSUME NEW r \in Request, NEW o \in Outcome, RunReturns(r, o)
       PROVE  SuccessCarried'
  BY <1>12 DEF RunReturns, Leave, HostLock!Vanish, TypeOK, Req, RowsExist,
     CargoFits, OnJob, SuccessCarried, SuccessIsReal, Result
<1>13. ASSUME NEW r \in Request, SaveJob(r) PROVE SuccessCarried'
  BY <1>13 DEF SaveJob, TypeOK, SuccessCarried
<1>14. ASSUME NEW r \in Request, RefreshJob(r) PROVE SuccessCarried'
  BY <1>14 DEF RefreshJob, TypeOK, Req, RowsExist, CargoFits, OnJob,
     SuccessCarried, SuccessIsReal, Result
<1>15. ASSUME NEW r \in Request, SavePlan(r) PROVE SuccessCarried'
  BY <1>15 DEF SavePlan, TypeOK, Req, RowsExist, CargoFits, OnJob,
     SuccessCarried, SuccessIsReal, Result
<1>16. ASSUME NEW r \in Request, LogRun(r) PROVE SuccessCarried'
  BY <1>16 DEF LogRun, Log, Finish, Idle, TypeOK, SuccessCarried
<1>17. ASSUME NEW r \in Request, CommitRollback(r) PROVE SuccessCarried'
  BY <1>17 DEF CommitRollback, Written, TypeOK, SuccessCarried
<1>18. ASSUME NEW r \in Request, LogRollback(r) PROVE SuccessCarried'
  BY <1>18 DEF LogRollback, Log, Finish, Idle, TypeOK, SuccessCarried
<1>19. ASSUME NEW r \in Request, Raise(r) PROVE SuccessCarried'
  BY <1>19 DEF Raise, Leave, HostLock!Vanish, Finish, Idle, TypeOK,
     SuccessCarried
<1>20. ASSUME NEW h \in Host, LeaseExpires(h) PROVE SuccessCarried'
  BY <1>20 DEF LeaseExpires, HostLock!Vanish, TypeOK, SuccessCarried
<1>21. ASSUME Crash PROVE SuccessCarried'
  BY <1>21 DEF Crash, HostLock!Vanish, Idle, TypeOK, SuccessCarried
<1>22. CASE UNCHANGED vars
  BY <1>22 DEF vars, TypeOK, SuccessCarried
<1> QED
  BY <1>1, <1>2, <1>3, <1>4, <1>5, <1>6, <1>7, <1>8, <1>9, <1>10, <1>11,
     <1>12, <1>13, <1>14, <1>15, <1>16, <1>17, <1>18, <1>19, <1>20, <1>21, <1>22 DEF
     Next, Proceed

(* Plan, job and event say SUCCESS only if a request carried it there.     *)
LEMMA NextSuccessReal == IInv /\ [Next]_vars => SuccessIsReal'
<1> SUFFICES ASSUME IInv, [Next]_vars PROVE SuccessIsReal'
  OBVIOUS
<1> USE LifecycleAssumption DEF IInv, Carried, lockVars
<1>1. ASSUME NEW p \in Plan, NEW allowed \in BOOLEAN, Generate(p, allowed)
      PROVE  SuccessIsReal'
  BY <1>1 DEF Generate, TypeOK, SuccessIsReal
<1>2. ASSUME NEW j \in Job, NEW p \in Plan, CreateJob(j, p)
      PROVE  SuccessIsReal'
  BY <1>2 DEF CreateJob, TypeOK, SuccessIsReal
<1>3. ASSUME NEW r \in Request, NEW p \in Plan, NEW d \in Decision, StartApproval(r, p, d)
      PROVE  SuccessIsReal'
  BY <1>3 DEF StartApproval, Begin, TypeOK, SuccessIsReal
<1>4. ASSUME NEW r \in Request, NEW j \in Job, StartExecution(r, j)
      PROVE  SuccessIsReal'
  BY <1>4 DEF StartExecution, Begin, TypeOK, SuccessIsReal
<1>5. ASSUME NEW r \in Request, NEW j \in Job, StartRollback(r, j)
      PROVE  SuccessIsReal'
  BY <1>5 DEF StartRollback, Begin, TypeOK, SuccessIsReal
<1>6. ASSUME NEW r \in Request, CommitDecision(r) PROVE SuccessIsReal'
  BY <1>6 DEF CommitDecision, Written, Verdict, TypeOK, SuccessIsReal
<1>7. ASSUME NEW r \in Request, LogDecision(r) PROVE SuccessIsReal'
  BY <1>7 DEF LogDecision, Log, Finish, Idle, TypeOK, Req, RowsExist,
     CargoFits, OnJob, SuccessCarried, SuccessIsReal, Result, Decision
<1>8. ASSUME NEW r \in Request, CheckApproved(r) PROVE SuccessIsReal'
  BY <1>8 DEF CheckApproved, Finish, Idle, TypeOK, SuccessIsReal
<1>9. ASSUME NEW r \in Request, MarkRunning(r) PROVE SuccessIsReal'
  BY <1>9 DEF MarkRunning, Written, TypeOK, SuccessIsReal
<1>10. ASSUME NEW r \in Request, EnterEngine(r) PROVE SuccessIsReal'
  BY <1>10 DEF EnterEngine, HostLock!Enter, TypeOK, SuccessIsReal
<1>11. ASSUME NEW r \in Request, Blocked(r) PROVE SuccessIsReal'
  BY <1>11 DEF Blocked, TypeOK, SuccessIsReal
<1>12. ASSUME NEW r \in Request, NEW o \in Outcome, RunReturns(r, o)
       PROVE  SuccessIsReal'
  BY <1>12 DEF RunReturns, Leave, HostLock!Vanish, TypeOK, SuccessIsReal
<1>13. ASSUME NEW r \in Request, SaveJob(r) PROVE SuccessIsReal'
  BY <1>13 DEF SaveJob, TypeOK, Req, RowsExist, CargoFits, OnJob,
     SuccessCarried, SuccessIsReal, Result, Decision
<1>14. ASSUME NEW r \in Request, RefreshJob(r) PROVE SuccessIsReal'
  BY <1>14 DEF RefreshJob, TypeOK, Req, RowsExist, CargoFits, OnJob,
     SuccessCarried, SuccessIsReal, Result, Decision
<1>15. ASSUME NEW r \in Request, SavePlan(r) PROVE SuccessIsReal'
  BY <1>15 DEF SavePlan, TypeOK, Req, RowsExist, CargoFits, OnJob,
     SuccessCarried, SuccessIsReal, Result, Decision
<1>16. ASSUME NEW r \in Request, LogRun(r) PROVE SuccessIsReal'
  BY <1>16 DEF LogRun, Log, Finish, Idle, TypeOK, Req, RowsExist, CargoFits,
     OnJob, SuccessCarried, SuccessIsReal, Result, Decision
<1>17. ASSUME NEW r \in Request, CommitRollback(r) PROVE SuccessIsReal'
  BY <1>17 DEF CommitRollback, Written, TypeOK, SuccessIsReal
<1>18. ASSUME NEW r \in Request, LogRollback(r) PROVE SuccessIsReal'
  BY <1>18 DEF LogRollback, Log, Finish, Idle, TypeOK, SuccessIsReal
<1>19. ASSUME NEW r \in Request, Raise(r) PROVE SuccessIsReal'
  BY <1>19 DEF Raise, Leave, HostLock!Vanish, Finish, Idle, TypeOK,
     SuccessIsReal
<1>20. ASSUME NEW h \in Host, LeaseExpires(h) PROVE SuccessIsReal'
  BY <1>20 DEF LeaseExpires, HostLock!Vanish, TypeOK, SuccessIsReal
<1>21. ASSUME Crash PROVE SuccessIsReal'
  BY <1>21 DEF Crash, HostLock!Vanish, Idle, TypeOK, SuccessIsReal
<1>22. CASE UNCHANGED vars
  BY <1>22 DEF vars, TypeOK, SuccessIsReal
<1> QED
  BY <1>1, <1>2, <1>3, <1>4, <1>5, <1>6, <1>7, <1>8, <1>9, <1>10, <1>11,
     <1>12, <1>13, <1>14, <1>15, <1>16, <1>17, <1>18, <1>19, <1>20, <1>21, <1>22 DEF
     Next, Proceed

(* A request inside a host owns the lock until the record ends under it.   *)
LEMMA NextOwnerOfSection == IInv /\ [Next]_vars => OwnerOfSection'
<1> SUFFICES ASSUME IInv, [Next]_vars PROVE OwnerOfSection'
  OBVIOUS
<1> USE LifecycleAssumption DEF IInv, Carried, lockVars
<1>1. ASSUME NEW p \in Plan, NEW allowed \in BOOLEAN, Generate(p, allowed)
      PROVE  OwnerOfSection'
  BY <1>1 DEF Generate, TypeOK, HostLock!TypeOK, OwnerOfSection
<1>2. ASSUME NEW j \in Job, NEW p \in Plan, CreateJob(j, p)
      PROVE  OwnerOfSection'
  BY <1>2 DEF CreateJob, TypeOK, HostLock!TypeOK, OwnerOfSection
<1>3. ASSUME NEW r \in Request, NEW p \in Plan, NEW d \in Decision, StartApproval(r, p, d)
      PROVE  OwnerOfSection'
  BY <1>3 DEF StartApproval, Begin, TypeOK, HostLock!TypeOK, OwnerOfSection
<1>4. ASSUME NEW r \in Request, NEW j \in Job, StartExecution(r, j)
      PROVE  OwnerOfSection'
  BY <1>4 DEF StartExecution, Begin, TypeOK, HostLock!TypeOK, OwnerOfSection
<1>5. ASSUME NEW r \in Request, NEW j \in Job, StartRollback(r, j)
      PROVE  OwnerOfSection'
  BY <1>5 DEF StartRollback, Begin, TypeOK, HostLock!TypeOK, OwnerOfSection
<1>6. ASSUME NEW r \in Request, CommitDecision(r) PROVE OwnerOfSection'
  BY <1>6 DEF CommitDecision, Written, Verdict, TypeOK, HostLock!TypeOK,
     OwnerOfSection
<1>7. ASSUME NEW r \in Request, LogDecision(r) PROVE OwnerOfSection'
  BY <1>7 DEF LogDecision, Log, Finish, Idle, TypeOK, HostLock!TypeOK,
     OwnerOfSection
<1>8. ASSUME NEW r \in Request, CheckApproved(r) PROVE OwnerOfSection'
  BY <1>8 DEF CheckApproved, Finish, Idle, TypeOK, HostLock!TypeOK,
     OwnerOfSection
<1>9. ASSUME NEW r \in Request, MarkRunning(r) PROVE OwnerOfSection'
  BY <1>9 DEF MarkRunning, Written, TypeOK, HostLock!TypeOK, OwnerOfSection
<1>10. ASSUME NEW r \in Request, EnterEngine(r) PROVE OwnerOfSection'
  BY <1>10 DEF EnterEngine, HostLock!Enter, TypeOK, HostLock!TypeOK,
     OwnerOfSection
<1>11. ASSUME NEW r \in Request, Blocked(r) PROVE OwnerOfSection'
  BY <1>11 DEF Blocked, TypeOK, HostLock!TypeOK, OwnerOfSection
<1>12. ASSUME NEW r \in Request, NEW o \in Outcome, RunReturns(r, o)
       PROVE  OwnerOfSection'
  BY <1>12 DEF RunReturns, Leave, HostLock!Vanish, TypeOK, HostLock!TypeOK,
     OwnerOfSection
<1>13. ASSUME NEW r \in Request, SaveJob(r) PROVE OwnerOfSection'
  BY <1>13 DEF SaveJob, TypeOK, HostLock!TypeOK, OwnerOfSection
<1>14. ASSUME NEW r \in Request, RefreshJob(r) PROVE OwnerOfSection'
  BY <1>14 DEF RefreshJob, TypeOK, HostLock!TypeOK, OwnerOfSection
<1>15. ASSUME NEW r \in Request, SavePlan(r) PROVE OwnerOfSection'
  BY <1>15 DEF SavePlan, TypeOK, HostLock!TypeOK, OwnerOfSection
<1>16. ASSUME NEW r \in Request, LogRun(r) PROVE OwnerOfSection'
  BY <1>16 DEF LogRun, Log, Finish, Idle, TypeOK, HostLock!TypeOK,
     OwnerOfSection
<1>17. ASSUME NEW r \in Request, CommitRollback(r) PROVE OwnerOfSection'
  BY <1>17 DEF CommitRollback, Written, TypeOK, HostLock!TypeOK,
     OwnerOfSection
<1>18. ASSUME NEW r \in Request, LogRollback(r) PROVE OwnerOfSection'
  BY <1>18 DEF LogRollback, Log, Finish, Idle, TypeOK, HostLock!TypeOK,
     OwnerOfSection
<1>19. ASSUME NEW r \in Request, Raise(r) PROVE OwnerOfSection'
  BY <1>19 DEF Raise, Leave, HostLock!Vanish, Finish, Idle, TypeOK,
     HostLock!TypeOK, OwnerOfSection
<1>20. ASSUME NEW h \in Host, LeaseExpires(h) PROVE OwnerOfSection'
  BY <1>20 DEF LeaseExpires, HostLock!Vanish, HostLock!EndsUnderOwner,
     TypeOK, Req, HostLock!TypeOK, SectionFits, OwnerOfSection
<1>21. ASSUME Crash PROVE OwnerOfSection'
  BY <1>21 DEF Crash, HostLock!Vanish, Idle, TypeOK, HostLock!TypeOK,
     OwnerOfSection
<1>22. CASE UNCHANGED vars
  BY <1>22 DEF vars, TypeOK, HostLock!TypeOK, OwnerOfSection
<1> QED
  BY <1>1, <1>2, <1>3, <1>4, <1>5, <1>6, <1>7, <1>8, <1>9, <1>10, <1>11,
     <1>12, <1>13, <1>14, <1>15, <1>16, <1>17, <1>18, <1>19, <1>20, <1>21, <1>22 DEF
     Next, Proceed

(* A job becomes RUNNING only under a request that goes on to overwrite    *)
(* it.                                                                     *)
LEMMA NextAttended == IInv /\ [Next]_vars => RunningJobIsAttended'
<1> SUFFICES ASSUME IInv, [Next]_vars PROVE RunningJobIsAttended'
  OBVIOUS
<1> USE LifecycleAssumption DEF IInv, Carried, lockVars
<1>1. ASSUME NEW p \in Plan, NEW allowed \in BOOLEAN, Generate(p, allowed)
      PROVE  RunningJobIsAttended'
  BY <1>1 DEF Generate, TypeOK, RunningJobIsAttended
<1>2. ASSUME NEW j \in Job, NEW p \in Plan, CreateJob(j, p)
      PROVE  RunningJobIsAttended'
  BY <1>2 DEF CreateJob, TypeOK, RunningJobIsAttended
<1>3. ASSUME NEW r \in Request, NEW p \in Plan, NEW d \in Decision, StartApproval(r, p, d)
      PROVE  RunningJobIsAttended'
  BY <1>3 DEF StartApproval, Begin, TypeOK, RunningJobIsAttended
<1>4. ASSUME NEW r \in Request, NEW j \in Job, StartExecution(r, j)
      PROVE  RunningJobIsAttended'
  BY <1>4 DEF StartExecution, Begin, TypeOK, RunningJobIsAttended
<1>5. ASSUME NEW r \in Request, NEW j \in Job, StartRollback(r, j)
      PROVE  RunningJobIsAttended'
  BY <1>5 DEF StartRollback, Begin, TypeOK, RunningJobIsAttended
<1>6. ASSUME NEW r \in Request, CommitDecision(r) PROVE RunningJobIsAttended'
  BY <1>6 DEF CommitDecision, Written, Verdict, TypeOK, RunningJobIsAttended
<1>7. ASSUME NEW r \in Request, LogDecision(r) PROVE RunningJobIsAttended'
  BY <1>7 DEF LogDecision, Log, Finish, Idle, TypeOK, RunningJobIsAttended
<1>8. ASSUME NEW r \in Request, CheckApproved(r) PROVE RunningJobIsAttended'
  BY <1>8 DEF CheckApproved, Finish, Idle, TypeOK, RunningJobIsAttended
<1>9. ASSUME NEW r \in Request, MarkRunning(r) PROVE RunningJobIsAttended'
  BY <1>9 DEF MarkRunning, Written, TypeOK, RunningJobIsAttended
<1>10. ASSUME NEW r \in Request, EnterEngine(r) PROVE RunningJobIsAttended'
  BY <1>10 DEF EnterEngine, HostLock!Enter, TypeOK, RunningJobIsAttended
<1>11. ASSUME NEW r \in Request, Blocked(r) PROVE RunningJobIsAttended'
  BY <1>11 DEF Blocked, TypeOK, RunningJobIsAttended
<1>12. ASSUME NEW r \in Request, NEW o \in Outcome, RunReturns(r, o)
       PROVE  RunningJobIsAttended'
  BY <1>12 DEF RunReturns, Leave, HostLock!Vanish, TypeOK,
     RunningJobIsAttended
<1>13. ASSUME NEW r \in Request, SaveJob(r) PROVE RunningJobIsAttended'
  BY <1>13 DEF SaveJob, TypeOK, Req, RowsExist, CargoFits, OnJob,
     RunningJobIsAttended, Result
<1>14. ASSUME NEW r \in Request, RefreshJob(r) PROVE RunningJobIsAttended'
  BY <1>14 DEF RefreshJob, TypeOK, Req, RowsExist, CargoFits, OnJob,
     RunningJobIsAttended, Result
<1>15. ASSUME NEW r \in Request, SavePlan(r) PROVE RunningJobIsAttended'
  BY <1>15 DEF SavePlan, TypeOK, RunningJobIsAttended
<1>16. ASSUME NEW r \in Request, LogRun(r) PROVE RunningJobIsAttended'
  BY <1>16 DEF LogRun, Log, Finish, Idle, TypeOK, RunningJobIsAttended
<1>17. ASSUME NEW r \in Request, CommitRollback(r) PROVE RunningJobIsAttended'
  BY <1>17 DEF CommitRollback, Written, TypeOK, RunningJobIsAttended
<1>18. ASSUME NEW r \in Request, LogRollback(r) PROVE RunningJobIsAttended'
  BY <1>18 DEF LogRollback, Log, Finish, Idle, TypeOK, RunningJobIsAttended
<1>19. ASSUME NEW r \in Request, Raise(r) PROVE RunningJobIsAttended'
  BY <1>19 DEF Raise, Leave, HostLock!Vanish, Finish, Idle, TypeOK, Req,
     RowsExist, CargoFits, OnJob, RunningJobIsAttended, Result
<1>20. ASSUME NEW h \in Host, LeaseExpires(h) PROVE RunningJobIsAttended'
  BY <1>20 DEF LeaseExpires, HostLock!Vanish, TypeOK, RunningJobIsAttended
<1>21. ASSUME Crash PROVE RunningJobIsAttended'
  BY <1>21 DEF Crash, HostLock!Vanish, Idle, TypeOK, Req, RowsExist,
     CargoFits, OnJob, RunningJobIsAttended, Result
<1>22. CASE UNCHANGED vars
  BY <1>22 DEF vars, TypeOK, RunningJobIsAttended
<1> QED
  BY <1>1, <1>2, <1>3, <1>4, <1>5, <1>6, <1>7, <1>8, <1>9, <1>10, <1>11,
     <1>12, <1>13, <1>14, <1>15, <1>16, <1>17, <1>18, <1>19, <1>20, <1>21, <1>22 DEF
     Next, Proceed

(* A recorded decision is logged by the request that recorded it.          *)
LEMMA NextDecisionsAudited == IInv /\ [Next]_vars => DecisionsAreAudited'
<1> SUFFICES ASSUME IInv, [Next]_vars PROVE DecisionsAreAudited'
  OBVIOUS
<1> USE LifecycleAssumption DEF IInv, Carried, lockVars
<1>1. ASSUME NEW p \in Plan, NEW allowed \in BOOLEAN, Generate(p, allowed)
      PROVE  DecisionsAreAudited'
  BY <1>1 DEF Generate, TypeOK, DecisionsAndRunsAreAudited,
     DecisionsAreAudited
<1>2. ASSUME NEW j \in Job, NEW p \in Plan, CreateJob(j, p)
      PROVE  DecisionsAreAudited'
  BY <1>2 DEF CreateJob, TypeOK, DecisionsAndRunsAreAudited,
     DecisionsAreAudited
<1>3. ASSUME NEW r \in Request, NEW p \in Plan, NEW d \in Decision, StartApproval(r, p, d)
      PROVE  DecisionsAreAudited'
  BY <1>3 DEF StartApproval, Begin, TypeOK, DecisionsAndRunsAreAudited,
     DecisionsAreAudited
<1>4. ASSUME NEW r \in Request, NEW j \in Job, StartExecution(r, j)
      PROVE  DecisionsAreAudited'
  BY <1>4 DEF StartExecution, Begin, TypeOK, DecisionsAndRunsAreAudited,
     DecisionsAreAudited
<1>5. ASSUME NEW r \in Request, NEW j \in Job, StartRollback(r, j)
      PROVE  DecisionsAreAudited'
  BY <1>5 DEF StartRollback, Begin, TypeOK, DecisionsAndRunsAreAudited,
     DecisionsAreAudited
<1>6. ASSUME NEW r \in Request, CommitDecision(r) PROVE DecisionsAreAudited'
  BY <1>6 DEF CommitDecision, Written, Verdict, TypeOK,
     DecisionsAndRunsAreAudited, DecisionsAreAudited
<1>7. ASSUME NEW r \in Request, LogDecision(r) PROVE DecisionsAreAudited'
  <2> SUFFICES ASSUME NEW p \in Plan \ failed, NEW d \in decisions[p]
                PROVE  \/ \E e \in events' : e.what = "APPROVAL_DECISION" /\ e.plan = p /\ e.says = d
                       \/ \E x \in Request : req'[x].at = "logDecision" /\ req'[x].plan = p /\ req'[x].result = d
    BY <1>7 DEF LogDecision, DecisionsAreAudited
  <2>1. CASE req[r].plan = p /\ req[r].result = d
    <3>1. [what |-> "APPROVAL_DECISION", plan |-> p, says |-> d] \in events'
      BY <1>7, <2>1 DEF LogDecision, Log
    <3> QED
      BY <3>1
  <2>2. CASE ~(req[r].plan = p /\ req[r].result = d)
    <3>1. CASE \E e \in events : e.what = "APPROVAL_DECISION" /\ e.plan = p /\ e.says = d
      BY <1>7, <3>1 DEF LogDecision, Log
    <3>2. ASSUME NEW x \in Request, req[x].at = "logDecision" /\ req[x].plan = p /\ req[x].result = d
          PROVE  req'[x].at = "logDecision" /\ req'[x].plan = p /\ req'[x].result = d
      BY <1>7, <2>2, <3>2 DEF LogDecision, Finish, TypeOK
    <3> QED
      BY <3>1, <3>2 DEF DecisionsAndRunsAreAudited, DecisionsAreAudited
  <2> QED
    BY <2>1, <2>2
<1>8. ASSUME NEW r \in Request, CheckApproved(r) PROVE DecisionsAreAudited'
  <2>1. CASE plan[req[r].plan] = "APPROVED"
    BY <1>8, <2>1 DEF CheckApproved, TypeOK, DecisionsAndRunsAreAudited, DecisionsAreAudited
  <2>2. CASE plan[req[r].plan] # "APPROVED"
    BY <1>8, <2>2 DEF CheckApproved, Finish, TypeOK, DecisionsAndRunsAreAudited, DecisionsAreAudited
  <2> QED
    BY <2>1, <2>2
<1>9. ASSUME NEW r \in Request, MarkRunning(r) PROVE DecisionsAreAudited'
  BY <1>9 DEF MarkRunning, Written, TypeOK, DecisionsAndRunsAreAudited,
     DecisionsAreAudited
<1>10. ASSUME NEW r \in Request, EnterEngine(r) PROVE DecisionsAreAudited'
  BY <1>10 DEF EnterEngine, HostLock!Enter, TypeOK,
     DecisionsAndRunsAreAudited, DecisionsAreAudited
<1>11. ASSUME NEW r \in Request, Blocked(r) PROVE DecisionsAreAudited'
  BY <1>11 DEF Blocked, TypeOK, DecisionsAndRunsAreAudited,
     DecisionsAreAudited
<1>12. ASSUME NEW r \in Request, NEW o \in Outcome, RunReturns(r, o)
       PROVE  DecisionsAreAudited'
  BY <1>12 DEF RunReturns, Leave, HostLock!Vanish, TypeOK,
     DecisionsAndRunsAreAudited, DecisionsAreAudited
<1>13. ASSUME NEW r \in Request, SaveJob(r) PROVE DecisionsAreAudited'
  BY <1>13 DEF SaveJob, TypeOK, DecisionsAndRunsAreAudited,
     DecisionsAreAudited
<1>14. ASSUME NEW r \in Request, RefreshJob(r) PROVE DecisionsAreAudited'
  BY <1>14 DEF RefreshJob, TypeOK, DecisionsAndRunsAreAudited,
     DecisionsAreAudited
<1>15. ASSUME NEW r \in Request, SavePlan(r) PROVE DecisionsAreAudited'
  BY <1>15 DEF SavePlan, TypeOK, DecisionsAndRunsAreAudited,
     DecisionsAreAudited
<1>16. ASSUME NEW r \in Request, LogRun(r) PROVE DecisionsAreAudited'
  BY <1>16 DEF LogRun, Log, Finish, Idle, TypeOK, DecisionsAndRunsAreAudited,
     DecisionsAreAudited
<1>17. ASSUME NEW r \in Request, CommitRollback(r) PROVE DecisionsAreAudited'
  BY <1>17 DEF CommitRollback, Written, TypeOK, DecisionsAndRunsAreAudited,
     DecisionsAreAudited
<1>18. ASSUME NEW r \in Request, LogRollback(r) PROVE DecisionsAreAudited'
  BY <1>18 DEF LogRollback, Log, Finish, Idle, TypeOK,
     DecisionsAndRunsAreAudited, DecisionsAreAudited
<1>19. ASSUME NEW r \in Request, Raise(r) PROVE DecisionsAreAudited'
  BY <1>19 DEF Raise, Leave, HostLock!Vanish, Finish, Idle, TypeOK,
     DecisionsAndRunsAreAudited, DecisionsAreAudited
<1>20. ASSUME NEW h \in Host, LeaseExpires(h) PROVE DecisionsAreAudited'
  BY <1>20 DEF LeaseExpires, HostLock!Vanish, TypeOK,
     DecisionsAndRunsAreAudited, DecisionsAreAudited
<1>21. ASSUME Crash PROVE DecisionsAreAudited'
  BY <1>21 DEF Crash, HostLock!Vanish, Idle, TypeOK,
     DecisionsAndRunsAreAudited, DecisionsAreAudited
<1>22. CASE UNCHANGED vars
  BY <1>22 DEF vars, TypeOK, DecisionsAndRunsAreAudited, DecisionsAreAudited
<1> QED
  BY <1>1, <1>2, <1>3, <1>4, <1>5, <1>6, <1>7, <1>8, <1>9, <1>10, <1>11,
     <1>12, <1>13, <1>14, <1>15, <1>16, <1>17, <1>18, <1>19, <1>20, <1>21, <1>22 DEF
     Next, Proceed

(* A plan set EXECUTED or FAILED is logged by the request that set it.     *)
LEMMA NextRunsAudited == IInv /\ [Next]_vars => RunsAreAudited'
<1> SUFFICES ASSUME IInv, [Next]_vars PROVE RunsAreAudited'
  OBVIOUS
<1> USE LifecycleAssumption DEF IInv, Carried, lockVars
<1>1. ASSUME NEW p \in Plan, NEW allowed \in BOOLEAN, Generate(p, allowed)
      PROVE  RunsAreAudited'
  BY <1>1 DEF Generate, TypeOK, DecisionsAndRunsAreAudited, RunsAreAudited
<1>2. ASSUME NEW j \in Job, NEW p \in Plan, CreateJob(j, p)
      PROVE  RunsAreAudited'
  BY <1>2 DEF CreateJob, TypeOK, DecisionsAndRunsAreAudited, RunsAreAudited
<1>3. ASSUME NEW r \in Request, NEW p \in Plan, NEW d \in Decision, StartApproval(r, p, d)
      PROVE  RunsAreAudited'
  BY <1>3 DEF StartApproval, Begin, TypeOK, DecisionsAndRunsAreAudited,
     RunsAreAudited
<1>4. ASSUME NEW r \in Request, NEW j \in Job, StartExecution(r, j)
      PROVE  RunsAreAudited'
  BY <1>4 DEF StartExecution, Begin, TypeOK, DecisionsAndRunsAreAudited,
     RunsAreAudited
<1>5. ASSUME NEW r \in Request, NEW j \in Job, StartRollback(r, j)
      PROVE  RunsAreAudited'
  BY <1>5 DEF StartRollback, Begin, TypeOK, DecisionsAndRunsAreAudited,
     RunsAreAudited
<1>6. ASSUME NEW r \in Request, CommitDecision(r) PROVE RunsAreAudited'
  BY <1>6 DEF CommitDecision, Written, Verdict, TypeOK,
     DecisionsAndRunsAreAudited, RunsAreAudited
<1>7. ASSUME NEW r \in Request, LogDecision(r) PROVE RunsAreAudited'
  BY <1>7 DEF LogDecision, Log, Finish, Idle, TypeOK,
     DecisionsAndRunsAreAudited, RunsAreAudited
<1>8. ASSUME NEW r \in Request, CheckApproved(r) PROVE RunsAreAudited'
  BY <1>8 DEF CheckApproved, Finish, Idle, TypeOK,
     DecisionsAndRunsAreAudited, RunsAreAudited
<1>9. ASSUME NEW r \in Request, MarkRunning(r) PROVE RunsAreAudited'
  BY <1>9 DEF MarkRunning, Written, TypeOK, DecisionsAndRunsAreAudited,
     RunsAreAudited
<1>10. ASSUME NEW r \in Request, EnterEngine(r) PROVE RunsAreAudited'
  BY <1>10 DEF EnterEngine, HostLock!Enter, TypeOK,
     DecisionsAndRunsAreAudited, RunsAreAudited
<1>11. ASSUME NEW r \in Request, Blocked(r) PROVE RunsAreAudited'
  BY <1>11 DEF Blocked, TypeOK, DecisionsAndRunsAreAudited, RunsAreAudited
<1>12. ASSUME NEW r \in Request, NEW o \in Outcome, RunReturns(r, o)
       PROVE  RunsAreAudited'
  BY <1>12 DEF RunReturns, Leave, HostLock!Vanish, TypeOK,
     DecisionsAndRunsAreAudited, RunsAreAudited
<1>13. ASSUME NEW r \in Request, SaveJob(r) PROVE RunsAreAudited'
  BY <1>13 DEF SaveJob, TypeOK, DecisionsAndRunsAreAudited, RunsAreAudited
<1>14. ASSUME NEW r \in Request, RefreshJob(r) PROVE RunsAreAudited'
  BY <1>14 DEF RefreshJob, TypeOK, DecisionsAndRunsAreAudited, RunsAreAudited
<1>15. ASSUME NEW r \in Request, SavePlan(r) PROVE RunsAreAudited'
  BY <1>15 DEF SavePlan, TypeOK, DecisionsAndRunsAreAudited, RunsAreAudited
<1>16. ASSUME NEW r \in Request, LogRun(r) PROVE RunsAreAudited'
  <2> SUFFICES ASSUME NEW p \in Plan \ failed, plan[p] \in {"EXECUTED", "FAILED"}
                PROVE  \/ \E e \in events' : e.what = "PATCH_EXECUTED" /\ e.plan = p
                       \/ \E x \in Request : req'[x].at = "logRun" /\ req'[x].plan = p
    BY <1>16 DEF LogRun, RunsAreAudited
  <2>1. CASE req[r].plan = p
    <3>1. [what |-> "PATCH_EXECUTED", plan |-> p, says |-> req[r].saw] \in events'
      BY <1>16, <2>1 DEF LogRun, Log
    <3> QED
      BY <3>1
  <2>2. CASE ~(req[r].plan = p)
    <3>1. CASE \E e \in events : e.what = "PATCH_EXECUTED" /\ e.plan = p
      BY <1>16, <3>1 DEF LogRun, Log
    <3>2. ASSUME NEW x \in Request, req[x].at = "logRun" /\ req[x].plan = p
          PROVE  req'[x].at = "logRun" /\ req'[x].plan = p
      BY <1>16, <2>2, <3>2 DEF LogRun, Finish, TypeOK
    <3> QED
      BY <3>1, <3>2 DEF DecisionsAndRunsAreAudited, RunsAreAudited
  <2> QED
    BY <2>1, <2>2
<1>17. ASSUME NEW r \in Request, CommitRollback(r) PROVE RunsAreAudited'
  BY <1>17 DEF CommitRollback, Written, TypeOK, DecisionsAndRunsAreAudited,
     RunsAreAudited
<1>18. ASSUME NEW r \in Request, LogRollback(r) PROVE RunsAreAudited'
  BY <1>18 DEF LogRollback, Log, Finish, Idle, TypeOK,
     DecisionsAndRunsAreAudited, RunsAreAudited
<1>19. ASSUME NEW r \in Request, Raise(r) PROVE RunsAreAudited'
  BY <1>19 DEF Raise, Leave, HostLock!Vanish, Finish, Idle, TypeOK,
     DecisionsAndRunsAreAudited, RunsAreAudited
<1>20. ASSUME NEW h \in Host, LeaseExpires(h) PROVE RunsAreAudited'
  BY <1>20 DEF LeaseExpires, HostLock!Vanish, TypeOK,
     DecisionsAndRunsAreAudited, RunsAreAudited
<1>21. ASSUME Crash PROVE RunsAreAudited'
  BY <1>21 DEF Crash, HostLock!Vanish, Idle, TypeOK,
     DecisionsAndRunsAreAudited, RunsAreAudited
<1>22. CASE UNCHANGED vars
  BY <1>22 DEF vars, TypeOK, DecisionsAndRunsAreAudited, RunsAreAudited
<1> QED
  BY <1>1, <1>2, <1>3, <1>4, <1>5, <1>6, <1>7, <1>8, <1>9, <1>10, <1>11,
     <1>12, <1>13, <1>14, <1>15, <1>16, <1>17, <1>18, <1>19, <1>20, <1>21, <1>22 DEF
     Next, Proceed

(* The initial state has no rows, no requests and no owners.                *)
LEMMA InitIInv == Init => IInv
<1> SUFFICES ASSUME Init PROVE IInv
  OBVIOUS
<1> USE LifecycleAssumption DEF Init
<1>1. TypeOK
  <2>1. Idle \in Req
    BY DEF Idle, Req, Stage, PlanStatus
  <2>2. HostLock!TypeOK
    BY DEF HostLock!Init, HostLock!TypeOK
  <2> QED
    BY <2>1, <2>2 DEF TypeOK, PlanStatus, JobStatus
<1>2. Carried
  BY DEF Carried, RowsExist, CargoFits, SectionFits, OnJob, Idle, HostLock!Init
<1>3. ApprovalOnRecord /\ RunsAreApproved
  BY DEF ApprovalOnRecord, RunsAreApproved, PastCheck, Idle
<1>4. SuccessCarried /\ SuccessIsReal
  BY DEF SuccessCarried, SuccessIsReal, Idle
<1>5. OwnerOfSection
  BY DEF OwnerOfSection, HostLock!Init
<1>6. RunningJobIsAttended /\ DecisionsAndRunsAreAudited
  BY DEF RunningJobIsAttended, DecisionsAndRunsAreAudited, DecisionsAreAudited, RunsAreAudited
<1> QED
  BY <1>1, <1>2, <1>3, <1>4, <1>5, <1>6 DEF IInv

(* The parts of TypeOK together.                                           *)
LEMMA NextTyped == IInv /\ [Next]_vars => TypeOK'
<1> SUFFICES ASSUME IInv, [Next]_vars PROVE TypeOK'
  OBVIOUS
<1>1. ReqTyped' /\ RowsTyped' /\ TrailTyped' /\ HistoryTyped' /\ HostLock!TypeOK'
  BY NextReqTyped, NextRowsTyped, NextTrailTyped, NextHistoryTyped, NextLockTyped
<1> QED
  BY <1>1 DEF TypeOK, ReqTyped, RowsTyped, TrailTyped, HistoryTyped

(* The inductive invariant: what each request carries, the approval and    *)
(* the successful run behind it, the lock it owns and the log it owes.     *)
THEOREM Inductive == Spec => []IInv
<1>1. Init => IInv
  BY InitIInv
<1>2. IInv /\ [Next]_vars => IInv'
  <2> SUFFICES ASSUME IInv, [Next]_vars PROVE IInv'
    OBVIOUS
  <2>1. TypeOK'
    BY NextTyped
  <2>2. Carried'
    BY NextRowsExist, NextCargoFits, NextSectionFits DEF Carried
  <2>3. ApprovalOnRecord' /\ RunsAreApproved'
    BY NextApproved, NextRunsApproved
  <2>4. SuccessCarried' /\ SuccessIsReal'
    BY NextSuccessCarried, NextSuccessReal
  <2>5. OwnerOfSection' /\ RunningJobIsAttended'
    BY NextOwnerOfSection, NextAttended
  <2>6. DecisionsAndRunsAreAudited'
    BY NextDecisionsAudited, NextRunsAudited DEF DecisionsAndRunsAreAudited
  <2> QED
    BY <2>1, <2>2, <2>3, <2>4, <2>5, <2>6 DEF IInv
<1> QED
  BY <1>1, <1>2, PTL DEF Spec

(* Every reachable state of the lifecycle is well typed.                   *)
THEOREM TypeCorrect == Spec => []TypeOK
<1>1. IInv => TypeOK
  BY DEF IInv
<1> QED
  BY <1>1, Inductive, PTL

(* No engine run is ever reported for a plan without a recorded approval,  *)
(* for any number of plans, jobs and overlapping requests                  *)
(* (execute_patch_job, patch_jobs.py).                                     *)
THEOREM RunsNeedApproval == Spec => []RunsAreApproved
<1>1. IInv => RunsAreApproved
  BY DEF IInv
<1> QED
  BY <1>1, Inductive, PTL

(* Every plan, job and audit event that claims success goes back to a      *)
(* successful engine run of that plan (execute_patch_job).                 *)
THEOREM SuccessIsEarned == Spec => []SuccessIsReal
<1>1. IInv => SuccessIsReal
  BY DEF IInv
<1> QED
  BY <1>1, Inductive, PTL

(* No job stays RUNNING without a request executing it, unless one about   *)
(* its plan died (execute_patch_job, rollback_patch_job).                  *)
THEOREM RunningJobsAreAttended == Spec => []RunningJobIsAttended
<1>1. IInv => RunningJobIsAttended
  BY DEF IInv
<1> QED
  BY <1>1, Inductive, PTL

(* Every decision and every executed or failed plan is in the audit trail, *)
(* or about to be, or a request about the plan died.                       *)
THEOREM TrailIsComplete == Spec => []DecisionsAndRunsAreAudited
<1>1. IInv => DecisionsAndRunsAreAudited
  BY DEF IInv
<1> QED
  BY <1>1, Inductive, PTL

(* Two engine runs are inside one host at a time only after its lock was   *)
(* lost (run_remediation under the host lock, engine.py).                  *)
THEOREM HostsRunOneAtATime == Spec => []OneRunPerHost
<1>1. IInv => OneRunPerHost
  <2> SUFFICES ASSUME IInv, NEW h \in Host \ lost,
                      NEW r \in Running(h), NEW s \in Running(h)
               PROVE  r = s
    BY DEF OneRunPerHost
  <2>1. r \in Request /\ s \in Request /\ inside[r] = h /\ inside[s] = h
    BY DEF Running, IInv, Carried, SectionFits
  <2>2. owner[h] = r /\ owner[h] = s
    BY <2>1 DEF IInv, OwnerOfSection
  <2> QED
    BY <2>2
<1> QED
  BY <1>1, Inductive, PTL

----------------------------------------------------------------------------
(* What LeaseLock promises of its own accord: whoever is inside a lock     *)
(* that was not lost owns it, so that only one is (Redlock).               *)
LEMMA LockStep ==
  ASSUME HostLock!TypeOK, OwnerOfSection, [HostLock!Next]_(HostLock!vars)
  PROVE  HostLock!TypeOK' /\ OwnerOfSection'
<1> USE LifecycleAssumption DEF HostLock!TypeOK, OwnerOfSection
<1>1. ASSUME NEW r \in Request, NEW h \in Host, HostLock!Enter(r, h)
      PROVE  HostLock!TypeOK' /\ OwnerOfSection'
  BY <1>1 DEF HostLock!Enter
<1>2. ASSUME NEW C \in SUBSET Request, NEW K \in SUBSET Host, HostLock!Vanish(C, K)
      PROVE  HostLock!TypeOK' /\ OwnerOfSection'
  <2>1. HostLock!TypeOK'
    BY <1>2 DEF HostLock!Vanish
  <2>2. ASSUME NEW r \in Request, inside'[r] \in Host \ lost'
        PROVE  owner'[inside'[r]] = r
    <3>1. r \notin C /\ inside'[r] = inside[r] /\ inside[r] \in Host \ lost
      BY <1>2, <2>2 DEF HostLock!Vanish
    <3>2. owner[inside[r]] = r
      BY <3>1
    <3>3. inside[r] \notin K
      BY <1>2, <2>2, <3>1, <3>2 DEF HostLock!Vanish, HostLock!EndsUnderOwner
    <3> QED
      BY <1>2, <3>1, <3>2, <3>3 DEF HostLock!Vanish
  <2> QED
    BY <2>1, <2>2
<1>3. ASSUME NEW r \in Request, NEW h \in Host, HostLock!Claim(r, h)
      PROVE  HostLock!TypeOK' /\ OwnerOfSection'
  BY <1>3 DEF HostLock!Claim
<1>4. CASE UNCHANGED HostLock!vars
  BY <1>4 DEF HostLock!vars
<1> QED
  BY <1>1, <1>2, <1>3, <1>4 DEF HostLock!Next

(* Everything that implements LeaseLock keeps two clients from being       *)
(* inside one lock until it was lost (Redlock).                            *)
THEOREM LeaseLockExcludes == HostLock!Spec => []HostLock!Exclusion
<1>1. HostLock!Init => HostLock!TypeOK /\ OwnerOfSection
  BY LifecycleAssumption DEF HostLock!Init, HostLock!TypeOK, OwnerOfSection
<1>2. HostLock!TypeOK /\ OwnerOfSection => HostLock!Exclusion
  BY LifecycleAssumption DEF HostLock!TypeOK, OwnerOfSection, HostLock!Exclusion
<1> QED
  BY <1>1, <1>2, LockStep, PTL DEF HostLock!Spec

(* A request that returns from its run, or raises in it, leaves its lock   *)
(* as LeaseLock lets it (run_remediation).                                 *)
LEMMA LeaveRefines ==
  ASSUME IInv, NEW r \in Request, req[r].at = "running", Leave(r)
  PROVE  HostLock!Next
<1>1. inside[r] \in Host
  BY LifecycleAssumption DEF IInv, Carried, SectionFits, RowsExist
<1>2. PICK K \in {{}, {inside[r]}} : HostLock!Vanish({r}, K)
  BY DEF Leave
<1> QED
  BY <1>1, <1>2 DEF HostLock!Next

(* Every step of a handler is one of LeaseLock or does not touch the locks *)
(* (engine.py, patch_jobs.py).                                             *)
LEMMA NextUsesLock == IInv /\ [Next]_vars => [HostLock!Next]_(HostLock!vars)
<1> SUFFICES ASSUME IInv, [Next]_vars PROVE [HostLock!Next]_(HostLock!vars)
  OBVIOUS
<1>1. CASE UNCHANGED lockVars
  BY <1>1 DEF lockVars, HostLock!vars
<1>2. ASSUME NEW r \in Request, EnterEngine(r) PROVE HostLock!Next
  <2>1. HostOf[req[r].plan] \in Host
    BY <1>2, LifecycleAssumption DEF EnterEngine, IInv, Carried, RowsExist
  <2> QED
    BY <1>2, <2>1 DEF EnterEngine, HostLock!Next
<1>3. ASSUME NEW r \in Request, NEW o \in Outcome, RunReturns(r, o) PROVE HostLock!Next
  BY <1>3, LeaveRefines DEF RunReturns
<1>4. ASSUME NEW r \in Request, Raise(r) PROVE HostLock!Next \/ UNCHANGED lockVars
  BY <1>4, LeaveRefines DEF Raise
<1>5. ASSUME NEW h \in Host, LeaseExpires(h) PROVE HostLock!Next
  BY <1>5 DEF LeaseExpires, HostLock!Next
<1>6. CASE Crash
  BY <1>6 DEF Crash, HostLock!Next
<1>7. ASSUME NEW r \in Request,
             \/ CommitDecision(r) \/ LogDecision(r) \/ CheckApproved(r) \/ MarkRunning(r)
             \/ Blocked(r) \/ SaveJob(r) \/ RefreshJob(r) \/ SavePlan(r) \/ LogRun(r)
             \/ CommitRollback(r) \/ LogRollback(r)
      PROVE  UNCHANGED lockVars
  BY <1>7 DEF CommitDecision, LogDecision, CheckApproved, MarkRunning, Blocked, SaveJob, RefreshJob,
     SavePlan, LogRun, CommitRollback, LogRollback
<1>8. ASSUME NEW r \in Request, Proceed(r) PROVE HostLock!Next \/ UNCHANGED lockVars
  BY <1>2, <1>3, <1>7, <1>8 DEF Proceed
<1>9. CASE UNCHANGED vars
  BY <1>1, <1>9 DEF vars
<1> QED
  BY <1>1, <1>4, <1>5, <1>6, <1>8, <1>9
     DEF Next, Generate, CreateJob, StartApproval, StartExecution, StartRollback

(* The handlers use the host locks as LeaseLock has its clients do, so     *)
(* that what Redlock implements is what they rely on                       *)
(* (OrchestrationEngine.run_remediation).                                  *)
THEOREM LifecycleImplementsLeaseLock == Spec => HostLock!Spec
<1>1. Init => HostLock!Init
  BY DEF Init
<1> QED
  BY <1>1, Inductive, NextUsesLock, PTL DEF Spec, HostLock!Spec

----------------------------------------------------------------------------
(* Once it exists, a plan changes its status only when a decision about it *)
(* is on record: the policy's verdict is overruled by people, and a run    *)
(* moves only a plan somebody approved (submit_approval,                   *)
(* execute_patch_job).                                                     *)
MoveIsDecided ==
  \A p \in Plan : plan[p] # "none" /\ plan'[p] # plan[p] => decisions'[p] # {}

(* A job gets another status than ROLLED_BACK only if its plan was         *)
(* approved (execute_patch_job, rollback_patch_job).                       *)
JobMoveIsApproved ==
  \A j \in Job : job[j] # "none" /\ job'[j] \notin {job[j], "ROLLED_BACK"} =>
    "APPROVED" \in decisions[planOf[j]]

(* Both hold of every step: the only writers of a plan are a decision's    *)
(* own commit and a run past its check, the only writers of a job are a    *)
(* run past its check and a rollback (approvals.py, patch_jobs.py).        *)
LEMMA NextMoves == IInv /\ [Next]_vars => MoveIsDecided /\ JobMoveIsApproved
<1> SUFFICES ASSUME IInv, [Next]_vars PROVE MoveIsDecided /\ JobMoveIsApproved
  OBVIOUS
<1>0. TypeOK /\ Carried /\ ApprovalOnRecord
  BY DEF IInv
<1>1. CASE UNCHANGED <<plan, job>>
  BY <1>1 DEF MoveIsDecided, JobMoveIsApproved
<1>2. ASSUME NEW p \in Plan, NEW allowed \in BOOLEAN, Generate(p, allowed)
      PROVE  MoveIsDecided /\ JobMoveIsApproved
  BY <1>0, <1>2 DEF Generate, TypeOK, MoveIsDecided, JobMoveIsApproved
<1>3. ASSUME NEW j \in Job, NEW p \in Plan, CreateJob(j, p)
      PROVE  MoveIsDecided /\ JobMoveIsApproved
  BY <1>0, <1>3 DEF CreateJob, TypeOK, MoveIsDecided, JobMoveIsApproved
<1>4. ASSUME NEW r \in Request, CommitDecision(r) PROVE MoveIsDecided /\ JobMoveIsApproved
  BY <1>0, <1>4 DEF CommitDecision, TypeOK, Carried, RowsExist, MoveIsDecided, JobMoveIsApproved
<1>5. ASSUME NEW r \in Request, MarkRunning(r) \/ SaveJob(r) PROVE MoveIsDecided /\ JobMoveIsApproved
  <2>1. /\ \A j \in Job : j # req[r].job => job'[j] = job[j]
        /\ plan' = plan
        /\ req[r].at \in PastCheck /\ req[r].at \in OnJob
    BY <1>0, <1>5 DEF MarkRunning, SaveJob, TypeOK, PastCheck, OnJob
  <2>2. planOf[req[r].job] = req[r].plan /\ "APPROVED" \in decisions[req[r].plan]
    BY <1>0, <2>1 DEF Carried, RowsExist, ApprovalOnRecord
  <2> QED
    BY <2>1, <2>2 DEF MoveIsDecided, JobMoveIsApproved
<1>6. ASSUME NEW r \in Request, SavePlan(r) PROVE MoveIsDecided /\ JobMoveIsApproved
  <2>1. /\ \A p \in Plan : p # req[r].plan => plan'[p] = plan[p]
        /\ job' = job /\ decisions' = decisions
        /\ req[r].at \in PastCheck
    BY <1>0, <1>6 DEF SavePlan, TypeOK, PastCheck
  <2>2. "APPROVED" \in decisions[req[r].plan]
    BY <1>0, <2>1 DEF ApprovalOnRecord
  <2> QED
    BY <2>1, <2>2 DEF MoveIsDecided, JobMoveIsApproved
<1>7. ASSUME NEW r \in Request, CommitRollback(r) PROVE MoveIsDecided /\ JobMoveIsApproved
  BY <1>0, <1>7 DEF CommitRollback, Written, TypeOK, MoveIsDecided, JobMoveIsApproved
<1>8. ASSUME NEW r \in Request,
             \/ LogDecision(r) \/ CheckApproved(r) \/ EnterEngine(r) \/ Blocked(r)
             \/ (\E o \in Outcome : RunReturns(r, o))
             \/ RefreshJob(r) \/ LogRun(r) \/ LogRollback(r) \/ Raise(r)
      PROVE  UNCHANGED <<plan, job>>
  BY <1>8 DEF LogDecision, CheckApproved, EnterEngine, Blocked, RunReturns, RefreshJob, LogRun,
     LogRollback, Raise
<1>9. CASE UNCHANGED vars
  BY <1>1, <1>9 DEF vars
<1> QED
  BY <1>1, <1>2, <1>3, <1>4, <1>5, <1>6, <1>7, <1>8, <1>9
     DEF Next, Proceed, StartApproval, StartExecution, StartRollback, LeaseExpires, Crash

(* No plan is moved that nobody decided about, and no job advanced whose   *)
(* plan nobody approved, at whatever moment requests overlap, die and are  *)
(* repeated (approvals.py, patch_jobs.py).                                 *)
THEOREM MovesAreDecided == Spec => [][MoveIsDecided /\ JobMoveIsApproved]_vars
<1>1. IInv /\ [Next]_vars => [MoveIsDecided /\ JobMoveIsApproved]_vars
  BY NextMoves
<1> QED
  BY <1>1, Inductive, PTL DEF Spec

----------------------------------------------------------------------------
(* The steps a request has left, at most.                                  *)
StepsLeft ==
  [idle |-> 0,
   decide |-> 2, logDecision |-> 1, undo |-> 2, logUndo |-> 1,
   loadPlan |-> 8, markRunning |-> 7, run |-> 6, running |-> 5,
   saveJob |-> 4, refreshJob |-> 3, savePlan |-> 2, logRun |-> 1]

(* A request that is under way only gets nearer to its end: no handler     *)
(* waits or retries, not even for a lock that is held (execute_patch_job,  *)
(* submit_approval, rollback_patch_job).                                   *)
GetsNearer ==
  \A r \in Request :
    req[r].at # "idle" /\ req'[r] # req[r] => StepsLeft[req'[r].at] < StepsLeft[req[r].at]

(* Every step of a handler takes its request nearer to its end, and leaves *)
(* the others where they are (patch_jobs.py, approvals.py).                *)
LEMMA NextGetsNearer == IInv /\ [Next]_vars => GetsNearer
<1> SUFFICES ASSUME IInv, [Next]_vars PROVE GetsNearer
  OBVIOUS
<1>0. req \in [Request -> Req]
  BY DEF IInv, TypeOK
<1>1. CASE UNCHANGED req
  BY <1>1 DEF GetsNearer
<1>2. ASSUME NEW r \in Request, NEW q, req' = [req EXCEPT ![r] = q],
             req[r].at # "idle" => StepsLeft[q.at] < StepsLeft[req[r].at]
      PROVE  GetsNearer
  BY <1>0, <1>2 DEF GetsNearer
<1>3. ASSUME NEW r \in Request PROVE req[r] \in Req /\ req[r].at \in Stage
  BY <1>0 DEF Req
<1>4. ASSUME NEW r \in Request, Finish(r) PROVE GetsNearer
  <2>1. req[r].at # "idle" => StepsLeft["idle"] < StepsLeft[req[r].at]
    BY <1>3 DEF Stage, StepsLeft
  <2> QED
    BY <1>2, <1>4, <2>1 DEF Finish, Idle
<1>5. ASSUME NEW r \in Request, NEW start, Begin(r, start) PROVE GetsNearer
  BY <1>2, <1>5 DEF Begin
<1>6. ASSUME NEW r \in Request, NEW x \in Stage, req' = [req EXCEPT ![r].at = x],
             StepsLeft[x] < StepsLeft[req[r].at]
      PROVE  GetsNearer
  <2>1. req' = [req EXCEPT ![r] = [req[r] EXCEPT !.at = x]] /\ [req[r] EXCEPT !.at = x].at = x
    BY <1>0, <1>3, <1>6 DEF Req
  <2> QED
    BY <1>2, <1>6, <2>1
<1>7. ASSUME NEW r \in Request,
             CommitDecision(r) \/ MarkRunning(r) \/ EnterEngine(r) \/ SaveJob(r) \/ SavePlan(r)
               \/ CommitRollback(r)
      PROVE  GetsNearer
  BY <1>6, <1>7 DEF CommitDecision, MarkRunning, EnterEngine, SaveJob, SavePlan, CommitRollback, Stage,
     StepsLeft
<1>8. ASSUME NEW r \in Request, CheckApproved(r) PROVE GetsNearer
  BY <1>4, <1>6, <1>8 DEF CheckApproved, Stage, StepsLeft
<1>9. ASSUME NEW r \in Request, LogDecision(r) \/ LogRun(r) \/ LogRollback(r) \/ Raise(r)
      PROVE  GetsNearer
  BY <1>4, <1>9 DEF LogDecision, LogRun, LogRollback, Raise
<1>10. ASSUME NEW r \in Request, NEW result, req[r].at \in {"run", "running"},
              req' = [req EXCEPT ![r].at = "saveJob", ![r].result = result]
       PROVE  GetsNearer
  <2> DEFINE q == [[req[r] EXCEPT !.at = "saveJob"] EXCEPT !.result = result]
  <2>1. req' = [req EXCEPT ![r] = q]
    BY <1>10
  <2>2. q.at = "saveJob"
    BY <1>3 DEF Req
  <2>3. StepsLeft["saveJob"] < StepsLeft[req[r].at]
    BY <1>10 DEF StepsLeft
  <2> HIDE DEF q
  <2> QED
    BY <1>2, <2>1, <2>2, <2>3
<1>11. ASSUME NEW r \in Request, Blocked(r) \/ (\E o \in Outcome : RunReturns(r, o)) PROVE GetsNearer
  BY <1>10, <1>11 DEF Blocked, RunReturns
<1>12. ASSUME NEW r \in Request, RefreshJob(r) PROVE GetsNearer
  <2> DEFINE q == [[req[r] EXCEPT !.at = "savePlan"] EXCEPT !.saw = job[req[r].job]]
  <2>1. req' = [req EXCEPT ![r] = q]
    BY <1>12 DEF RefreshJob
  <2>2. q.at = "savePlan"
    BY <1>3 DEF Req
  <2>3. StepsLeft["savePlan"] < StepsLeft[req[r].at]
    BY <1>12 DEF RefreshJob, StepsLeft
  <2> HIDE DEF q
  <2> QED
    BY <1>2, <2>1, <2>2, <2>3
<1>13. CASE Crash
  <2>1. \A r \in Request : req'[r].at = "idle"
    BY <1>13 DEF Crash, Idle
  <2>2. \A r \in Request : req[r].at # "idle" => StepsLeft["idle"] < StepsLeft[req[r].at]
    BY <1>3 DEF Stage, StepsLeft
  <2> QED
    BY <2>1, <2>2 DEF GetsNearer
<1>14. CASE UNCHANGED vars
  BY <1>1, <1>14 DEF vars
<1> QED
  BY <1>1, <1>5, <1>7, <1>8, <1>9, <1>11, <1>12, <1>13, <1>14
     DEF Next, Proceed, Generate, CreateJob, StartApproval, StartExecution, StartRollback, LeaseExpires

(* No request turns back: it ends after eight of its own steps at most,    *)
(* whatever the others do.  This is what the liveness of the jobs rests    *)
(* on, besides fairness (patch_jobs.py, approvals.py).                     *)
THEOREM RequestsRunDown == Spec => [][GetsNearer]_vars
<1>1. IInv /\ [Next]_vars => [GetsNearer]_vars
  BY NextGetsNearer
<1> QED
  BY <1>1, Inductive, PTL DEF Spec
=============================================================================
