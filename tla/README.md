# Nexora Mythos Fix: TLA+ models, checks and proofs

Nexora Mythos Fix is a control plane that turns vulnerability findings into
remediation plans, has humans approve them, runs them on hosts and keeps an
audit ledger of what happened.  This directory holds TLA+ specifications of its
stateful core, the TLC configurations that check them on small instances, and
TLAPS proofs of their main properties for every value of the constants.

Everything is run from this directory:

    tlc -workers 2 -config Redlock.cfg MCRedlock.tla
    tlapm RedlockProofs.tla

`PROJECT.json` lists every run, what each definition models (file and lines),
a mutation of the code for every checked property that makes TLC find the
property violated, the hazards of the code and the findings.

## 1. Inventory

Paths are relative to `src/`.

### Modelled

| component | state | operations |
|---|---|---|
| host lock, `services/orchestrator/canary.py` (`Redlock`) | a Redis key per host or an entry of the process's `_LOCAL_LOCKS`; token and held flags of each object | `acquire`, `release`, `async with`, expiry |
| audit ledger, `services/audit/ledger.py` | table `audit_events`: timestamp, content, previous hash, own hash | `log_event`, `verify_chain`, `last_event_hash` |
| remediation lifecycle, `services/control_plane/api/v1/{remediation,approvals,patch_jobs}.py` | tables `remediation_plans`, `approvals`, `patch_jobs`; the objects each request's session has loaded | generate a plan, approve (two handlers), create, execute and roll back a job |
| orchestration engine, `services/orchestrator/{engine,activities}.py` | none of its own; holds the host lock during a run | `run_remediation`, and the activities snapshot, execute, rollback |
| patch executor and adapters, `services/execution_engine/` | the status of each action's result; the host itself (external) | `execute_plan`, `execute_action`, `execute_patch`, `execute_rollback` |
| mTLS certificate kit, `services/v2_agent/mtls.py` | a certificate and a key file of the CA and of each identity | `ensure_cert_kit`, and the loading of the files by the gRPC server and client |
| V2 agent and its registries, `services/v2_agent/`, `api/v1/agents.py` | the agent's loop, client and channel; a dictionary in the router's process, one in the gRPC server's | `start`, `stop`, heartbeats; register, heartbeat, deregister |
| plan generation, `api/v1/remediation.py`, `services/llm_planner/`, `services/policy_engine/`, `policies/` | the attempt a request is at; tables of plans and of AI activity | sanitize, the provider chain with retries and fallback, the firewall, telemetry, `evaluate_plan` on the server or locally, save |
| canary rings, `orchestrator/canary.py`; rescan verifier, `ingestion/rescan_verifier.py`; A/B slots, `execution_engine/ab_rollback.py` | the caller's ring index; two slots and the active one | `roll_forward`, `verify`; `promote`, `confirm`, `rollback` |
| approval cards, `integrations/{teams,outlook}_notifier.py`, `approvals.py`, rate limiter `control_plane/middleware.py` | rows of `approvals`; the limiter's timestamps per address | compose a card, callback, admit or turn away |
| notifications and tickets, `integrations/{notifier,jira_connector,servicenow_connector}.py`, `api/v1/notifications.py` | configurations and channels, both dictionaries; `itsm_tickets` | register, delete, `notify`, `sync_*` |
| cached feeds, `ingestion/{cisa_kev,epss_feed}.py` | catalog, set of CVEs, scores | `fetch_catalog`, `is_known_exploited`, `get_kev_detail`, `fetch_score` |

How they interact.  A handler is one coroutine with one database session.  The
three lifecycle handlers commit several times, and every `await` lets other
requests commit in between.  `execute_patch_job` calls
`OrchestrationEngine.run_remediation`, which takes the host lock (or answers
`BLOCKED`), runs the executor, sweeps with `rollback_activity` if the executor
rolled anything back, and releases the lock in a `finally`.  Every handler ends
with `AuditLedger.log_event`, which is a further read and a further commit.
`POST /remediation/generate` runs the planner, commits a row of telemetry, asks
the policy engine and commits the plan.  A card's button comes back through the
middleware to `approval_callback`, which writes the same rows as the dashboard.
Agents and the gRPC server share nothing but a directory of PEM files and the
calls between them.

What is hard, and what makes it correct:

- *The lock.*  It expires while its holder works; a process may die inside it;
  a release on Redis is a read and a delete in two round trips; the local
  release pops an entry without looking whose it is.  Correct: two callers are
  inside only if one of them outlived its lease, nobody drops a foreign entry,
  no entry stays for ever.
- *The ledger.*  `log_event` reads the newest row and commits its own later;
  order is by wall clock; rows may be altered behind its back while it goes on
  growing.  Correct: what is not tampered with verifies, what is tampered with
  never does (up to its newest row), a request that dies leaves no gap.
- *The lifecycle.*  Stale reads, sessions that write a column only when it
  differs from what they loaded, requests that die between two commits.
  Correct: no run without an approval, no claimed success without a successful
  run, no `RUNNING` job nobody attends, no decision or run that is not logged.
- *Execution.*  Any step of any action may fail, before or after it changed
  the host; rollbacks are relative to different things in different adapters, and
  two actions may be about one item.  Correct: what is reported `SUCCESS` is
  patched unless an action that failed may undo it, and what is rolled back is
  back where the rollback names what to go back to.
- *Certificates and agents.*  Processes test for, create and read the same
  files without a lock and may die in the middle of a write; registrations are
  sent once and may be lost; registries do not survive their process; `stop()`
  may overlap `start()`.  Correct: credentials that load are of one CA, an agent
  is unknown only for a reason, a stopped one is silent, and a gRPC agent is
  heard again after every restart.
- *Plan generation.*  Every await may fail; the hour the policy depends on
  changes while a request waits; a fallback takes over in two places.  Correct:
  what is stored has passed the firewall, is on record in the telemetry and has
  the status of the policy, and a fallback comes only after every retry.
- *Rollout.*  Statuses nobody reads, prefixes that round.  Correct: no host
  beyond a ring is touched before the ring is fixed.
- *Cards, messages, feeds.*  Answers are lost and calls repeated; dictionaries
  change under a loop that awaits; overlapping fetches end in any order.
  Correct: answers tell the truth, every target is tried, the two views of a
  catalog agree.

### Not modelled, and why

- *Temporal workflows* (`orchestrator/workflows.py`).  Nothing starts a worker,
  and both workflows refer to `workflow.Duration`, which `temporalio` does not
  have.  The in-process engine, which the API uses, is what is modelled.
- *Risk engine* (`risk_engine/`).  Risk score and SLA tracker are formulas of one
  call on numbers and dates; there is no state that several steps could spoil.
- *Scanner connectors, normalizer, `NVDFeed`.*  They parse answers and files and
  keep nothing between two calls.
- *Assets, vulnerabilities, dashboard, telemetry and audit read APIs.*  Single
  inserts and single queries.
- *Secrets manager, CLI, metrics.*  Look-ups, argument parsing, counters.
- *The agent's `Execute` call* (`v2_agent/grpc_server.py`) and the generated
  stubs `agent_pb2*.py`.  It changes no state of its own: it
  hands the command to the executor it was made with and answers.  API keys are
  taken as checked.
- *The adapters' command lines, the layout of cards and payloads, prompts.*
  Data that no property tells apart.
- *A policy server with other rules than those of `policies/`.*

## 2. Plan

Done, most important first: `LeaseLock` and `Redlock` with the refinement
between them; `AuditLedger`; `RemediationLifecycle`, composed with
`LeaseLock`; `PatchExecution`; `CertKit` and `AgentFleet`, composed;
`PlanIntake` and `PlanGeneration` with the refinement between them; and the
four smaller parts `ApprovalChannel`, `Rollout`, `Outbound` and `KevFeed`, which
`MCControlPlane` checks.  Each has its proofs.

What would be next: the agent's `Execute` with a job's results on their way
back; a process with several workers, where every module dictionary
(`_LOCAL_LOCKS`, registries, configurations, the limiter) is one per worker, as
`Redlock` has it already; `RemediationLifecycle` with `AuditLedger` in the place
of its one logging step.

## 3. The modules

### `LeaseLock` - what the lock promises

`owner` is the client on record for a lock, `inside` the lock whose section a
client believes it is in.  `Enter` needs a lock without a record.  `Vanish`
says that clients leave and records end, in any combination; a record that ends
under an owner that has not left makes the lock `lost`.  `Claim` is an
`acquire()` that raised and yet took effect: a record of a client that is not
inside.  That is the most the
code can promise, because leases are not renewed.  It is used twice: `Redlock`
implements it, `RemediationLifecycle` builds on it.

### `Redlock` - `services/orchestrator/canary.py`

| TLA+ | code |
|---|---|
| `redis` | is `NEXORA_REDIS_URL` set (`_redis_available`) |
| `store[k]` | the Redis key with value and remaining time, or the `_LOCAL_LOCKS` entry; `KeyFor` decides which |
| `pc[i]` | `idle`; `refused`: `acquire()` was `False`; `held`: it was `True`; `checked`: between the GET and the DEL of `release()` |
| `Acquire`, `Refuse` | `acquire()` on either backend, the second call of a holder on Redis included |
| `AcquireRaises` | the SET took effect and its answer is lost: a key without a holder, until it expires |
| `GiveUp` | the engine's `BLOCKED` |
| `LocalRelease` | the `pop`, whoever's entry it is |
| `CheckToken`, `DeleteKey`, `ReleaseRaises` | the two round trips on Redis, and a server that does not answer |
| `Crash(p)` | a process dies with its dictionary; Redis keys survive it |
| `Tick` | time: deadlines are kept as what is left of them, so no clock grows |

A local entry has no owner in the code; `owner` is then history for the
properties, and no guard of the local lock reads it.  `outlived` is history
too.  In the code a dictionary holds deadlines of all names of one process;
that two processes without Redis do not exclude each other is in the model (the
key of a local entry contains the process).  The shipped
`docker-compose.yml:84` sets `REDIS_URL`, not `NEXORA_REDIS_URL`, so a
deployment as shipped uses the local lock.

### `AuditLedger` - `services/audit/ledger.py`

`ReadTip`, `Flush`, `Commit` are the three moments of `log_event`: the select,
the INSERT with its timestamp, the commit that makes it visible.  `Abandon` is
a request that dies in between.  `HashMismatch`, `ChainBroken` and `ChainValid`
are `verify_chain`.  `Alter` and `Remove` are somebody with access to the
table.  A hash is the pair it is computed from, so it is free of collisions,
and `Genesis`, a constant string in the code that is no digest, is `<<>>`.
Abstracted: two timestamps are never equal (microseconds), and the
concatenation of actor, action and payload is taken as injective.

`Remove` takes any row.  `kept` is history: what was logged and not cut off at
the end of the table.  Nothing in the chain says how long it was, so a ledger
without its newest rows verifies, although the blueprint has the verifier flag
"any modified or deleted log entries"
(`NEXORA_GOD_LEVEL_MASTER_BLUEPRINT.md:503`).  `OrderlyLedgerVerifies` and
`TamperEvident` together say that this is the only thing that does; the theorem
`VerdictsAreExact` says both in one.  `orderly` is history too: it becomes false
when calls of
`log_event` overlap, when a clock goes back, and when the end is cut off
between the select and the commit of a call, which then links to a row that is
not there.

### `RemediationLifecycle` - the handlers under `services/control_plane/api/v1`

Each request is a record: where it is (`at`), its rows, the status it has
loaded (`saw`) and the decision or result it carries.  There is one action per
stretch between two commits, or between a read and the commit that depends on
it.

| TLA+ | code |
|---|---|
| `Generate` | `remediation.py`: insert with the policy engine's verdict |
| `StartApproval`, `CommitDecision`, `LogDecision` | `submit_approval` and `approval_callback` (same database steps) |
| `CreateJob` | `create_patch_job` |
| `StartExecution`, `CheckApproved`, `MarkRunning` | `execute_patch_job` up to its first commit |
| `EnterEngine`, `Blocked`, `RunReturns` | `run_remediation` under the lock |
| `SaveJob`, `RefreshJob`, `SavePlan`, `LogRun` | the rest of `execute_patch_job` |
| `StartRollback`, `CommitRollback`, `LogRollback` | `rollback_patch_job` |
| `Raise`, `Crash` | a request that ends in an error, the process that dies |
| `LeaseExpires` | the lock's lease, at any time |

`Written(current, saw, new)` is the ORM: with `expire_on_commit=False` an
object keeps what it loaded, and an UPDATE leaves out a column whose new value
is the loaded one.  All requests live in one process.  A decision `MODIFIED`
moves a plan as `REJECTED` does and counts as it.  The outcomes
`COMPLETED_WITH_FAILURES` and `CANARY` are treated by the handlers as
`ROLLED_BACK` is, so the runs have that one beside `SUCCESS`; the constant
`Outcome` may have any.  `rollback_available` is never set to false, so its
guard never fails.  Rows are never deleted.

### `PatchExecution` - executor, adapters and sweep

One engine run of a plan of `N` actions.  `Prepare` to `RollBackRaises` are
`execute_action`, one action per step that may fail; `Conclude` is the loop of
`execute_plan` with its `overall_status`; `Sweep` is `rollback_activity`.

`item[a]` is what action `a` is about.  Actions may share an item: neither the
schema of plans nor the firewall looks for two actions with one
`target_package`.  Those that share one have adapters that deal with the same
sort of thing (`SameSort`).  What an adapter's command does to a host is
external, since the adapters build command lines; it is modelled by what the
command line names:

| `kind` | adapters | the rollback goes to |
|---|---|---|
| `pinned` | apt and ssm with a `rollback_command_template`, winrm, waf_rule | what was there before |
| `target` | apk, whose `installed_version` no action of the schema has; apt without a template | the version of the patch |
| `preset` | sysctl | `"0"`, whatever it was |
| `none` | apt and ssm whose template was saved as null or empty | no command |
| `rollout` | k8s_image | the revision before the present one (`kubectl rollout undo`) |
| `history` | dnf | before the host's last transaction, whoever's (`dnf history undo last`) |
| `image` | docker_image | the previous tag |

A template is taken to name the version that is installed; what a planner
writes there is not checked by the code.  Every raising step may raise before
or after the host has changed.  `_verify` may say no: it does for an action
without `target_package` or with an empty dry-run.  The snapshot's content
plays no part in a rollback and is left out.

### `CertKit` - `services/v2_agent/mtls.py`

Processes share a directory.  `disk` holds the two files of each owner, the CA
or an identity; a key pair is a number, a certificate the number of its key and
of the key it is signed with.  `Exists`, `CreateCA` and `CreateIdentity` are the
test and what follows it; `ReadRoot`, `Sign` and `SignRaises` are
`generate_identity_cert`; `OpenCrt` to `WriteKey` are `write_pem` twice, where
opening a file empties it; `LoadRoot`, `LoadKey`, `LoadCrt` are the credentials
as the server (key, certificate, root) and the client (root first) read them.
`Quit` is a process that dies or closes its channel, wherever it is.
`overlapped` is history: two processes created the same pair at once.

### `AgentFleet` - `agent.py`, `grpc_client.py`, `grpc_server.py`, `api/v1/agents.py`

Extends `CertKit`: each agent is a process of the kit, and so is the gRPC
server.  With HTTP an agent's requests are in `net` until `Deliver` or `Lose`;
the agent does not tell a timeout from an answer, so it goes on at any time
(`Continue`).  With gRPC a call is a step that needs a TLS handshake, and may
fail before or after it reached the server.  `registry` is the router's
dictionary (409 for a known agent, 404 for a heartbeat of an unknown one),
`grpcRegistry` the servicer's, for which a heartbeat is as good as a
registration; it belongs to the class and survives `stop()`, not the process.
`Forget` is `DELETE /agents/{id}` and the restart of the control plane.  An
agent is not started or stopped a second time while it starts.

### `PlanIntake` - what generating plans promises

The store of plans grows by at most one plan of each request; the plan is
`Sound` (what the firewall stands for) and `Obeys` the rules of
`remediation_rules.rego` at some hour between the request's arrival and now.
How the plan came about is not its business.

### `PlanGeneration` - `POST /remediation/generate`

| TLA+ | code |
|---|---|
| `planner`, `fallback` | the planner `LLMPlannerClient` was made with: the mock, OpenAI, or a chain of `Providers` providers, with or without a `fallback_plan_builder`.  The handler's own client is the mock |
| `Arrive`, `Refuse` | the rows are there and the sanitizer finds nothing, or 404 / `ValueError` |
| `ProviderAnswers`, `ProviderFails`, `FallBack`, `ChainRaises` | the chain: each provider is tried `MaxRetries` times, then the next, then the fallback or an error |
| `Firewall` | `ValidateSchema` and `Plausible`, with the bounds on drift and hallucination as fractions |
| `RecordActivity` | `record_ai_activity` and its commit |
| `AskPolicy`, `PolicyAnswers`, `PolicyUnreachable` | `evaluate_plan` reads the hour, then asks the server; `RegoAllows` and `LocallyAllowed` are the rules and their local mirror |
| `Store`, `CommitRaises`, `Crash` | the commit of the plan, its failure, the process that dies |

A plan is reduced to what the checks ask of it: does it conform to the schema,
is its text safe, are its packages named, does it restart or touch the kernel,
and how many of its actions patch packages of the request, others, or none.

### `ApprovalChannel` - cards, the callback and the limiter

`Send` composes a card, `Press` and `Call` are a button and the call that comes
of it, repeated as long as it has no answer; `Commit`, `Log` and their failures
are `approval_callback`, where a commit or the refresh after it may raise with
the row, or the audit event, in place (`CommitFails`, `LogFails`).  An answer
is `ok`, `refused` (the signature), `error` (something raised) or `invalid`
(nothing raised, and the response model has no such channel).  `Admit`, `Deny`,
`Tick60` are
`RateLimitMiddleware.dispatch`, with timestamps kept as ages: `recent` gives
the age of each entry of the list, numbered as it comes, since nothing in the
code depends on their order; `admitted` is history, the ages of what was let
in.  A signature is genuine or not.  What a decision does to its plan is in
`RemediationLifecycle`.

### `Rollout` - rings, rescans and slots

`RollForward`, `PatchHost`, `PatchRaises` and `RingDeployed` are
`CanaryDeployment.roll_forward`, host by host; `Rescan` is a round of
`RescanVerifier.verify`; `Promote`, `Confirm`, `Rollback` are
`DualSlotManager`.  None of the three is called by a handler; the operator who
drives them does what their docstrings and tests do: deploy a ring, verify its
hosts, pass the outcome to the next call, verify again after a halt.  A `live`
scanner finds the CVE on a host that is not fixed and may find it for a while
on one that is; the `stub` scanner never does, as the connectors without a
remote API.  Of the slots, `serving` is history, the tag that served when the
last one was promoted, and `undone` says that a rollback was the last step.
`promote` does not switch the traffic, as line 31 has it, nor does `rollback`
give it back after a `confirm` (finding 5).

### `Outbound` - `NotificationService` and tickets

`RegisterConfig` and `DeleteConfig` keep the API's dictionary and the service's
in step; `Notify` to `Returns` are `notify`, target by target, with a channel's
`send` between two steps; `OpenTicket`, `RecordTicket` and their failures are
`sync_jira_ticket` and `sync_servicenow_change_request`.

### `KevFeed` - `CISAKEVFeed`, `EPSSFeed`

What each coroutine waits for, and the catalog, the set and the scores the feed
objects keep.  `FetchRefused` (an answer that is not 200) leaves them,
`FetchRaises` (an exception, or an answer without vulnerabilities) empties
them.  CVE ids are upper case, as CISA's are: the set has them as they come
(`cisa_kev.py:35`), and the records are compared in upper case (line 52).

### `MC*` and `*Proofs`

The `MC` modules give values to constants that are functions or sets of records.
Two of them put several modules into one run: `MCJobParts` the executor and the
ledger, `MCControlPlane` the four smaller parts.  These share no state and call
none of each other's code: a behaviour takes the steps of the one that `part`
names, and the others rest.  The ledger and the executor are also run on their
own, by the specifications `LedgerSpec` and `ExecutionSpec` of their modules.
`RedlockProofs`, `AuditLedgerProofs`, `RemediationLifecycleProofs`,
`PatchExecutionProofs`, `AgentFleetProofs`, `PlanGenerationProofs` and
`ControlPlaneProofs` hold the theorems.

## 4. The runs

| run | instance | shows |
|---|---|---|
| `redlock` | 3 lock objects, 2 in one process and 1 in another, 1 name, ttl 3, either backend | `MutualExclusion`, `HolderIsGuarded`, `EntryIsDroppedByOwner` as long as nobody outlives its lease; `LeaseEnds`; `ImplementsLeaseLock` |
| `redlock_concurrent` | the same, ttl 2 | violation: finding 1 |
| `job_parts` | ledger: 2 writers, 2 contents, 4 timestamps; executor: plans of 3 actions, every mix of adapters and of items they share | `OrderlyLedgerVerifies`, `TamperEvident`, `NoDanglingLink`; `SuccessIsKept`, `PinnedRunsRevert` |
| `ledger_fork` | the ledger alone, 3 timestamps | violation: finding 2 |
| `lifecycle` | 1 plan and host, 2 jobs, 2 requests at a time, 3 calls | `RunsAreApproved`, `SuccessIsReal`, `RunningJobIsAttended`, `DecisionsAndRunsAreAudited`, `OneRunPerHost`; `JobsSettle` |
| `lifecycle_policy` | as `lifecycle` | violation: finding 3 |
| `execution_undo` | the executor alone, plans of 2 actions | violation: finding 4 |
| `agent_fleet` | 1 agent over HTTP or gRPC and the gRPC server, 6 key pairs, 3 faults, 1 stop | `Trust`, `UnknownIsExcused`, `SilentAfterStop`; `Recovers` |
| `plan_generation` | 1 request, 2 providers with 3 attempts each, every planner, 2 changes of the hour | `PlansAreLogged`, `FallbackIsLastResort`; `ImplementsPlanIntake`; `RequestsEnd` |
| `control_plane` | cards: 3 buttons, 2 in a window of 2 ticks, 2 records, 1 other request; rollout: 5 hosts, 2 scans, 2 tags; notifications: 2 names, 2 addresses, 1 caller, 1 ticket, 1 restart; feeds: 2 coroutines, 1 CVE | `AnswersAreTrue`, `WindowIsBounded`, `RetriesAreAdmitted`; `BlastRadius`, `AdvancesOnlyVerified`; `EveryTargetIsTried`; `SetIsThatOfCatalog`, `DenialsAreExcused`, `LoadedStaysLoaded` |
| `slots_rollback` | as `control_plane` | violation: finding 5 |
| `outlook_answers` | as `control_plane` | violation: finding 6 |

Every passing run but `control_plane`, whose parts have no module of their own,
also checks the type invariants of its modules; the types of the four parts are
conjuncts of
the invariants proved of them.

*Why the bounds are enough to be interesting.*  Three clients are a holder that
outlived its lease, its successor, and the third one that enters after the
first has dropped the second's entry; one name suffices because keys do not
interact.  Ttl 3 lets leases of different ages overlap: one that is over, its
successor's half-way and a third that is new.  In the ledger two writers fork
the chain, four timestamps are a chain with something to alter before and after
the row that is removed.  In the lifecycle, two overlapping requests are an
execution with an approval, a rollback or a second execution across it; three
calls allow an approval, an execution and one more; plans and hosts interact
only through the lock, and two runs of one plan meet there as two plans would.
Three actions are one kept, one rolled back and one failed, with a history
adapter among them, and two that share an item beside one that does not.  Two
actions are enough for a rollback that undoes the other one's patch, and three
steps of the slots for one that comes too late.

Of agents, one is enough, as agents do not read each other's entries; the kit
has two processes, which is what it takes to create a pair at once.  Six key
pairs are a CA, both identities and three that replace what was lost; three
faults are a death in the middle of a write, a restart after it, and a lost
call on top.  Requests for plans share nothing but the store, so one is enough
for TLC (the proofs are for any number); 3 attempts of 2 providers are the
code's retries and a change of provider; the plans lie on both sides of each
bound (one drifted action of 19 or of 20; an asset of criticality 7 or 8), and
with all 24 hours as the first one and two changes, requests cross the
edges of the business hours.  Cards: two records are a decision and its
repetition; a limit of 2
with other traffic turns calls away.  Five hosts make rings of 1, 1, 3 and 5:
one that is rounded up, one that repeats it, and one that is rounded down.  Two
names are a target before and one after a failure.  Two coroutines are a fetch
that fails late and one that has loaded.  `MaxTime`, `MaxCalls`, `MaxPairs`,
`MaxFaults`, `MaxStops`, `MaxTicks`, `MaxRecords`, `MaxOthers`, `MaxTickets`
and `MaxRestarts` are the only bounds on otherwise unbounded behaviour.

*Deadlock.*  It is checked for the lock.  The other configurations turn it off
because their systems stop: the timestamps, calls or records are used up, or
the run of the plan is over.

*Symmetry* is used for the ledger's writers and contents, which no definition
names, and never for liveness.

*Fairness.*  `Redlock` assumes `WF(Tick)`: time passes.  Nothing is assumed of
a holder, who may hang.  `RemediationLifecycle` assumes, for each request, weak
fairness of `Proceed \/ Raise`: the event loop runs every coroutine that is
ready, and the database and the adapters' commands answer or raise.  Nothing
forces a request to succeed, so `JobsSettle` has an alternative: a request
about the plan died.  That alternative is real: nothing in the code resets a
job whose request died.  `AgentFleet` assumes that a loop comes round again
(it sleeps 30 s) and that a process that makes or loads its kit does not pause
for ever; the faults are bounded, so that calls do not all fail.  `Recovers`
excepts a kit that two processes created at once, or that has a half-written
key: the code never replaces one.  `PlanGeneration` assumes each request to go
on: all its awaits have a timeout (30 s and 60 s of the planners, 5 s of the
policy server) or are the database's.  `ApprovalChannel` assumes that time
passes, and of the relay that
it repeats a call without an answer (strong fairness of `Call`, because other
traffic may take the free place each time): an assumption on the environment,
without which nobody would ever come back.

### Findings

1. `redlock_concurrent` - the lock is said to prevent concurrent patch jobs
   (`canary.py:4-5`); leases (300 s) are never renewed, and a run that lasts
   longer shares its host.
2. `ledger_fork` - `verify_chain` is said to detect tampering or gaps
   (`ledger.py:51`); two overlapping `log_event` calls are enough for a report.
3. `lifecycle_policy` - the policy gate is said to be non-bypassable
   (`README.md:34`); an approval overwrites `REJECTED_BY_POLICY`.
4. `execution_undo` - the sweep is said to roll back failed or unverified
   actions (`activities.py:71`); for `rollout` and `history` adapters a second
   rollback brings the patch back, and one that was never needed moves an
   untouched workload to an older version.
5. `slots_rollback` - a rollback is said to restore traffic to the previous
   slot (`ab_rollback.py:4-5` and 45); after `confirm` it fails the slot that
   served before and leaves the traffic where it is.
6. `outlook_answers` - Outlook's buttons are there to approve directly
   (`outlook_notifier.py:6`); the decision is recorded and logged, and the call
   answered with an error, because `ApprovalResponse` has no channel `OUTLOOK`
   (`domain_schemas.py:101`).

Two more disagreements follow from what is proved, not of some run but of all:

- The verifier is said to flag any modified or deleted log entry
  (`NEXORA_GOD_LEVEL_MASTER_BLUEPRINT.md:503`); `verify_chain` walks what is
  there (`ledger.py:57`), and by `VerdictsAreExact` an orderly ledger without
  its newest rows is always answered valid.
- Packages are said to go back to `<prev_ver>` (`README.md:59` and 61); the apk
  adapter names the version of the patch, as no action has an
  `installed_version` (`apk_adapter.py:45`), and apt without a template names
  none (`apt_adapter.py:44`).  By `TargetRollbacksPatch` every run that is
  reported `ROLLED_BACK` leaves such a package patched, if its action failed.

One is in the model and excepted by a property: dnf is said to undo a
transaction by its id (`README.md:60`), and undoes the last one
(`dnf_adapter.py:34`), which may be that of an action reported `SUCCESS`;
`SuccessIsKept` leaves out what an action that fails may undo in this way.

## 5. The proofs

All hold for every value of the constants under the named assumptions of the
modules (`RedlockAssumption`, `NoOneIsNoKey`, `LedgerAssumption`,
`LifecycleAssumption`, `PatchExecutionAssumption`, `KitAssumption`,
`FleetAssumption`, `GenerationAssumption`, `ChannelAssumption`,
`RolloutAssumption`, `OutboundAssumption`, `FeedAssumption`), which say that functions
have the stated domains, bounds are naturals and "nobody" values are not in the
sets.  Each strengthening was checked by TLC before it was proved.  Every
safety property of the passing runs is proved; the theorems that no run
mentions are marked (+).

- **`RedlockProofs`**: `TypeCorrect`, `HoldersAreGuarded`, `LockExcludes`,
  `EntriesAreDroppedByOwners`, `LeasesRunDown` (+), `LockImplementsLeaseLock`.
  Mutual exclusion is not inductive: that two holders differ says nothing of
  the store.  `HolderIsGuarded` is: under a key nobody outlived, a caller inside
  owns the live entry, with as much time left as its own lease.  An entry has
  one owner, hence exclusion; a delete by its owner is the only early end, hence
  the action property; and each step is a step of `LeaseLock` or invisible to
  it, hence the refinement.  `LeasesRunDown`: no step lengthens a live entry,
  each tick shortens all of them, and between two owners a key is free.
- **`AuditLedgerProofs`**: `TypeCorrect`, `UntamperedVerifies`,
  `LinksAreLogged`, `TamperingShows`, `VerdictsAreExact` (+).
  `OrderlyLedgerVerifies` speaks of
  `rows = kept` only, so the induction is over `kept` (`ChainOK`), with what
  is known of the writer whose turn it is (`TurnOK`), of flushed rows
  (`DraftOK`), that every row descends from a kept one of the same time, link
  and hash (`Descends`), and that the newest row of the table has the time and
  hash of the newest row kept (`SameTip`): that is what makes an altered or
  shortened table grow as the chain of `kept` does.  For `TamperEvident` the
  strengthening `TInv` adds that logged rows are hashed as they were written
  (`Genuine`) and that in an orderly chain all hashes differ (`HashesDiffer`: a
  new row with the hash of an old one would make the old one link to the newest
  row).
  If the chain verifies, no content was altered, as hashes fix
  contents; and if rows were removed, the row after the last of them links to a
  hash that no other row has.  The last row before a time is picked with the
  least-number principle (`WFMin` of WellFoundedInduction), which needs no
  induction over data.
- **`RemediationLifecycleProofs`**: `Inductive`, `TypeCorrect`,
  `RunsNeedApproval`, `SuccessIsEarned`, `RunningJobsAreAttended`,
  `TrailIsComplete`, `HostsRunOneAtATime`, `LeaseLockExcludes` (+),
  `LifecycleImplementsLeaseLock` (+), `MovesAreDecided` (+), `RequestsRunDown` (+).
  The properties relate rows to history; what a request has read lies between
  them.  `IInv` adds that: which rows a request carries, that a request past its
  check has an approval on record, that a `SUCCESS` on its way to a row goes
  back to a run, and that a request inside a host owns its lock unless it was
  lost.  The lock is then looked at from its user's side: every step of the
  lifecycle is one of `LeaseLock` or invisible to it, as every step of `Redlock`
  is, so the two meet at the abstract lock, whose exclusion follows from
  `LeaseLock` alone.  `MovesAreDecided` is about steps: no plan that exists
  changes its status without a decision about it on record, and no job moves,
  other than to `ROLLED_BACK`, whose plan nobody approved, in spite of what
  sessions have read long before.  `RequestsRunDown` bounds a request to eight
  steps of its own.
- **`PatchExecutionProofs`**: `Inductive`, `TypeCorrect`, `SuccessesAreKept`,
  `PinnedRollbacksRevert`, `ReportsAreOfResults` (+), `RunsRunDown` (+),
  `SecondUndosRedo` (+), `TargetRollbacksPatch` (+), for plans of any length.
  `InOrder` says where the
  run stands, `LastIsHistory` whose transaction a rollback by history would
  revert, `Kept` and `Swept` what holds of the items half-way, for any mix of
  adapters and any actions that share an item.
  `ReportsAreOfResults`: a run that ends with a report has a result for each
  action, and the report is the `overall_status` of these results, after the
  sweep too, which does not compute it.  `RunsRunDown`: a run of `N` actions is
  over after `4 * N` steps, and no result is taken back.  `SecondUndosRedo`
  says how far finding 4 goes: a workload that one action is about and that the
  executor rolled back has its patch again after the sweep, not in some
  interleaving but always.  `TargetRollbacksPatch` is the same for packages
  whose rollback installs the version of the patch.
- **`AgentFleetProofs`**: `FleetImplementsKit`, `FleetTrusts`, `FleetTypes`,
  `UnknownAreExcused`, `StoppedAreSilent`.  `Trust` follows, unless two
  processes created a pair at once, from what is on disk: a pair that has a key
  is complete and signed by the CA's key on disk (`Placed`, `Matched`), because
  the key is written last and the one creator knows what it has written so far
  (`Written`); what was loaded is what is on disk (`Past`).  That is proved of
  the kit alone, and every step of the fleet is one of the kit or leaves it
  alone (`FleetImplementsKit`).  The registries' part is `FleetInv`: who may
  send what, and why an agent is unknown.
- **`PlanGenerationProofs`**: `TypeCorrect`, `PlansLogged`,
  `ProvidersTakeTurns`, `GenerationRefines`, `IntakeKeeps` (+),
  `StoredPlansAreSound` (+), `RequestsRunDown` (+).  The properties are about
  what is stored; the strengthening says how far each request is and what its
  plan has passed on the way: `Underway` (it is open, and now is one of its
  hours), `Passed` (the firewall, then the telemetry), `Judged` (its verdict is
  the policy's at an hour of its own, whoever gave it), `Turns` (how often each
  provider failed it), `Stored` (one plan, of a request that is done).  With
  these, saving is `Accept` of `PlanIntake`, every error is `Drop`, and all
  else is invisible to it.  What `PlanIntake` comes to (`Kept`: no two plans of
  one request, every one sound and with the status the policy gives it at some
  hour) is proved of `PlanIntake`, and holds of plan generation by the
  refinement.  `RequestsRunDown` bounds a request to
  `Providers * MaxRetries + 5` steps of its own.
- **`ControlPlaneProofs`**, each theorem of its part's own specification:
  `FeedAgrees`, `FeedDenies`, `FeedStaysLoaded`, `TargetsAreTried`,
  `TicketsBeforeRows` (+), `BlastIsBounded`, `RingsAreVerified`,
  `CompletedRollouts` (+), `AnswersHold`, `WindowHolds`.  `RolloutInv` says
  which hosts are touched at each stage of a ring, and that those a live
  verification has passed are fixed; that rings are nested for any number of
  hosts is a lemma of integer division (`RingsGrow`).  `CompletedRollouts` says
  what `COMPLETED` is worth: a patch was sent to every host, and all are fixed
  unless the last ring failed its verification.  `OutboundInv` relates the
  targets a call of `notify` still has, has under way and has results for.
  `ChannelInv` says that a callback past its signature check carries a genuine
  button, and which row each answer is about; rows are only ever added behind
  the ones there are (`RowsGrow`).  `WindowInv` is the limiter's: the list that
  it keeps is, once pruned, what was let in during the last minute, entry
  by entry, so that counting the one is counting the other; a restart forgets
  both, which is why the window is one of a process.

Only model-checked: the liveness properties `LeaseEnds`, `JobsSettle`,
`Recovers`, `RequestsEnd` and `RetriesAreAdmitted`, because the prover does
neither fairness nor `ENABLED`.  What they need besides fairness is proved for
three of them: `LeasesRunDown` for the first, the two `RequestsRunDown` for
`JobsSettle` and `RequestsEnd`.

## 6. Limits

- The content of messages, cards, prompts, logs and snapshots is left out.
- In `RemediationLifecycle` a run is one step from entering the host to its
  outcome; its inside is `PatchExecution`.  The lock is held from the one to
  the other in both.
- The ledger's own interleavings are in `AuditLedger`; the lifecycle, the
  generation of plans and the callback log with one step, because their
  properties ask whether an event is there, not where.
- `TamperEvident` covers altered contents and removed rows, with hashes and
  timestamps left alone; it speaks of the rows up to the newest one that is
  left.
- What a property excuses it does not catch.  `MutualExclusion` and
  `EntryIsDroppedByOwner` excuse a key some holder outlived (finding 1 is what
  happens then); `RunningJobIsAttended`, `DecisionsAndRunsAreAudited` and
  `JobsSettle` a request that died; `Trust` a pair two processes created at once;
  `UnknownIsExcused` a lost or forgotten registration; `DenialsAreExcused` any
  fetch that failed before; `SuccessIsKept` an action that fails on the same
  item.  `docs/architecture.md:102` ("Every state transition emits an immutable
  `AuditEvent`") is stronger than `DecisionsAndRunsAreAudited`: a request that
  dies between its two commits has changed what nobody logged.
- A call that takes effect and raises all the same (a lost answer of the
  database) is modelled where it makes a difference: in `Redlock`, the callback
  and the executor.  In the lifecycle it is the step followed by `Raise`.
- The limiter's clock only goes forward: it is the wall clock, and a jump of it
  is not modelled.
- `CanaryDeployment` is given as many hosts as `host_count` says; the code takes
  the two separately (`canary.py:91`).
- `notify` turns every failure of a send into a result.  `notifier.py:87` and
  146 serialize the payload before the `try`, so that one which is no JSON would
  raise; no caller in the program has such a payload.
- Some of the code is called by no handler: `GRPCAgentServer`, the card
  notifiers, `sync_*`, `roll_forward`, `DualSlotManager`, `RescanVerifier`
  (but for the CLI) and the feeds.  The models drive it as its docstrings and
  tests do.
- Ring sizes are exact fractions; the code's `int(n * 0.70)` is one host short
  for some `n`.  The rings stay nested, which is what the properties need.
- Known of the code, and not held against it because nothing says otherwise:
  a failed verification of the last ring is answered `COMPLETED`; with the
  stub connectors every host verifies; a repeated button is recorded again; a
  half-written PEM file is never replaced; after a fetch that raised,
  `is_known_exploited` does not fetch again; an agent over HTTP does not
  register again; sysctl rolls back to `"0"`, whatever was there; two actions
  about one package undo each other.
