--------------------------- MODULE PlanGeneration ---------------------------
(***************************************************************************)
(* POST /remediation/generate (control_plane/api/v1/remediation.py): the   *)
(* planner client, its chain of providers and the firewall (llm_planner/), *)
(* the telemetry of the planner, and the policy client with its local      *)
(* mirror of the policy (policy_engine/client.py).                         *)
(*                                                                         *)
(* Requests run as coroutines of one process, which may die; each is a     *)
(* sequence of steps from one await to the next.  The text of prompts and  *)
(* plans is reduced to what the checks ask of it: see Size in PlanIntake.  *)
(***************************************************************************)
EXTENDS Naturals

CONSTANTS
  Request, Asset, Plan,
  Providers,   \* how many providers the chain has
  MaxRetries,  \* how often each is tried (3)
  MaxTicks     \* bound: how often the hour changes

ASSUME GenerationAssumption ==
  /\ Asset # {} /\ Plan # {}
  /\ Asset \subseteq [production : BOOLEAN, criticality : 1..10]
  /\ Plan \subseteq [conforms : BOOLEAN, safe : BOOLEAN, named : BOOLEAN, restart : BOOLEAN,
                     kernel : BOOLEAN, known : Nat, drifted : Nat, other : Nat]
  /\ Providers \in Nat /\ MaxRetries \in Nat \ {0} /\ MaxTicks \in Nat

VARIABLES
  planner,    \* what LLMPlannerClient was made with
  fallback,   \* the chain has a fallback_plan_builder
  stage,      \* where each request is
  asset,      \* the asset it is about
  attempt,    \* the provider it is at, and how often that was tried before
  failed,     \* history: how often each provider failed it
  author,     \* history: who made its plan
  plan,       \* its plan
  asked,      \* the hour evaluate_plan read
  verdict,    \* what evaluate_plan returned
  activity,   \* the requests with a row of AI telemetry
  plans, hour, window, policyLoaded,
  ticks

vars == <<planner, fallback, stage, asset, attempt, failed, author, plan, asked, verdict,
          activity, plans, hour, window, policyLoaded, ticks>>

Intake == INSTANCE PlanIntake

----------------------------------------------------------------------------
(* The planner a client may have been made with.  The author of a plan is  *)
(* the number of a provider, 1 when there is no chain.                     *)
Planner == {"mock", "openai", "chain"}

Nobody == 0

FallbackBuilder == Providers + 1

Ended == {"idle", "done", "failed"}

Verdict == [allowed : BOOLEAN, escalate : BOOLEAN]

TypeOK ==
  /\ planner \in Planner /\ fallback \in BOOLEAN
  /\ stage \in [Request -> Ended \cup {"call", "record", "evaluate", "decide", "store"}]
  /\ asset \in [Request -> Asset] /\ plan \in [Request -> Plan]
  /\ attempt \in [Request -> [provider : 1..(Providers + 1), tried : 0..(MaxRetries - 1)]]
  /\ failed \in [Request -> [1..Providers -> 0..MaxRetries]]
  /\ author \in [Request -> Nobody..FallbackBuilder]
  /\ asked \in [Request -> 0..23] /\ verdict \in [Request -> Verdict]
  /\ activity \subseteq Request
  /\ plans \subseteq Intake!Entry
  /\ hour \in 0..23 /\ window \in [Request -> SUBSET (0..23)]
  /\ policyLoaded \in BOOLEAN /\ ticks \in 0..MaxTicks

Init ==
  /\ Intake!Init
  /\ planner \in Planner /\ fallback \in BOOLEAN
  /\ stage = [r \in Request |-> "idle"]
  /\ asset = [r \in Request |-> CHOOSE a \in Asset : TRUE]
  /\ attempt = [r \in Request |-> [provider |-> 1, tried |-> 0]]
  /\ failed = [r \in Request |-> [p \in 1..Providers |-> 0]]
  /\ author = [r \in Request |-> Nobody]
  /\ plan = [r \in Request |-> CHOOSE p \in Plan : TRUE]
  /\ asked = [r \in Request |-> 0]
  /\ verdict = [r \in Request |-> [allowed |-> FALSE, escalate |-> FALSE]]
  /\ activity = {}
  /\ ticks = 0

Goes(r, s) == stage' = [stage EXCEPT ![r] = s]

(* The request is answered, with an error or with its plan.                *)
Closes(r) == window' = [window EXCEPT ![r] = {}]

Unplanned == UNCHANGED <<planner, fallback, asset, hour, policyLoaded, ticks>>

----------------------------------------------------------------------------
(* The plan the firewall looks at has its unknown keys stripped and its    *)
(* suspicious text redacted.                                               *)
ValidateSchema(p) == p.conforms /\ p.safe /\ p.named

Plausible(p) ==
  /\ Intake!Size(p) > 0
  /\ ~(100 * p.drifted > 5 * Intake!Size(p))   \* max_drift_percent
  /\ ~(10 * p.drifted > Intake!Size(p))        \* max_hallucination_score

(* Mutant of Firewall: the bound is the one on hallucination alone.        *)
FirewallLax(p) ==
  /\ ValidateSchema(p) /\ Intake!Size(p) > 0
  /\ ~(10 * p.drifted > Intake!Size(p))

Firewall(p) == ValidateSchema(p) /\ Plausible(p)

(* The mock patches the package of the first vulnerability.                *)
IsMock(p) ==
  /\ p.conforms /\ ~p.restart
  /\ p.known = 1 /\ p.drifted = 0 /\ p.other = 0

----------------------------------------------------------------------------
(* The asset is there, and vulnerabilities, free of suspicious text.       *)
Arrive(r, a) ==
  /\ stage[r] = "idle"
  /\ Goes(r, "call")
  /\ asset' = [asset EXCEPT ![r] = a]
  /\ window' = [window EXCEPT ![r] = {hour}]
  /\ UNCHANGED <<attempt, failed, author, plan, asked, verdict, activity, plans>>
  /\ UNCHANGED <<planner, fallback, hour, policyLoaded, ticks>>

(* The asset is not there (404), no vulnerability is, or the sanitizer     *)
(* finds something: ValueError.                                            *)
Refuse(r) ==
  /\ stage[r] = "idle"
  /\ Goes(r, "failed")
  /\ UNCHANGED <<attempt, failed, author, plan, asked, verdict, activity, plans, window>>
  /\ Unplanned

(* The planner has come up with a plan; the firewall lets it pass or       *)
(* raises.                                                                 *)
Judge(r, p, who) ==
  /\ author' = [author EXCEPT ![r] = who]
  /\ plan' = [plan EXCEPT ![r] = p]
  /\ IF Firewall(p) THEN Goes(r, "record") /\ UNCHANGED window
                    ELSE Goes(r, "failed") /\ Closes(r)
  /\ UNCHANGED <<asked, verdict, activity, plans>>
  /\ Unplanned

PlanMock(r, p) ==
  /\ stage[r] = "call" /\ planner = "mock" /\ IsMock(p)
  /\ Judge(r, p, 1)
  /\ UNCHANGED <<attempt, failed>>

PlanOpenAI(r, p) ==
  /\ stage[r] = "call" /\ planner = "openai"
  /\ Judge(r, p, 1)
  /\ UNCHANGED <<attempt, failed>>

Raises(r) ==
  /\ Goes(r, "failed") /\ Closes(r)
  /\ UNCHANGED <<author, plan, asked, verdict, activity, plans>>
  /\ Unplanned

(* The one call of OpenAI: an HTTP error, the timeout of 30 s, no JSON.    *)
OpenAIRaises(r) ==
  /\ stage[r] = "call" /\ planner = "openai"
  /\ Raises(r)
  /\ UNCHANGED <<attempt, failed>>

Calling(r) == stage[r] = "call" /\ planner = "chain" /\ attempt[r].provider <= Providers

Exhausted(r) == stage[r] = "call" /\ planner = "chain" /\ attempt[r].provider = Providers + 1

(* A provider's answer that is a plan by the schema.                       *)
ProviderAnswers(r, p) ==
  /\ Calling(r) /\ p.conforms
  /\ Judge(r, p, attempt[r].provider)
  /\ UNCHANGED <<attempt, failed>>

FailsOf(r) == [failed EXCEPT ![r][attempt[r].provider] = @ + 1]

(* Mutant of ProviderFails: the next provider's turn after one failure.    *)
ProviderFailsOnce(r) ==
  /\ Calling(r)
  /\ attempt' = [attempt EXCEPT ![r] = [provider |-> @.provider + 1, tried |-> 0]]
  /\ failed' = FailsOf(r)
  /\ UNCHANGED <<stage, author, plan, asked, verdict, activity, plans, window>>
  /\ Unplanned

(* Mutant of ProviderFails: the same provider is asked for ever.           *)
ProviderFailsUncounted(r) ==
  /\ Calling(r)
  /\ attempt' = [attempt EXCEPT ![r].tried = (@ + 1) % MaxRetries]
  /\ failed' = failed
  /\ UNCHANGED <<stage, author, plan, asked, verdict, activity, plans, window>>
  /\ Unplanned

(* Mutant of ProviderFails: one attempt too many.                          *)
ProviderFailsLate(r) ==
  /\ Calling(r)
  /\ attempt' = [attempt EXCEPT ![r] =
       IF @.tried < MaxRetries THEN [provider |-> @.provider, tried |-> @.tried + 1]
                               ELSE [provider |-> @.provider + 1, tried |-> 0]]
  /\ failed' = FailsOf(r)
  /\ UNCHANGED <<stage, author, plan, asked, verdict, activity, plans, window>>
  /\ Unplanned

(* Its call fails, or the answer is no JSON or not a plan by the schema:   *)
(* the next attempt, or the next provider.                                 *)
ProviderFails(r) ==
  /\ Calling(r)
  /\ attempt' = [attempt EXCEPT ![r] =
       IF @.tried + 1 < MaxRetries THEN [provider |-> @.provider, tried |-> @.tried + 1]
                                   ELSE [provider |-> @.provider + 1, tried |-> 0]]
  /\ failed' = FailsOf(r)
  /\ UNCHANGED <<stage, author, plan, asked, verdict, activity, plans, window>>
  /\ Unplanned

FallBack(r, p) ==
  /\ Exhausted(r) /\ fallback
  /\ Judge(r, p, FallbackBuilder)
  /\ UNCHANGED <<attempt, failed>>

ChainRaises(r) ==
  /\ Exhausted(r) /\ ~fallback
  /\ Raises(r)
  /\ UNCHANGED <<attempt, failed>>

----------------------------------------------------------------------------
(* Mutant of RecordActivity: the telemetry is not written.                 *)
RecordNothing(r) ==
  /\ stage[r] = "record"
  /\ activity' = activity
  /\ Goes(r, "evaluate")
  /\ UNCHANGED <<attempt, failed, author, plan, asked, verdict, plans, window>>
  /\ Unplanned

(* record_ai_activity commits its row before the policy is asked.          *)
RecordActivity(r) ==
  /\ stage[r] = "record"
  /\ activity' = activity \cup {r}
  /\ Goes(r, "evaluate")
  /\ UNCHANGED <<attempt, failed, author, plan, asked, verdict, plans, window>>
  /\ Unplanned

(* evaluate_plan reads the hour and asks the policy server.                *)
AskPolicy(r) ==
  /\ stage[r] = "evaluate"
  /\ asked' = [asked EXCEPT ![r] = hour]
  /\ Goes(r, "decide")
  /\ UNCHANGED <<attempt, failed, author, plan, verdict, activity, plans, window>>
  /\ Unplanned

BusinessHour(h) == 9 <= h /\ h <= 17

(* remediation_rules.rego.  A package that is named "" is a value to Rego, *)
(* and no violation: a plan like that does not get here.                   *)
RegoAllows(a, p, h) ==
  /\ ~(a.production /\ BusinessHour(h))
  /\ ~(a.criticality >= 8 /\ p.restart)

RegoEscalates(a, p) == p.kernel \/ a.criticality >= 9

(* _evaluate_locally.                                                      *)
LocallyAllowed(a, p, h) ==
  /\ ~(a.production /\ BusinessHour(h))
  /\ ~(a.criticality >= 8 /\ p.restart)
  /\ p.named

LocallyEscalated(a, p) == a.criticality >= 9 \/ p.kernel

Decided(r, allowed, escalate) ==
  /\ verdict' = [verdict EXCEPT ![r] = [allowed |-> allowed, escalate |-> escalate]]
  /\ Goes(r, "store")
  /\ UNCHANGED <<attempt, failed, author, plan, asked, activity, plans, window>>
  /\ Unplanned

(* The answer of the policy server, without a result when it does not have *)
(* the policy: denied.                                                     *)
PolicyAnswers(r) ==
  /\ stage[r] = "decide"
  /\ IF policyLoaded
       THEN Decided(r, RegoAllows(asset[r], plan[r], asked[r]), RegoEscalates(asset[r], plan[r]))
       ELSE Decided(r, FALSE, FALSE)

(* No answer within 5 s, or one that is no result: the local mirror, with  *)
(* the hour that was read before.                                          *)
PolicyUnreachable(r) ==
  /\ stage[r] = "decide"
  /\ Decided(r, LocallyAllowed(asset[r], plan[r], asked[r]), LocallyEscalated(asset[r], plan[r]))

(* The plan is committed with its status.                                  *)
Store(r) ==
  /\ stage[r] = "store"
  /\ plans' = plans \cup
       {[request |-> r, asset |-> asset[r], plan |-> plan[r],
         status |-> IF verdict[r].allowed THEN "PENDING_APPROVAL" ELSE "REJECTED_BY_POLICY",
         escalate |-> verdict[r].escalate]}
  /\ Goes(r, "done") /\ Closes(r)
  /\ UNCHANGED <<attempt, failed, author, plan, asked, verdict, activity>>
  /\ Unplanned

(* A commit raises and nothing is stored.                                  *)
CommitRaises(r) ==
  /\ stage[r] \in {"record", "store"}
  /\ Raises(r)
  /\ UNCHANGED <<attempt, failed>>

(* The process dies with all its requests.                                 *)
Crash ==
  /\ \E r \in Request : stage[r] \notin Ended
  /\ stage' = [r \in Request |-> IF stage[r] \in Ended THEN stage[r] ELSE "failed"]
  /\ window' = [r \in Request |-> {}]
  /\ UNCHANGED <<attempt, failed, author, plan, asked, verdict, activity, plans>>
  /\ Unplanned

Tick ==
  /\ ticks < MaxTicks /\ ticks' = ticks + 1
  /\ hour' = (hour + 1) % 24
  /\ window' = [r \in Request |-> IF window[r] = {} THEN {} ELSE window[r] \cup {hour'}]
  /\ UNCHANGED <<planner, fallback, stage, asset, attempt, failed, author, plan, asked, verdict,
                 activity, plans, policyLoaded>>

Plans(r) ==
  \/ \E p \in Plan : PlanMock(r, p) \/ PlanOpenAI(r, p) \/ ProviderAnswers(r, p) \/ FallBack(r, p)
  \/ OpenAIRaises(r) \/ ProviderFails(r) \/ ChainRaises(r)

Step(r) ==
  \/ Plans(r) \/ RecordActivity(r) \/ AskPolicy(r)
  \/ PolicyAnswers(r) \/ PolicyUnreachable(r) \/ Store(r) \/ CommitRaises(r)

Next ==
  \/ \E r \in Request : (\E a \in Asset : Arrive(r, a)) \/ Refuse(r) \/ Step(r)
  \/ Crash \/ Tick

(* Every await has a timeout: 30 s a call (60 s for Ollama), 5 s for the   *)
(* policy; the database answers.                                           *)
Spec == Init /\ [][Next]_vars /\ \A r \in Request : WF_vars(Step(r))

----------------------------------------------------------------------------
(* Whatever the planner came up with, whoever evaluated it and however the *)
(* hour changed meanwhile, what is stored is what PlanIntake promises      *)
(* (CognitiveAIFirewall, OPAPolicyClient, generate_plan).                  *)
ImplementsPlanIntake == Intake!Spec

(* A stored plan has its row of telemetry, which is committed on its own   *)
(* and earlier; so has every plan the policy was asked about, and none     *)
(* that the firewall refused (record_ai_activity).                         *)
PlansAreLogged ==
  /\ \A n \in plans : n.request \in activity
  /\ \A r \in activity : author[r] # Nobody /\ Firewall(plan[r])
  /\ \A r \in Request : stage[r] \in {"evaluate", "decide", "store", "done"} => r \in activity

(* Providers take turns: one is asked only after all before it failed      *)
(* MaxRetries times ("retrying each provider ... before switching"), and   *)
(* the fallback builds a plan only after all did                           *)
(* (MultiProviderPlanner.generate_remediation_plan).                       *)
Turn(r) == IF author[r] = Nobody THEN attempt[r].provider ELSE author[r]

FallbackIsLastResort ==
  \A r \in Request, p \in 1..Providers : p < Turn(r) => failed[r][p] = MaxRetries

(* Every request ends, though every provider may fail every call and the   *)
(* policy server never answer (generate_plan).                             *)
RequestsEnd == \A r \in Request : stage[r] = "call" ~> stage[r] \in Ended
=============================================================================
