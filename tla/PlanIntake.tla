----------------------------- MODULE PlanIntake -----------------------------
(***************************************************************************)
(* What generating remediation plans promises: the store of plans only     *)
(* grows, by at most one plan of each request, and each plan is sound and  *)
(* has the status the policy (policies/remediation_rules.rego) gives it at *)
(* some hour between the arrival of the request and now.                   *)
(***************************************************************************)
EXTENDS Naturals

CONSTANTS
  Request,   \* the requests
  Asset,     \* the assets, as the policy sees them
  Plan       \* the plans somebody may come up with

VARIABLES
  plans,         \* the stored plans
  hour,          \* the hour of the day (UTC)
  window,        \* the hours there were since a request arrived; none: not open
  policyLoaded   \* the policy server has the policy

intakeVars == <<plans, hour, window, policyLoaded>>

----------------------------------------------------------------------------
(* A plan is the number of its actions that patch packages of the request, *)
(* that patch others, and of the rest, and what the actions ask for.       *)
Size(p) == p.known + p.drifted + p.other

(* What no action may lack: at least one action, all on named packages,    *)
(* free of shell syntax, at most one in twenty a patch of a package that   *)
(* the request did not speak of.                                           *)
Sound(p) ==
  /\ p.conforms /\ p.safe /\ p.named
  /\ Size(p) > 0 /\ 20 * p.drifted <= Size(p)

(* The violations of remediation_rules.rego, for a plan nobody escalated.  *)
Forbidden(a, p, h) ==
  \/ a.production /\ 9 <= h /\ h <= 17
  \/ a.criticality >= 8 /\ p.restart

(* Its require_escalation.                                                 *)
Escalates(a, p) == a.criticality >= 9 \/ p.kernel

Obeys(n, hours) ==
  /\ n.status = "PENDING_APPROVAL" => \E h \in hours : ~Forbidden(n.asset, n.plan, h)
  /\ n.status = "REJECTED_BY_POLICY" /\ policyLoaded =>
       \E h \in hours : Forbidden(n.asset, n.plan, h)
  /\ policyLoaded => n.escalate = Escalates(n.asset, n.plan)

Entry ==
  [request : Request, asset : Asset, plan : Plan,
   status : {"PENDING_APPROVAL", "REJECTED_BY_POLICY"}, escalate : BOOLEAN]

Init ==
  /\ plans = {}
  /\ hour \in 0..23
  /\ window = [r \in Request |-> {}]
  /\ policyLoaded \in BOOLEAN

Arrive(r) ==
  /\ window[r] = {}
  /\ window' = [window EXCEPT ![r] = {hour}]
  /\ UNCHANGED <<plans, hour, policyLoaded>>

Tick ==
  /\ hour' = (hour + 1) % 24
  /\ window' = [r \in Request |-> IF window[r] = {} THEN {} ELSE window[r] \cup {hour'}]
  /\ UNCHANGED <<plans, policyLoaded>>

(* Requests end, one of them with a plan, or several at once when the      *)
(* process dies.                                                           *)
Accept(n) ==
  /\ window[n.request] # {}
  /\ \A o \in plans : o.request # n.request
  /\ Sound(n.plan) /\ Obeys(n, window[n.request])
  /\ plans' = plans \cup {n}
  /\ window' = [window EXCEPT ![n.request] = {}]
  /\ UNCHANGED <<hour, policyLoaded>>

Drop(R) ==
  /\ window' = [r \in Request |-> IF r \in R THEN {} ELSE window[r]]
  /\ UNCHANGED <<plans, hour, policyLoaded>>

Next ==
  \/ \E r \in Request : Arrive(r)
  \/ Tick
  \/ \E n \in Entry : Accept(n)
  \/ \E R \in SUBSET Request : Drop(R)

Spec == Init /\ [][Next]_intakeVars
=============================================================================
