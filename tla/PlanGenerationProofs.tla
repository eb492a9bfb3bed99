------------------------ MODULE PlanGenerationProofs ------------------------
(***************************************************************************)
(* Proofs about PlanGeneration, for any requests, plans, providers and     *)
(* retries.  The strengthening says how far a request is (Underway), what  *)
(* its plan has passed (Passed, Judged), whose turn it is (Turns), and     *)
(* that a stored plan is of a request that is done (Stored).               *)
(***************************************************************************)
EXTENDS PlanGeneration, Integers, TLAPS

(* A request is open while it is under way, and no longer; now is one of   *)
(* its hours.                                                              *)
Underway ==
  \A r \in Request : IF stage[r] \in Ended THEN window[r] = {} ELSE hour \in window[r]

(* What is recorded has passed the firewall, what is evaluated is recorded. *)
Passed ==
  /\ \A r \in Request :
       stage[r] \in {"record", "evaluate", "decide", "store"} =>
         Firewall(plan[r]) /\ author[r] # Nobody
  /\ \A r \in activity :
       /\ author[r] # Nobody /\ Firewall(plan[r])
       /\ stage[r] \in {"evaluate", "decide", "store", "done", "failed"}
  /\ \A r \in Request : stage[r] \in {"evaluate", "decide", "store", "done"} => r \in activity

(* The hour that was read is one of the request's, and a verdict is that   *)
(* of the policy at this hour.                                             *)
Judged ==
  \A r \in Request :
    /\ stage[r] \in {"decide", "store"} => asked[r] \in window[r]
    /\ stage[r] = "store" =>
         /\ verdict[r].allowed => ~Intake!Forbidden(asset[r], plan[r], asked[r])
         /\ ~verdict[r].allowed /\ policyLoaded => Intake!Forbidden(asset[r], plan[r], asked[r])
         /\ policyLoaded => verdict[r].escalate = Intake!Escalates(asset[r], plan[r])

Turns ==
  \A r \in Request :
    /\ author[r] <= attempt[r].provider
    /\ \A p \in 1..Providers :
         /\ p < attempt[r].provider => failed[r][p] = MaxRetries
         /\ p = attempt[r].provider => failed[r][p] = attempt[r].tried
         /\ p > attempt[r].provider => failed[r][p] = 0

Stored == \A n \in plans : stage[n.request] = "done"

IInv == TypeOK /\ Underway /\ Passed /\ Judged /\ Turns /\ Stored

----------------------------------------------------------------------------
(* Every step keeps the types (generate_plan).                             *)
LEMMA NextTypeOK == IInv /\ [Next]_vars => TypeOK'
<1> SUFFICES ASSUME IInv, [Next]_vars PROVE TypeOK'
  OBVIOUS
<1> USE GenerationAssumption DEF IInv
<1>1. ASSUME NEW r \in Request, NEW a \in Asset, Arrive(r, a) PROVE TypeOK'
  BY <1>1 DEF Arrive, Goes, TypeOK, Ended
<1>2. ASSUME NEW r \in Request, Refuse(r) PROVE TypeOK'
  BY <1>2 DEF Refuse, Goes, Unplanned, TypeOK, Ended
<1>3. ASSUME NEW r \in Request, NEW p \in Plan, NEW who \in 1..FallbackBuilder,
             Judge(r, p, who), UNCHANGED <<attempt, failed>>
      PROVE  TypeOK'
  <2>1. author' \in [Request -> Nobody..FallbackBuilder] /\ plan' \in [Request -> Plan]
    BY <1>3 DEF Judge, TypeOK, Nobody, FallbackBuilder
  <2>2. stage' \in [Request -> Ended \cup {"call", "record", "evaluate", "decide", "store"}]
    BY <1>3 DEF Judge, Goes, TypeOK, Ended
  <2>3. window' \in [Request -> SUBSET (0..23)]
    BY <1>3 DEF Judge, Closes, TypeOK
  <2> QED
    BY <1>3, <2>1, <2>2, <2>3 DEF Judge, Unplanned, TypeOK
<1>4. ASSUME NEW r \in Request, Raises(r), UNCHANGED <<attempt, failed>> PROVE TypeOK'
  BY <1>4 DEF Raises, Goes, Closes, Unplanned, TypeOK, Ended
<1>5. ASSUME NEW r \in Request, Plans(r) PROVE TypeOK'
  <2>1. attempt[r].provider \in 1..FallbackBuilder /\ 1 \in 1..FallbackBuilder
        /\ FallbackBuilder \in 1..FallbackBuilder
    BY DEF TypeOK, FallbackBuilder
  <2>2. ASSUME NEW p \in Plan, PlanMock(r, p) \/ PlanOpenAI(r, p) \/ ProviderAnswers(r, p) \/ FallBack(r, p)
        PROVE  TypeOK'
    BY <1>3, <2>1, <2>2 DEF PlanMock, PlanOpenAI, ProviderAnswers, FallBack
  <2>3. CASE OpenAIRaises(r) \/ ChainRaises(r)
    BY <1>4, <2>3 DEF OpenAIRaises, ChainRaises
  <2>4. CASE ProviderFails(r)
    <3> DEFINE k == attempt[r].provider
               t == attempt[r].tried
    <3>1. k \in 1..Providers /\ t \in 0..(MaxRetries - 1) /\ failed[r][k] = t
      BY <2>4 DEF ProviderFails, Calling, TypeOK, Turns
    <3>2. attempt' \in [Request -> [provider : 1..(Providers + 1), tried : 0..(MaxRetries - 1)]]
      <4>1. CASE t + 1 < MaxRetries
        <5>1. [provider |-> k, tried |-> t + 1] \in [provider : 1..(Providers + 1), tried : 0..(MaxRetries - 1)]
          BY <3>1, <4>1
        <5> QED
          BY <2>4, <4>1, <5>1 DEF ProviderFails, TypeOK
      <4>2. CASE ~(t + 1 < MaxRetries)
        <5>1. [provider |-> k + 1, tried |-> 0] \in [provider : 1..(Providers + 1), tried : 0..(MaxRetries - 1)]
          BY <3>1
        <5> QED
          BY <2>4, <4>2, <5>1 DEF ProviderFails, TypeOK
      <4> QED
        BY <4>1, <4>2
    <3>3. failed' \in [Request -> [1..Providers -> 0..MaxRetries]]
      <4>0. t + 1 \in 0..MaxRetries
        BY <3>1
      <4>1. failed[r] \in [1..Providers -> 0..MaxRetries]
        BY DEF TypeOK
      <4>2. failed' = [failed EXCEPT ![r] = [failed[r] EXCEPT ![k] = t + 1]]
        BY <2>4, <3>1, <4>1 DEF ProviderFails, FailsOf, TypeOK
      <4>3. [failed[r] EXCEPT ![k] = t + 1] \in [1..Providers -> 0..MaxRetries]
        BY <4>0, <4>1
      <4> QED
        BY <4>2, <4>3 DEF TypeOK
    <3> QED
      BY <2>4, <3>2, <3>3 DEF ProviderFails, Unplanned, TypeOK
  <2> QED
    BY <1>5, <2>2, <2>3, <2>4 DEF Plans
<1>6. ASSUME NEW r \in Request, RecordActivity(r) \/ AskPolicy(r) PROVE TypeOK'
  <2>1. stage' \in [Request -> Ended \cup {"call", "record", "evaluate", "decide", "store"}]
    BY <1>6 DEF RecordActivity, AskPolicy, Goes, TypeOK
  <2>2. activity' \subseteq Request /\ asked' \in [Request -> 0..23]
    <3>1. activity \subseteq Request /\ asked \in [Request -> 0..23] /\ hour \in 0..23
      BY DEF TypeOK
    <3>2. CASE RecordActivity(r)
      BY <3>1, <3>2 DEF RecordActivity
    <3>3. CASE AskPolicy(r)
      BY <3>1, <3>3 DEF AskPolicy
    <3> QED
      BY <1>6, <3>2, <3>3
  <2>3. UNCHANGED <<attempt, failed, author, plan, verdict, plans, window>> /\ Unplanned
    BY <1>6 DEF RecordActivity, AskPolicy
  <2> QED
    BY <2>1, <2>2, <2>3 DEF Unplanned, TypeOK
<1>7. ASSUME NEW r \in Request, NEW allowed \in BOOLEAN, NEW escalate \in BOOLEAN, Decided(r, allowed, escalate)
      PROVE  TypeOK'
  BY <1>7 DEF Decided, Goes, Unplanned, TypeOK, Verdict
<1>8. ASSUME NEW r \in Request, PolicyAnswers(r) \/ PolicyUnreachable(r) PROVE TypeOK'
  <2>1. asset[r] \in Asset /\ plan[r] \in Plan
    BY DEF TypeOK
  <2>2. /\ RegoAllows(asset[r], plan[r], asked[r]) \in BOOLEAN
        /\ RegoEscalates(asset[r], plan[r]) \in BOOLEAN
        /\ LocallyAllowed(asset[r], plan[r], asked[r]) \in BOOLEAN
        /\ LocallyEscalated(asset[r], plan[r]) \in BOOLEAN
    BY <2>1 DEF RegoAllows, RegoEscalates, LocallyAllowed, LocallyEscalated
  <2> QED
    BY <1>7, <1>8, <2>2 DEF PolicyAnswers, PolicyUnreachable
<1>9. ASSUME NEW r \in Request, Store(r) PROVE TypeOK'
  <2>1. asset[r] \in Asset /\ plan[r] \in Plan /\ verdict[r].escalate \in BOOLEAN
    BY DEF TypeOK, Verdict
  <2>2. plans' \subseteq Intake!Entry
    BY <1>9, <2>1 DEF Store, TypeOK, Intake!Entry
  <2> QED
    BY <1>9, <2>2 DEF Store, Goes, Closes, Unplanned, TypeOK, Ended
<1>10. ASSUME NEW r \in Request, CommitRaises(r) PROVE TypeOK'
  BY <1>4, <1>10 DEF CommitRaises
<1>11. CASE Crash
  BY <1>11 DEF Crash, Unplanned, TypeOK, Ended
<1>12. CASE Tick
  <2>1. hour' \in 0..23
    BY <1>12 DEF Tick, TypeOK
  <2>2. window' \in [Request -> SUBSET (0..23)]
    BY <1>12, <2>1 DEF Tick, TypeOK
  <2>3. ticks' \in 0..MaxTicks
    BY <1>12 DEF Tick, TypeOK
  <2> QED
    BY <1>12, <2>1, <2>2, <2>3 DEF Tick, TypeOK
<1>13. CASE UNCHANGED vars
  BY <1>13 DEF vars, TypeOK
<1> QED
  BY <1>1, <1>2, <1>5, <1>6, <1>8, <1>9, <1>10, <1>11, <1>12, <1>13 DEF Next, Step

(* A request is open while it is under way, after every step, the loss of  *)
(* the process included (generate_plan).                                   *)
LEMMA NextUnderway == IInv /\ [Next]_vars => Underway'
<1> SUFFICES ASSUME IInv, [Next]_vars PROVE Underway'
  OBVIOUS
<1>0. TypeOK /\ Underway
  BY DEF IInv
<1>1. ASSUME NEW r \in Request, NEW a \in Asset, Arrive(r, a) PROVE Underway'
  BY <1>0, <1>1 DEF Arrive, Goes, Unplanned, TypeOK, Underway, Ended
<1>2. ASSUME NEW r \in Request, Refuse(r) PROVE Underway'
  BY <1>0, <1>2 DEF Refuse, Goes, Unplanned, TypeOK, Underway, Ended
<1>3. ASSUME NEW r \in Request, NEW p, NEW who, stage[r] = "call", Judge(r, p, who) PROVE Underway'
  BY <1>0, <1>3 DEF Judge, Goes, Closes, Unplanned, TypeOK, Underway, Ended
<1>4. ASSUME NEW r \in Request, Raises(r) PROVE Underway'
  BY <1>0, <1>4 DEF Raises, Goes, Closes, Unplanned, TypeOK, Underway, Ended
<1>5. ASSUME NEW r \in Request, Plans(r) PROVE Underway'
  <2>1. CASE \E p \in Plan : PlanMock(r, p) \/ PlanOpenAI(r, p) \/ ProviderAnswers(r, p) \/ FallBack(r, p)
    BY <1>3, <2>1 DEF PlanMock, PlanOpenAI, ProviderAnswers, FallBack, Calling, Exhausted
  <2>2. CASE OpenAIRaises(r) \/ ChainRaises(r)
    BY <1>4, <2>2 DEF OpenAIRaises, ChainRaises
  <2>3. CASE ProviderFails(r)
    BY <1>0, <2>3 DEF ProviderFails, Unplanned, Underway
  <2> QED
    BY <1>5, <2>1, <2>2, <2>3 DEF Plans
<1>6. ASSUME NEW r \in Request, RecordActivity(r) \/ AskPolicy(r) PROVE Underway'
  <2>1. UNCHANGED <<window, hour>> /\ stage[r] \notin Ended
    BY <1>6 DEF RecordActivity, AskPolicy, Unplanned, Ended
  <2>2. PICK s \in {"evaluate", "decide"} : stage' = [stage EXCEPT ![r] = s]
    BY <1>6 DEF RecordActivity, AskPolicy, Goes
  <2> QED
    BY <1>0, <2>1, <2>2 DEF TypeOK, Underway, Ended
<1>7. ASSUME NEW r \in Request, PolicyAnswers(r) \/ PolicyUnreachable(r) PROVE Underway'
  BY <1>0, <1>7 DEF PolicyAnswers, PolicyUnreachable, Decided, Goes, Unplanned, TypeOK, Underway, Ended
<1>8. ASSUME NEW r \in Request, Store(r) PROVE Underway'
  BY <1>0, <1>8 DEF Store, Goes, Closes, Unplanned, TypeOK, Underway, Ended
<1>9. ASSUME NEW r \in Request, CommitRaises(r) PROVE Underway'
  BY <1>4, <1>9 DEF CommitRaises
<1>10. CASE Crash
  BY <1>0, <1>10 DEF Crash, Unplanned, TypeOK, Underway, Ended
<1>11. CASE Tick
  BY <1>0, <1>11 DEF Tick, Unplanned, TypeOK, Underway
<1>12. CASE UNCHANGED vars
  BY <1>0, <1>12 DEF vars, Underway
<1> QED
  BY <1>1, <1>2, <1>5, <1>6, <1>7, <1>8, <1>9, <1>10, <1>11, <1>12 DEF Next, Step

(* What is recorded has passed the firewall, and keeps its author and its  *)
(* plan (CognitiveAIFirewall, record_ai_activity).                         *)
LEMMA NextPassed == IInv /\ [Next]_vars => Passed'
<1> SUFFICES ASSUME IInv, [Next]_vars PROVE Passed'
  OBVIOUS
<1> USE DEF Nobody
<1>0. TypeOK /\ Passed
  BY DEF IInv
<1>1. ASSUME NEW r \in Request, NEW a \in Asset, Arrive(r, a) PROVE Passed'
  BY <1>0, <1>1 DEF Arrive, Goes, TypeOK, Passed
<1>2. ASSUME NEW r \in Request, Refuse(r) PROVE Passed'
  BY <1>0, <1>2 DEF Refuse, Goes, TypeOK, Passed
<1>3. ASSUME NEW r \in Request, NEW p \in Plan, NEW who \in 1..FallbackBuilder, stage[r] = "call",
             Judge(r, p, who)
      PROVE  Passed'
  <2>1. r \notin activity /\ activity' = activity
    BY <1>0, <1>3 DEF Judge, Passed
  <2>2. \A q \in Request \ {r} : stage'[q] = stage[q] /\ author'[q] = author[q] /\ plan'[q] = plan[q]
    BY <1>0, <1>3 DEF Judge, Goes, TypeOK
  <2>3. \/ stage'[r] = "failed"
        \/ stage'[r] = "record" /\ Firewall(plan'[r]) /\ author'[r] # Nobody
    <3>1. author'[r] # Nobody /\ plan'[r] = p
      BY <1>0, <1>3, GenerationAssumption DEF Judge, TypeOK, FallbackBuilder
    <3>2. IF Firewall(p) THEN stage'[r] = "record" ELSE stage'[r] = "failed"
      BY <1>0, <1>3 DEF Judge, Goes, TypeOK
    <3> QED
      BY <3>1, <3>2
  <2> HIDE DEF Nobody
  <2>4. \A q \in Request : stage'[q] \in {"record", "evaluate", "decide", "store"} =>
                          Firewall(plan'[q]) /\ author'[q] # Nobody
    BY <1>0, <2>2, <2>3 DEF Passed
  <2>5. activity \subseteq Request
    BY <1>0 DEF TypeOK
  <2> QED
    BY <1>0, <2>1, <2>2, <2>3, <2>4, <2>5 DEF Passed
<1>4. ASSUME NEW r \in Request, Raises(r) PROVE Passed'
  BY <1>0, <1>4 DEF Raises, Goes, TypeOK, Passed
<1>5. ASSUME NEW r \in Request, Plans(r) PROVE Passed'
  <2>1. attempt[r].provider \in 1..FallbackBuilder /\ 1 \in 1..FallbackBuilder
        /\ FallbackBuilder \in 1..FallbackBuilder
    BY <1>0, GenerationAssumption DEF TypeOK, FallbackBuilder
  <2>2. CASE \E p \in Plan : PlanMock(r, p) \/ PlanOpenAI(r, p) \/ ProviderAnswers(r, p) \/ FallBack(r, p)
    BY <1>3, <2>1, <2>2 DEF PlanMock, PlanOpenAI, ProviderAnswers, FallBack, Calling, Exhausted
  <2>3. CASE OpenAIRaises(r) \/ ChainRaises(r)
    BY <1>4, <2>3 DEF OpenAIRaises, ChainRaises
  <2>4. CASE ProviderFails(r)
    BY <1>0, <2>4 DEF ProviderFails, Passed
  <2> QED
    BY <1>5, <2>2, <2>3, <2>4 DEF Plans
<1>6. ASSUME NEW r \in Request, RecordActivity(r) \/ AskPolicy(r) PROVE Passed'
  BY <1>0, <1>6 DEF RecordActivity, AskPolicy, Goes, TypeOK, Passed
<1>7. ASSUME NEW r \in Request, PolicyAnswers(r) \/ PolicyUnreachable(r) PROVE Passed'
  BY <1>0, <1>7 DEF PolicyAnswers, PolicyUnreachable, Decided, Goes, TypeOK, Passed
<1>8. ASSUME NEW r \in Request, Store(r) PROVE Passed'
  BY <1>0, <1>8 DEF Store, Goes, TypeOK, Passed
<1>9. ASSUME NEW r \in Request, CommitRaises(r) PROVE Passed'
  BY <1>4, <1>9 DEF CommitRaises
<1>10. CASE Crash
  BY <1>0, <1>10 DEF Crash, TypeOK, Passed, Ended
<1>11. CASE Tick
  BY <1>0, <1>11 DEF Tick, Passed
<1>12. CASE UNCHANGED vars
  BY <1>0, <1>12 DEF vars, Passed
<1> QED
  BY <1>1, <1>2, <1>5, <1>6, <1>7, <1>8, <1>9, <1>10, <1>11, <1>12 DEF Next, Step

(* Every provider before the one whose turn it is has failed MaxRetries    *)
(* times (MultiProviderPlanner.generate_remediation_plan).                 *)
LEMMA NextTurns == IInv /\ [Next]_vars => Turns'
<1> SUFFICES ASSUME IInv, [Next]_vars PROVE Turns'
  OBVIOUS
<1>0. TypeOK /\ Turns
  BY DEF IInv
<1>1. ASSUME UNCHANGED <<attempt, failed, author>> PROVE Turns'
  BY <1>0, <1>1 DEF Turns
<1>2. ASSUME NEW r \in Request, NEW p, NEW who \in 1..FallbackBuilder, who <= attempt[r].provider,
             Judge(r, p, who), UNCHANGED <<attempt, failed>>
      PROVE  Turns'
  BY <1>0, <1>2 DEF Judge, TypeOK, Turns
<1>3. ASSUME NEW r \in Request, ProviderFails(r) PROVE Turns'
  <2> DEFINE k == attempt[r].provider
             t == attempt[r].tried
  <2>1. k \in 1..Providers /\ t \in 0..(MaxRetries - 1) /\ failed[r][k] = t
        /\ failed[r] \in [1..Providers -> 0..MaxRetries]
    BY <1>0, <1>3 DEF ProviderFails, Calling, TypeOK, Turns
  <2>2. failed' = [failed EXCEPT ![r] = [failed[r] EXCEPT ![k] = t + 1]]
    BY <1>0, <1>3, <2>1 DEF ProviderFails, FailsOf, TypeOK
  <2>3. failed'[r] = [failed[r] EXCEPT ![k] = t + 1]
    BY <1>0, <2>2 DEF TypeOK
  <2>4. \/ attempt'[r] = [provider |-> k, tried |-> t + 1]
        \/ attempt'[r] = [provider |-> k + 1, tried |-> 0] /\ t + 1 = MaxRetries
    <3>1. attempt'[r] = IF t + 1 < MaxRetries THEN [provider |-> k, tried |-> t + 1]
                                              ELSE [provider |-> k + 1, tried |-> 0]
      BY <1>0, <1>3 DEF ProviderFails, TypeOK
    <3>2. MaxRetries \in Nat /\ t \in Nat /\ t + 1 <= MaxRetries
      BY <2>1, GenerationAssumption
    <3> QED
      BY <3>1, <3>2
  <2>5. \A q \in Request : q # r => attempt'[q] = attempt[q] /\ failed'[q] = failed[q]
    BY <1>0, <1>3, <2>2 DEF ProviderFails, TypeOK
  <2>6. ASSUME NEW q \in Request, q # r
        PROVE  /\ author'[q] <= attempt'[q].provider
               /\ \A p \in 1..Providers :
                    /\ p < attempt'[q].provider => failed'[q][p] = MaxRetries
                    /\ p = attempt'[q].provider => failed'[q][p] = attempt'[q].tried
                    /\ p > attempt'[q].provider => failed'[q][p] = 0
    BY <1>0, <1>3, <2>5, <2>6 DEF ProviderFails, Turns
  <2>7. author'[r] <= attempt'[r].provider
    BY <1>0, <1>3, <2>1, <2>4, GenerationAssumption DEF ProviderFails, Turns, TypeOK, Nobody, FallbackBuilder
  <2>8. ASSUME NEW p \in 1..Providers
        PROVE  /\ p < attempt'[r].provider => failed'[r][p] = MaxRetries
               /\ p = attempt'[r].provider => failed'[r][p] = attempt'[r].tried
               /\ p > attempt'[r].provider => failed'[r][p] = 0
    <3>1. (p < k => failed[r][p] = MaxRetries) /\ (p > k => failed[r][p] = 0)
      BY <1>0 DEF Turns
    <3>2. failed'[r][p] = IF p = k THEN t + 1 ELSE failed[r][p]
      BY <2>1, <2>3
    <3> HIDE DEF k, t
    <3>3. CASE attempt'[r] = [provider |-> k, tried |-> t + 1]
      BY <2>1, <3>1, <3>2, <3>3
    <3>4. CASE attempt'[r] = [provider |-> k + 1, tried |-> 0] /\ t + 1 = MaxRetries
      BY <2>1, <3>1, <3>2, <3>4
    <3> QED
      BY <2>4, <3>3, <3>4
  <2> QED
    BY <2>6, <2>7, <2>8 DEF Turns
<1>4. ASSUME NEW r \in Request, Plans(r) PROVE Turns'
  <2>1. CASE \E p \in Plan : PlanMock(r, p) \/ PlanOpenAI(r, p) \/ ProviderAnswers(r, p) \/ FallBack(r, p)
    <3>1. /\ attempt[r].provider \in 1..FallbackBuilder
          /\ 1 \in 1..FallbackBuilder /\ FallbackBuilder \in 1..FallbackBuilder
          /\ 1 <= attempt[r].provider /\ attempt[r].provider <= attempt[r].provider
          /\ Exhausted(r) => FallbackBuilder <= attempt[r].provider
      BY <1>0, GenerationAssumption DEF TypeOK, FallbackBuilder, Exhausted
    <3> QED
      BY <1>2, <2>1, <3>1 DEF PlanMock, PlanOpenAI, ProviderAnswers, FallBack
  <2>2. CASE OpenAIRaises(r) \/ ChainRaises(r)
    BY <1>1, <2>2 DEF OpenAIRaises, ChainRaises, Raises
  <2> QED
    BY <1>3, <1>4, <2>1, <2>2 DEF Plans
<1> QED
  BY <1>1, <1>4 DEF Next, Step, vars, Arrive, Refuse, RecordActivity, AskPolicy, PolicyAnswers,
                    PolicyUnreachable, Decided, Store, CommitRaises, Raises, Crash, Tick

(* The hour evaluate_plan read stays one of the request's hours, and the   *)
(* verdict that of remediation_rules.rego at this hour, whether the server *)
(* or the local mirror gave it (OPAPolicyClient).                          *)
LEMMA NextJudged == IInv /\ [Next]_vars => Judged'
<1> SUFFICES ASSUME IInv, [Next]_vars PROVE Judged'
  OBVIOUS
<1>0. TypeOK /\ Judged
  BY DEF IInv
<1>1. ASSUME NEW r \in Request, NEW a \in Asset, Arrive(r, a) PROVE Judged'
  BY <1>0, <1>1 DEF Arrive, Goes, TypeOK, Judged
<1>2. ASSUME NEW r \in Request, Refuse(r) PROVE Judged'
  BY <1>0, <1>2 DEF Refuse, Goes, Unplanned, TypeOK, Judged
<1>3. ASSUME NEW r \in Request, NEW p, NEW who, Judge(r, p, who) PROVE Judged'
  BY <1>0, <1>3 DEF Judge, Goes, Closes, Unplanned, TypeOK, Judged
<1>4. ASSUME NEW r \in Request, Raises(r) PROVE Judged'
  BY <1>0, <1>4 DEF Raises, Goes, Closes, Unplanned, TypeOK, Judged
<1>5. ASSUME NEW r \in Request, Plans(r) PROVE Judged'
  <2>1. CASE \E p \in Plan : PlanMock(r, p) \/ PlanOpenAI(r, p) \/ ProviderAnswers(r, p) \/ FallBack(r, p)
    BY <1>3, <2>1 DEF PlanMock, PlanOpenAI, ProviderAnswers, FallBack
  <2>2. CASE OpenAIRaises(r) \/ ChainRaises(r)
    BY <1>4, <2>2 DEF OpenAIRaises, ChainRaises
  <2>3. CASE ProviderFails(r)
    BY <1>0, <2>3 DEF ProviderFails, Unplanned, Judged
  <2> QED
    BY <1>5, <2>1, <2>2, <2>3 DEF Plans
<1>6. ASSUME NEW r \in Request, RecordActivity(r) PROVE Judged'
  BY <1>0, <1>6 DEF RecordActivity, Goes, Unplanned, TypeOK, Judged
<1>7. ASSUME NEW r \in Request, AskPolicy(r) PROVE Judged'
  <2>1. hour \in window[r]
    BY <1>7 DEF IInv, AskPolicy, Underway, Ended
  <2> QED
    BY <1>0, <1>7, <2>1 DEF AskPolicy, Goes, Unplanned, TypeOK, Judged
<1>8. ASSUME NEW r \in Request, NEW allowed \in BOOLEAN, NEW escalate \in BOOLEAN,
             stage[r] = "decide", Decided(r, allowed, escalate),
             allowed => ~Intake!Forbidden(asset[r], plan[r], asked[r]),
             ~allowed /\ policyLoaded => Intake!Forbidden(asset[r], plan[r], asked[r]),
             policyLoaded => escalate = Intake!Escalates(asset[r], plan[r])
      PROVE  Judged'
  <2>1. /\ UNCHANGED <<asked, asset, plan, window, policyLoaded>>
        /\ \A q \in Request \ {r} : stage'[q] = stage[q] /\ verdict'[q] = verdict[q]
    BY <1>0, <1>8 DEF Decided, Goes, Unplanned, TypeOK
  <2>2. verdict'[r] = [allowed |-> allowed, escalate |-> escalate]
    BY <1>0, <1>8 DEF Decided, TypeOK
  <2> QED
    BY <1>0, <1>8, <2>1, <2>2 DEF Judged
<1>9. ASSUME NEW r \in Request, PolicyAnswers(r) \/ PolicyUnreachable(r) PROVE Judged'
  <2>0. stage[r] = "decide" /\ plan[r] \in Plan /\ asset[r] \in Asset /\ asked[r] \in 0..23
    BY <1>0, <1>9 DEF PolicyAnswers, PolicyUnreachable, TypeOK
  <2>1. /\ asset[r] \in [production : BOOLEAN, criticality : 1..10]
        /\ plan[r].named /\ plan[r].kernel \in BOOLEAN /\ asked[r] \in 0..23
    <3>1. Firewall(plan[r])
      BY <2>0 DEF IInv, Passed
    <3>2. plan[r].kernel \in BOOLEAN
      BY <2>0, GenerationAssumption
    <3> QED
      BY <2>0, <3>1, <3>2, GenerationAssumption DEF Firewall, ValidateSchema
  <2>2. /\ RegoAllows(asset[r], plan[r], asked[r]) <=> ~Intake!Forbidden(asset[r], plan[r], asked[r])
        /\ LocallyAllowed(asset[r], plan[r], asked[r]) <=> ~Intake!Forbidden(asset[r], plan[r], asked[r])
        /\ RegoEscalates(asset[r], plan[r]) = Intake!Escalates(asset[r], plan[r])
        /\ LocallyEscalated(asset[r], plan[r]) = Intake!Escalates(asset[r], plan[r])
    BY <2>1 DEF RegoAllows, LocallyAllowed, RegoEscalates, LocallyEscalated, BusinessHour,
                Intake!Forbidden, Intake!Escalates
  <2>3. /\ RegoAllows(asset[r], plan[r], asked[r]) \in BOOLEAN
        /\ RegoEscalates(asset[r], plan[r]) \in BOOLEAN
        /\ LocallyAllowed(asset[r], plan[r], asked[r]) \in BOOLEAN
        /\ LocallyEscalated(asset[r], plan[r]) \in BOOLEAN
    BY DEF RegoAllows, RegoEscalates, LocallyAllowed, LocallyEscalated
  <2>4. CASE PolicyUnreachable(r)
    BY <1>8, <2>2, <2>3, <2>4 DEF PolicyUnreachable
  <2>5. CASE PolicyAnswers(r) /\ policyLoaded
    BY <1>8, <2>2, <2>3, <2>5 DEF PolicyAnswers
  <2>6. CASE PolicyAnswers(r) /\ ~policyLoaded
    BY <1>8, <2>6 DEF PolicyAnswers
  <2> QED
    BY <1>9, <2>4, <2>5, <2>6
<1>10. ASSUME NEW r \in Request, Store(r) PROVE Judged'
  BY <1>0, <1>10 DEF Store, Goes, Closes, Unplanned, TypeOK, Judged
<1>11. ASSUME NEW r \in Request, CommitRaises(r) PROVE Judged'
  BY <1>4, <1>11 DEF CommitRaises
<1>12. CASE Crash
  BY <1>0, <1>12 DEF Crash, Unplanned, TypeOK, Judged, Ended
<1>13. CASE Tick
  <2>1. \A q \in Request : window[q] \subseteq window'[q]
    BY <1>0, <1>13 DEF Tick, TypeOK
  <2> QED
    BY <1>0, <1>13, <2>1 DEF Tick, Judged
<1>14. CASE UNCHANGED vars
  BY <1>0, <1>14 DEF vars, Judged
<1> QED
  BY <1>1, <1>2, <1>5, <1>6, <1>7, <1>9, <1>10, <1>11, <1>12, <1>13, <1>14 DEF Next, Step

(* A request whose plan is stored is over (generate_plan).                 *)
LEMMA NextStored == IInv /\ [Next]_vars => Stored'
<1> SUFFICES ASSUME IInv, [Next]_vars, NEW n \in plans' PROVE stage'[n.request] = "done"
  BY DEF Stored
<1>0. TypeOK /\ Stored
  BY DEF IInv
<1>1. CASE n \in plans
  <2>1. n.request \in Request /\ stage[n.request] = "done"
    BY <1>0, <1>1 DEF TypeOK, Stored, Intake!Entry
  <2>2. ASSUME NEW r \in Request, NEW s, stage[r] # "done", Goes(r, s) PROVE stage'[n.request] = "done"
    BY <1>0, <2>1, <2>2 DEF Goes, TypeOK
  <2>3. ASSUME NEW r \in Request, NEW p, NEW who, stage[r] # "done", Judge(r, p, who)
        PROVE  stage'[n.request] = "done"
    BY <2>2, <2>3 DEF Judge
  <2>4. ASSUME NEW r \in Request, Plans(r) PROVE stage'[n.request] = "done"
    BY <2>1, <2>2, <2>3, <2>4 DEF Plans, PlanMock, PlanOpenAI, ProviderAnswers, FallBack, OpenAIRaises,
       ProviderFails, ChainRaises, Raises, Calling, Exhausted
  <2>5. ASSUME NEW r \in Request, (\E a \in Asset : Arrive(r, a)) \/ Refuse(r)
        PROVE  stage'[n.request] = "done"
    BY <2>2, <2>5 DEF Arrive, Refuse
  <2>6. ASSUME NEW r \in Request, RecordActivity(r) \/ AskPolicy(r) \/ PolicyAnswers(r)
                 \/ PolicyUnreachable(r) \/ Store(r) \/ CommitRaises(r)
        PROVE  stage'[n.request] = "done"
    BY <2>2, <2>6 DEF RecordActivity, AskPolicy, PolicyAnswers, PolicyUnreachable, Decided, Store,
       CommitRaises, Raises
  <2>7. CASE Crash
    BY <2>1, <2>7 DEF Crash, Ended
  <2>8. CASE Tick \/ UNCHANGED vars
    BY <2>1, <2>8 DEF Tick, vars
  <2> QED
    BY <2>4, <2>5, <2>6, <2>7, <2>8 DEF Next, Step
<1>2. CASE n \notin plans
  <2>1. PICK r \in Request : Store(r)
    BY <1>2 DEF Next, Step, Plans, Arrive, Refuse, PlanMock, PlanOpenAI, ProviderAnswers, FallBack,
       OpenAIRaises, ProviderFails, ChainRaises, Raises, Judge, RecordActivity, AskPolicy, PolicyAnswers,
       PolicyUnreachable, Decided, CommitRaises, Crash, Tick, vars
  <2> QED
    BY <1>0, <1>2, <2>1 DEF Store, Goes, TypeOK
<1> QED
  BY <1>1, <1>2

----------------------------------------------------------------------------
(* The invariant holds before the first request (generate_plan).           *)
LEMMA InitIInv == Init => IInv
<1> SUFFICES ASSUME Init PROVE IInv
  OBVIOUS
<1> USE GenerationAssumption
<1>1. (CHOOSE a \in Asset : TRUE) \in Asset /\ (CHOOSE p \in Plan : TRUE) \in Plan
  OBVIOUS
<1>2. TypeOK
  BY <1>1 DEF Init, Intake!Init, TypeOK, Planner, Ended, Nobody, FallbackBuilder, Verdict
<1>3. Underway /\ Passed /\ Judged /\ Stored
  BY DEF Init, Intake!Init, Underway, Passed, Judged, Stored, Ended
<1>4. Turns
  <2> SUFFICES ASSUME NEW r \in Request
               PROVE  /\ author[r] <= attempt[r].provider
                      /\ \A p \in 1..Providers :
                           /\ p < attempt[r].provider => failed[r][p] = MaxRetries
                           /\ p = attempt[r].provider => failed[r][p] = attempt[r].tried
                           /\ p > attempt[r].provider => failed[r][p] = 0
    BY DEF Turns
  <2>1. attempt[r] = [provider |-> 1, tried |-> 0] /\ author[r] = 0
    BY DEF Init, Nobody
  <2>2. \A p \in 1..Providers : failed[r][p] = 0
    BY DEF Init
  <2> QED
    BY <2>1, <2>2
<1> QED
  BY <1>2, <1>3, <1>4 DEF IInv

(* Every reachable state satisfies the invariant (generate_plan).          *)
THEOREM Invariance == Spec => []IInv
<1>1. IInv /\ [Next]_vars => IInv'
  BY NextTypeOK, NextUnderway, NextPassed, NextTurns, NextJudged, NextStored DEF IInv
<1> QED
  BY InitIInv, <1>1, PTL DEF Spec

(* Requests, plans and their stages keep their types (generate_plan).      *)
THEOREM TypeCorrect == Spec => []TypeOK
<1>1. IInv => TypeOK
  BY DEF IInv
<1> QED
  BY Invariance, <1>1, PTL

(* Every plan that is stored, or that the policy was asked about, has its  *)
(* row of telemetry, and none that the firewall refused has one            *)
(* (record_ai_activity in generate_plan).                                  *)
THEOREM PlansLogged == Spec => []PlansAreLogged
<1>1. IInv => PlansAreLogged
  BY DEF IInv, TypeOK, Stored, Passed, PlansAreLogged, Intake!Entry
<1> QED
  BY Invariance, <1>1, PTL

(* No provider is asked, and no plan is built without one, before every    *)
(* provider ahead of it has failed MaxRetries times                        *)
(* (MultiProviderPlanner.generate_remediation_plan).                       *)
THEOREM ProvidersTakeTurns == Spec => []FallbackIsLastResort
<1>1. IInv => FallbackIsLastResort
  <2> SUFFICES ASSUME IInv, NEW r \in Request, NEW p \in 1..Providers, p < Turn(r)
               PROVE  failed[r][p] = MaxRetries
    BY DEF FallbackIsLastResort
  <2>1. p < attempt[r].provider
    BY GenerationAssumption DEF IInv, TypeOK, Turns, Turn, Nobody, FallbackBuilder
  <2> QED
    BY <2>1 DEF IInv, Turns
<1> QED
  BY Invariance, <1>1, PTL

----------------------------------------------------------------------------
(* A plan the firewall lets pass is sound: when at most 5 % of its actions *)
(* have drifted, and it has some (CognitiveAIFirewall.validate_plan).      *)
LEMMA FirewallIsSound ==
  ASSUME NEW p \in Plan, Firewall(p)
  PROVE  Intake!Sound(p)
<1>1. p.known \in Nat /\ p.drifted \in Nat /\ p.other \in Nat
  BY GenerationAssumption
<1> QED
  BY <1>1 DEF Firewall, ValidateSchema, Plausible, Intake!Sound, Intake!Size

(* What is stored is new, sound, and has the status the policy gave it at  *)
(* one of the hours of its request (generate_plan).                        *)
LEMMA StoreAccepts ==
  ASSUME IInv, NEW r \in Request, Store(r)
  PROVE  \E n \in Intake!Entry : Intake!Accept(n)
<1> DEFINE n == [request |-> r, asset |-> asset[r], plan |-> plan[r],
                 status |-> IF verdict[r].allowed THEN "PENDING_APPROVAL" ELSE "REJECTED_BY_POLICY",
                 escalate |-> verdict[r].escalate]
<1>1. /\ stage[r] = "store" /\ window[r] # {} /\ asked[r] \in window[r]
      /\ asset[r] \in Asset /\ plan[r] \in Plan /\ verdict[r].escalate \in BOOLEAN
  BY DEF Store, IInv, TypeOK, Underway, Judged, Ended, Verdict
<1>2. n \in Intake!Entry
  BY <1>1 DEF Intake!Entry
<1>3. \A o \in plans : o.request # n.request
  BY <1>1 DEF IInv, Stored
<1>4. Intake!Sound(n.plan)
  BY <1>1, FirewallIsSound DEF IInv, Passed
<1>5. Intake!Obeys(n, window[n.request])
  BY <1>1 DEF IInv, Judged, Intake!Obeys
<1>6. /\ plans' = plans \cup {n} /\ window' = [window EXCEPT ![n.request] = {}]
      /\ UNCHANGED <<hour, policyLoaded>>
  BY DEF Store, Closes, Unplanned
<1>7. Intake!Accept(n)
  BY <1>1, <1>3, <1>4, <1>5, <1>6 DEF Intake!Accept
<1> QED
  BY <1>2, <1>7

(* Every step of a request is one of PlanIntake, or changes nothing that   *)
(* PlanIntake speaks of (generate_plan).                                   *)
LEMMA StepRefines == IInv /\ [Next]_vars => [Intake!Next]_(Intake!intakeVars)
<1> SUFFICES ASSUME IInv, [Next]_vars PROVE [Intake!Next]_(Intake!intakeVars)
  OBVIOUS
<1>0. window \in [Request -> SUBSET (0..23)]
  BY DEF IInv, TypeOK
<1>1. ASSUME NEW r \in Request, NEW a \in Asset, Arrive(r, a) PROVE Intake!Next
  <2>1. window[r] = {}
    BY <1>1 DEF Arrive, IInv, Underway, Ended
  <2> QED
    BY <1>1, <2>1 DEF Arrive, Intake!Next, Intake!Arrive
<1>2. ASSUME UNCHANGED <<plans, hour, window, policyLoaded>> PROVE [Intake!Next]_(Intake!intakeVars)
  BY <1>2 DEF Intake!intakeVars
<1>3. ASSUME NEW r \in Request, Closes(r), UNCHANGED <<plans, hour, policyLoaded>> PROVE Intake!Next
  <2>1. window' = [q \in Request |-> IF q \in {r} THEN {} ELSE window[q]]
    BY <1>0, <1>3 DEF Closes
  <2>2. Intake!Drop({r})
    BY <1>3, <2>1 DEF Intake!Drop
  <2> QED
    BY <2>2 DEF Intake!Next
<1>4. ASSUME NEW r \in Request, Plans(r) PROVE [Intake!Next]_(Intake!intakeVars)
  BY <1>2, <1>3, <1>4 DEF Plans, PlanMock, PlanOpenAI, ProviderAnswers, FallBack, OpenAIRaises,
     ProviderFails, ChainRaises, Judge, Raises, Unplanned
<1>5. ASSUME NEW r \in Request, Refuse(r) \/ RecordActivity(r) \/ AskPolicy(r) \/ PolicyAnswers(r)
                                  \/ PolicyUnreachable(r)
      PROVE  [Intake!Next]_(Intake!intakeVars)
  BY <1>2, <1>5 DEF Refuse, RecordActivity, AskPolicy, PolicyAnswers, PolicyUnreachable, Decided, Unplanned
<1>6. ASSUME NEW r \in Request, Store(r) PROVE Intake!Next
  BY <1>6, StoreAccepts DEF Intake!Next
<1>7. ASSUME NEW r \in Request, CommitRaises(r) PROVE Intake!Next
  BY <1>3, <1>7 DEF CommitRaises, Raises, Unplanned
<1>8. CASE Crash
  <2>1. Intake!Drop(Request)
    BY <1>8 DEF Crash, Unplanned, Intake!Drop
  <2> QED
    BY <2>1 DEF Intake!Next
<1>9. CASE Tick
  BY <1>9 DEF Tick, Intake!Next, Intake!Tick
<1>10. CASE UNCHANGED vars
  BY <1>2, <1>10 DEF vars
<1> QED
  BY <1>1, <1>4, <1>5, <1>6, <1>7, <1>8, <1>9, <1>10 DEF Next, Step

(* Generating plans keeps what PlanIntake promises: whatever was planned,  *)
(* by whom, and however the policy was asked, what is stored is sound, of  *)
(* its own request, and decided by an hour of it (generate_plan).          *)
THEOREM GenerationRefines == Spec => ImplementsPlanIntake
<1>1. Init => Intake!Init
  BY DEF Init
<1> QED
  BY Invariance, <1>1, StepRefines, PTL DEF Spec, ImplementsPlanIntake, Intake!Spec

----------------------------------------------------------------------------
(* What PlanIntake comes to: of no request two plans are stored, and every *)
(* stored plan is sound and has its status from the policy at some hour.   *)
Kept ==
  /\ \A n, o \in plans : n.request = o.request => n = o
  /\ \A n \in plans : Intake!Sound(n.plan) /\ Intake!Obeys(n, 0..23)

IntakeInv ==
  /\ plans \subseteq Intake!Entry
  /\ hour \in 0..23
  /\ window \in [Request -> SUBSET (0..23)]
  /\ Kept

(* A plan that obeys the policy at one of some hours obeys it at one of    *)
(* more of them (OPAPolicyClient).                                         *)
LEMMA ObeysMore ==
  ASSUME NEW n, NEW A, NEW B, A \subseteq B, Intake!Obeys(n, A)
  PROVE  Intake!Obeys(n, B)
BY DEF Intake!Obeys

(* Every step of PlanIntake keeps what it comes to (generate_plan).        *)
LEMMA IntakeStep == IntakeInv /\ [Intake!Next]_(Intake!intakeVars) => IntakeInv'
<1> SUFFICES ASSUME IntakeInv, [Intake!Next]_(Intake!intakeVars) PROVE IntakeInv'
  OBVIOUS
<1>0. /\ plans \subseteq Intake!Entry /\ hour \in 0..23 /\ Kept
      /\ window \in [Request -> SUBSET (0..23)]
  BY DEF IntakeInv
<1>1. ASSUME plans' = plans, policyLoaded' = policyLoaded PROVE Kept'
  BY <1>0, <1>1 DEF Kept, Intake!Obeys
<1>2. ASSUME NEW r \in Request, Intake!Arrive(r) PROVE IntakeInv'
  BY <1>0, <1>1, <1>2 DEF Intake!Arrive, IntakeInv
<1>3. CASE Intake!Tick
  <2>1. hour' \in 0..23 /\ window' \in [Request -> SUBSET (0..23)]
    BY <1>0, <1>3 DEF Intake!Tick
  <2> QED
    BY <1>0, <1>1, <1>3, <2>1 DEF Intake!Tick, IntakeInv
<1>4. ASSUME NEW n \in Intake!Entry, Intake!Accept(n) PROVE IntakeInv'
  <2>1. /\ plans' = plans \cup {n} /\ n.request \in Request /\ window[n.request] \subseteq 0..23
        /\ window' = [window EXCEPT ![n.request] = {}] /\ UNCHANGED <<hour, policyLoaded>>
        /\ \A o \in plans : o.request # n.request
    BY <1>0, <1>4 DEF Intake!Accept, Intake!Entry
  <2>2. Intake!Sound(n.plan) /\ Intake!Obeys(n, 0..23)
    BY <1>4, <2>1, ObeysMore DEF Intake!Accept
  <2>3. \A o \in plans' : Intake!Obeys(o, 0..23)'
    BY <1>0, <2>1, <2>2 DEF Kept, Intake!Obeys
  <2>4. Kept'
    BY <1>0, <2>1, <2>2, <2>3 DEF Kept
  <2> QED
    BY <1>0, <2>1, <2>4 DEF IntakeInv
<1>5. ASSUME NEW R \in SUBSET Request, Intake!Drop(R) PROVE IntakeInv'
  BY <1>0, <1>1, <1>5 DEF Intake!Drop, IntakeInv
<1>6. CASE UNCHANGED Intake!intakeVars
  BY <1>0, <1>1, <1>6 DEF Intake!intakeVars, IntakeInv
<1> QED
  BY <1>2, <1>3, <1>4, <1>5, <1>6 DEF Intake!Next

(* What holds of every store of plans that implements PlanIntake, for any  *)
(* requests, assets and plans (generate_plan).                             *)
THEOREM IntakeKeeps == Intake!Spec => []Kept
<1>1. Intake!Init => IntakeInv
  BY DEF Intake!Init, IntakeInv, Kept
<1>2. IntakeInv => Kept
  BY DEF IntakeInv
<1> QED
  BY <1>1, <1>2, IntakeStep, PTL DEF Intake!Spec

(* No request stores two plans, and no plan is stored that is unsound or   *)
(* waits for an approval the policy forbids at every hour                  *)
(* (CognitiveAIFirewall, OPAPolicyClient, generate_plan).                  *)
THEOREM StoredPlansAreSound == Spec => []Kept
BY IntakeKeeps, GenerationRefines, PTL DEF ImplementsPlanIntake

----------------------------------------------------------------------------
(* The attempts a request has left with the providers of the chain, and    *)
(* the steps it takes to its end besides.                                  *)
CallsLeft(r) == (Providers + 1 - attempt[r].provider) * MaxRetries - attempt[r].tried

StagesLeft ==
  [idle |-> 0, call |-> 5, record |-> 4, evaluate |-> 3, decide |-> 2, store |-> 1,
   done |-> 0, failed |-> 0]

StepsLeft(r) == StagesLeft[stage[r]] + CallsLeft(r)

(* Who is past the last provider has no attempt to count there.            *)
Spent == \A r \in Request : attempt[r].provider = Providers + 1 => attempt[r].tried = 0

StepsAreBounded == Spent /\ \A r \in Request : StepsLeft(r) \in 0..(Providers * MaxRetries + 5)

(* Each step a request takes leaves it fewer of them, and no step of the   *)
(* others, of the clock or of a dying process leaves it more               *)
(* (MultiProviderPlanner, generate_plan).                                  *)
GetsNearer ==
  \A r \in Request :
    /\ Step(r) => StepsLeft(r)' < StepsLeft(r)
    /\ stage[r] # "idle" => StepsLeft(r)' <= StepsLeft(r)

(* How many there are (MultiProviderPlanner.generate_remediation_plan).    *)
LEMMA CallsAreBounded ==
  ASSUME TypeOK, Spent, NEW r \in Request
  PROVE  CallsLeft(r) \in 0..(Providers * MaxRetries)
<1> DEFINE k == attempt[r].provider
           t == attempt[r].tried
           a == Providers + 1 - k
<1>1. /\ Providers \in Nat /\ MaxRetries \in Nat /\ MaxRetries >= 1
      /\ k \in 1..(Providers + 1) /\ t \in 0..(MaxRetries - 1)
      /\ k = Providers + 1 => t = 0
  BY GenerationAssumption DEF TypeOK, Spent
<1>2. a \in 0..Providers /\ (a = 0 => t = 0) /\ CallsLeft(r) = a * MaxRetries - t
  BY <1>1 DEF CallsLeft
<1> HIDE DEF a, t, k
<1>3. \A m, b, c \in Nat : c <= b => c * m \in 0..(b * m) /\ (c > 0 => c * m >= m)
  <2> SUFFICES ASSUME NEW m \in Nat, NEW b \in Nat, NEW c \in Nat, c <= b
               PROVE  c * m \in 0..(b * m) /\ (c > 0 => c * m >= m)
    OBVIOUS
  <2>1. c * m >= 0 /\ (b - c) * m >= 0 /\ (b - c) * m = b * m - c * m
    OBVIOUS
  <2>2. c > 0 => (c - 1) * m >= 0 /\ (c - 1) * m = c * m - m
    OBVIOUS
  <2> QED
    BY <2>1, <2>2
<1>4. a * MaxRetries \in 0..(Providers * MaxRetries) /\ (a > 0 => a * MaxRetries >= MaxRetries)
  BY <1>1, <1>2, <1>3
<1>5. PICK x \in Int : x = a * MaxRetries
  BY <1>1, <1>2
<1>6. PICK y \in Int : y = Providers * MaxRetries
  BY <1>1
<1> QED
  BY <1>1, <1>2, <1>4, <1>5, <1>6

(* The counts are integers (generate_plan).                                *)
LEMMA CountsAreIntegers ==
  /\ \A k \in 1..(Providers + 1), t \in 0..(MaxRetries - 1) :
       (Providers + 1 - k) * MaxRetries - t \in Int
  /\ \A s \in Ended \cup {"call", "record", "evaluate", "decide", "store"} : StagesLeft[s] \in 0..5
<1>1. ASSUME NEW k \in 1..(Providers + 1), NEW t \in 0..(MaxRetries - 1)
      PROVE  (Providers + 1 - k) * MaxRetries - t \in Int
  <2>1. Providers + 1 - k \in Int /\ MaxRetries \in Int /\ t \in Int
    BY GenerationAssumption
  <2>2. (Providers + 1 - k) * MaxRetries \in Int
    BY <2>1
  <2> QED
    BY <2>1, <2>2
<1>2. \A s \in Ended \cup {"call", "record", "evaluate", "decide", "store"} : StagesLeft[s] \in 0..5
  BY DEF Ended, StagesLeft
<1> QED
  BY <1>1, <1>2

(* A step of a request is counted, and nobody else's (generate_plan).      *)
LEMMA StepGetsNearer ==
  ASSUME IInv, NEW r \in Request, Step(r)
  PROVE  /\ StepsLeft(r)' < StepsLeft(r)
         /\ stage[r] \notin Ended
         /\ \A q \in Request \ {r} : stage'[q] = stage[q] /\ attempt'[q] = attempt[q]
         /\ Spent => Spent'
<1>0. TypeOK /\ Providers \in Nat /\ MaxRetries \in Nat \ {0}
  BY GenerationAssumption DEF IInv
<1>1. CallsLeft(r) \in Int
  BY <1>0 DEF CallsLeft, TypeOK
<1>2. ASSUME NEW s, Goes(r, s), UNCHANGED attempt, stage[r] \notin Ended,
             StagesLeft[s] \in Nat, StagesLeft[stage[r]] \in Nat, StagesLeft[s] < StagesLeft[stage[r]]
      PROVE  /\ StepsLeft(r)' < StepsLeft(r)
             /\ stage[r] \notin Ended
             /\ \A q \in Request \ {r} : stage'[q] = stage[q] /\ attempt'[q] = attempt[q]
             /\ Spent => Spent'
  <2>1. stage'[r] = s /\ CallsLeft(r)' = CallsLeft(r)
        /\ \A q \in Request \ {r} : stage'[q] = stage[q]
    BY <1>0, <1>2 DEF Goes, TypeOK, CallsLeft
  <2>2. StepsLeft(r)' < StepsLeft(r)
    BY <1>1, <1>2, <2>1 DEF StepsLeft
  <2> QED
    BY <1>2, <2>1, <2>2 DEF Spent
<1>3. ASSUME NEW p, NEW who, stage[r] = "call", Judge(r, p, who), UNCHANGED attempt
      PROVE  \E s \in {"record", "failed"} : Goes(r, s)
  BY <1>3 DEF Judge
<1>4. ASSUME stage[r] = "call", \E s \in {"record", "failed"} : Goes(r, s), UNCHANGED attempt
      PROVE  /\ StepsLeft(r)' < StepsLeft(r)
             /\ stage[r] \notin Ended
             /\ \A q \in Request \ {r} : stage'[q] = stage[q] /\ attempt'[q] = attempt[q]
             /\ Spent => Spent'
  BY <1>2, <1>4 DEF Ended, StagesLeft
<1>5. CASE ProviderFails(r)
  <2> DEFINE k == attempt[r].provider
             t == attempt[r].tried
  <2>1. /\ k \in 1..Providers /\ t \in 0..(MaxRetries - 1) /\ stage' = stage
        /\ stage[r] = "call"
    BY <1>0, <1>5 DEF ProviderFails, Calling, TypeOK
  <2>2. \/ attempt'[r].provider = k /\ attempt'[r].tried = t + 1
        \/ attempt'[r].provider = k + 1 /\ attempt'[r].tried = 0 /\ t + 1 = MaxRetries
    BY <1>0, <1>5, <2>1 DEF ProviderFails, TypeOK
  <2>3. \A q \in Request \ {r} : attempt'[q] = attempt[q]
    BY <1>0, <1>5 DEF ProviderFails, TypeOK
  <2>4. CallsLeft(r)' = CallsLeft(r) - 1
    <3>1. CASE attempt'[r].provider = k /\ attempt'[r].tried = t + 1
      BY <1>0, <2>1, <3>1 DEF CallsLeft
    <3>2. CASE attempt'[r].provider = k + 1 /\ attempt'[r].tried = 0 /\ t + 1 = MaxRetries
      <4>1. (Providers + 1 - (k + 1)) * MaxRetries = (Providers + 1 - k) * MaxRetries - MaxRetries
        BY <1>0, <2>1
      <4>2. CallsLeft(r)' = (Providers + 1 - (k + 1)) * MaxRetries - 0
        BY <3>2 DEF CallsLeft
      <4>3. CallsLeft(r) = (Providers + 1 - k) * MaxRetries - t
        BY DEF CallsLeft
      <4> QED
        BY <1>0, <2>1, <3>2, <4>1, <4>2, <4>3
    <3> QED
      BY <2>2, <3>1, <3>2
  <2>5. StepsLeft(r)' < StepsLeft(r)
    BY <1>1, <2>1, <2>4 DEF StepsLeft, StagesLeft
  <2>6. Spent => Spent'
    BY <1>0, <2>1, <2>2, <2>3 DEF Spent
  <2> QED
    BY <2>1, <2>3, <2>5, <2>6 DEF Ended
<1>6. CASE \E p \in Plan : PlanMock(r, p) \/ PlanOpenAI(r, p) \/ ProviderAnswers(r, p) \/ FallBack(r, p)
  BY <1>3, <1>4, <1>6 DEF PlanMock, PlanOpenAI, ProviderAnswers, FallBack, Calling, Exhausted
<1>7. CASE OpenAIRaises(r) \/ ChainRaises(r)
  BY <1>4, <1>7 DEF OpenAIRaises, ChainRaises, Raises, Exhausted
<1>8. CASE RecordActivity(r) \/ AskPolicy(r) \/ PolicyAnswers(r) \/ PolicyUnreachable(r)
             \/ Store(r) \/ CommitRaises(r)
  BY <1>2, <1>8 DEF RecordActivity, AskPolicy, PolicyAnswers, PolicyUnreachable, Decided, Store,
     CommitRaises, Raises, Ended, StagesLeft
<1> QED
  BY <1>5, <1>6, <1>7, <1>8 DEF Step, Plans

(* Every step is counted right, and the count stays in its bounds          *)
(* (generate_plan).                                                        *)
LEMMA NextGetsNearer ==
  IInv /\ StepsAreBounded /\ [Next]_vars => GetsNearer /\ Spent'
<1> SUFFICES ASSUME IInv, Spent, [Next]_vars PROVE GetsNearer /\ Spent'
  BY DEF StepsAreBounded
<1>0. TypeOK
  BY DEF IInv
<1>1. \A r \in Request : StagesLeft[stage[r]] \in 0..5 /\ CallsLeft(r) \in Int
  BY <1>0, CountsAreIntegers DEF TypeOK, CallsLeft
<1>2. \A r \in Request : Step(r) => StepsLeft(r)' < StepsLeft(r)
  BY StepGetsNearer
<1>3. ASSUME NEW r \in Request, stage'[r] = stage[r], attempt'[r] = attempt[r]
      PROVE  StepsLeft(r)' = StepsLeft(r) /\ StepsLeft(r) \in Int
  BY <1>1, <1>3 DEF StepsLeft, CallsLeft
<1>4. ASSUME NEW q \in Request, Step(q) PROVE GetsNearer /\ Spent'
  <2>1. ASSUME NEW r \in Request PROVE StepsLeft(r)' <= StepsLeft(r)
    <3>1. CASE r = q
      <4>1. StepsLeft(r)' < StepsLeft(r)
        BY <1>4, <3>1, StepGetsNearer
      <4>2. StepsLeft(r) \in Int /\ StepsLeft(r)' \in Int
        <5>1. IInv'
          BY NextTypeOK, NextUnderway, NextPassed, NextTurns, NextJudged, NextStored DEF IInv
        <5>2. StagesLeft[stage'[r]] \in 0..5 /\ CallsLeft(r)' \in Int
          BY <5>1, CountsAreIntegers DEF IInv, TypeOK, CallsLeft
        <5> QED
          BY <1>1, <5>2 DEF StepsLeft
      <4> QED
        BY <4>1, <4>2
    <3>2. CASE r # q
      BY <1>3, <1>4, <3>2, StepGetsNearer
    <3> QED
      BY <3>1, <3>2
  <2> QED
    BY <1>2, <1>4, <2>1, StepGetsNearer DEF GetsNearer
<1>5. ASSUME UNCHANGED attempt,
             \A r \in Request : stage[r] = "idle" \/ stage'[r] = stage[r] \/ stage'[r] = "failed"
      PROVE  GetsNearer /\ Spent'
  <2>1. ASSUME NEW r \in Request, stage'[r] = "failed" PROVE StepsLeft(r)' <= StepsLeft(r)
    BY <1>1, <1>5, <2>1 DEF StepsLeft, StagesLeft, CallsLeft
  <2>2. ASSUME NEW r \in Request, stage[r] # "idle" PROVE StepsLeft(r)' <= StepsLeft(r)
    BY <1>3, <1>5, <2>1, <2>2
  <2> QED
    BY <1>2, <1>5, <2>2 DEF GetsNearer, Spent
<1>6. ASSUME NEW r \in Request, (\E a \in Asset : Arrive(r, a)) \/ Refuse(r) PROVE GetsNearer /\ Spent'
  BY <1>0, <1>5, <1>6 DEF Arrive, Refuse, Goes, TypeOK
<1>7. CASE Crash \/ Tick \/ UNCHANGED vars
  BY <1>0, <1>5, <1>7 DEF Crash, Tick, vars, TypeOK
<1> QED
  BY <1>4, <1>6, <1>7 DEF Next

(* A request ends after Providers * MaxRetries + 5 of its own steps at     *)
(* most, whatever providers, policy server, clock and other requests do.   *)
(* This is what its liveness rests on, besides fairness                    *)
(* (MultiProviderPlanner, generate_plan).                                  *)
THEOREM RequestsRunDown == Spec => []StepsAreBounded /\ [][GetsNearer]_vars
<1>1. TypeOK /\ Spent => StepsAreBounded
  <2> SUFFICES ASSUME TypeOK, Spent, NEW r \in Request
               PROVE  StepsLeft(r) \in 0..(Providers * MaxRetries + 5)
    BY DEF StepsAreBounded
  <2>1. StagesLeft[stage[r]] \in 0..5
    BY CountsAreIntegers DEF TypeOK
  <2>2. CallsLeft(r) \in 0..(Providers * MaxRetries)
    BY CallsAreBounded
  <2>3. PICK y \in Int : y = Providers * MaxRetries
    BY GenerationAssumption
  <2> QED
    BY <2>1, <2>2, <2>3 DEF StepsLeft
<1>2. Init => Spent
  BY DEF Init, Spent
<1>3. IInv => TypeOK
  BY DEF IInv
<1>4. IInv /\ Spent /\ [Next]_vars => Spent' /\ [GetsNearer]_vars
  BY <1>1, <1>3, NextGetsNearer
<1> QED
  BY <1>1, <1>2, <1>3, <1>4, Invariance, PTL DEF Spec
=============================================================================
