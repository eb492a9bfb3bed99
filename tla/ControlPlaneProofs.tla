------------------------- MODULE ControlPlaneProofs -------------------------
(***************************************************************************)
(* Proofs about the smaller parts of the control plane: the cached catalog *)
(* (KevFeed), notifications and tickets (Outbound), the rollout (Rollout)  *)
(* and the decisions by card (ApprovalChannel).  Each part has its         *)
(* invariant and its theorems; for any users, names, callers, hosts and    *)
(* buttons.                                                                *)
(***************************************************************************)
EXTENDS ApprovalChannel, Rollout, Outbound, KevFeed, FiniteSetTheorems, TLAPS

----------------------------------------------------------------------------
(* An empty set of CVEs is what a failed fetch leaves behind.              *)
FeedInv ==
  /\ FeedTypeOK /\ SetIsThatOfCatalog /\ DenialsAreExcused
  /\ cveSet = {} => failures

(* One more answer that is right, or excused, is no harm (KevFeed).        *)
LEMMA TellOne ==
  ASSUME FeedInv, NEW what \in {"known", "detail"}, NEW cve \in Cve,
         NEW yes \in BOOLEAN, NEW excused \in BOOLEAN,
         told' = told \cup {[of |-> what, cve |-> cve, yes |-> yes, excused |-> excused]},
         IF yes THEN cve \in Listed ELSE cve \in Listed => excused
  PROVE  /\ told' \subseteq [of : {"known", "detail"}, cve : Cve, yes : BOOLEAN, excused : BOOLEAN]
         /\ DenialsAreExcused'
<1> DEFINE t == [of |-> what, cve |-> cve, yes |-> yes, excused |-> excused]
<1>1. t \in [of : {"known", "detail"}, cve : Cve, yes : BOOLEAN, excused : BOOLEAN]
  BY Zenon
<1>2. told \subseteq [of : {"known", "detail"}, cve : Cve, yes : BOOLEAN, excused : BOOLEAN]
  BY DEF FeedInv, FeedTypeOK
<1>3. t.yes = yes /\ t.cve = cve /\ t.excused = excused
  BY Zenon
<1>4. IF t.yes THEN t.cve \in Listed ELSE t.cve \in Listed => t.excused
  BY <1>3, Zenon
<1> HIDE DEF t
<1>5. told' = told \cup {t}
  BY DEF t
<1>6. \A o \in told : IF o.yes THEN o.cve \in Listed ELSE o.cve \in Listed => o.excused
  BY DEF FeedInv, DenialsAreExcused
<1>7. \A o \in told' : IF o.yes THEN o.cve \in Listed ELSE o.cve \in Listed => o.excused
  BY <1>4, <1>5, <1>6
<1> QED
  BY <1>1, <1>2, <1>5, <1>7 DEF DenialsAreExcused

(* Asking a feed that holds a set keeps the invariant, and so does an      *)
(* answer after a fetch (CISAKEVFeed.is_known_exploited, get_kev_detail).  *)
LEMMA FeedStep == FeedInv /\ [FeedNext]_feedVars => FeedInv'
<1> SUFFICES ASSUME FeedInv, [FeedNext]_feedVars PROVE FeedInv'
  OBVIOUS
<1> USE FeedAssumption
<1>0. FeedTypeOK /\ SetIsThatOfCatalog /\ DenialsAreExcused /\ (cveSet = {} => failures)
  BY DEF FeedInv
<1>u. Unset # {} /\ Unset # Listed /\ \A cve \in Cve : cve \notin Unset
  BY DEF Unset
<1>1. ASSUME NEW u \in User, NEW what \in {"known", "detail"}, NEW cve \in Cve, AskCached(u, what, cve)
      PROVE  FeedInv'
  <2>1. /\ UNCHANGED <<catalog, cveSet, scored, user, failures>>
        /\ Tell(what, cve, cve \in Holds(what), failures)
    BY <1>1 DEF AskCached
  <2>2. PICK yes \in BOOLEAN : yes <=> (cve \in Holds(what))
    BY Zenon
  <2>3. told' = told \cup {[of |-> what, cve |-> cve, yes |-> yes, excused |-> failures]}
    BY <2>1, <2>2, Zenon DEF Tell
  <2>4. IF yes THEN cve \in Listed ELSE cve \in Listed => failures
    BY <1>0, <1>1, <2>2 DEF FeedTypeOK, SetIsThatOfCatalog, AskCached, Holds
  <2>5. failures \in BOOLEAN
    BY <1>0 DEF FeedTypeOK
  <2>6. /\ told' \subseteq [of : {"known", "detail"}, cve : Cve, yes : BOOLEAN, excused : BOOLEAN]
        /\ DenialsAreExcused'
    BY <2>3, <2>4, <2>5, TellOne
  <2>7. FeedTypeOK'
    BY <1>0, <2>1, <2>6 DEF FeedTypeOK
  <2>8. SetIsThatOfCatalog' /\ (cveSet = {} => failures)'
    BY <1>0, <2>1 DEF SetIsThatOfCatalog
  <2> QED
    BY <2>6, <2>7, <2>8 DEF FeedInv
<1>2. ASSUME NEW u \in User, NEW w \in Waiting, user' = [user EXCEPT ![u] = w],
             UNCHANGED <<catalog, cveSet, told, failures>>, scored' \subseteq Cve
      PROVE  FeedInv'
  BY <1>0, <1>2 DEF FeedInv, FeedTypeOK, SetIsThatOfCatalog, DenialsAreExcused
<1>3. ASSUME NEW u \in User, Fetching(u), Resume(u),
             \/ catalog' = Listed /\ cveSet' = Listed /\ failures' = failures
             \/ failures' = TRUE /\ UNCHANGED <<catalog, cveSet>>
             \/ failures' = TRUE /\ catalog' = {} /\ cveSet' = {}
      PROVE  FeedInv'
  <2>1. user' \in [User -> Waiting]
    BY <1>0, <1>3 DEF Resume, FeedTypeOK, Waiting
  <2>2. SetIsThatOfCatalog' /\ (cveSet = {} => failures)'
    BY <1>0, <1>3, <1>u DEF SetIsThatOfCatalog
  <2>3. failures' \in BOOLEAN
    BY <1>0, <1>3 DEF FeedTypeOK
  <2>4. /\ told' \subseteq [of : {"known", "detail"}, cve : Cve, yes : BOOLEAN, excused : BOOLEAN]
        /\ DenialsAreExcused'
    <3>1. CASE user[u].wants = "catalog"
      BY <1>0, <1>3, <3>1 DEF Resume, FeedTypeOK, DenialsAreExcused
    <3>2. CASE user[u].wants \in {"known", "detail"}
      <4>1. user[u].cve \in Cve
        BY <1>0, <3>2 DEF FeedTypeOK, Waiting, Idle
      <4>2. PICK yes \in BOOLEAN : yes <=> (user[u].cve \in HoldsNext(user[u].wants))
        BY Zenon
      <4>3. PICK excused \in BOOLEAN : excused = failures'
        BY <2>3
      <4>4. Tell(user[u].wants, user[u].cve, user[u].cve \in HoldsNext(user[u].wants), failures')
        BY <1>3, <3>2 DEF Resume
      <4>5. told' = told \cup {[of |-> user[u].wants, cve |-> user[u].cve, yes |-> yes, excused |-> excused]}
        BY <4>2, <4>3, <4>4, Zenon DEF Tell
      <4>6. HoldsNext(user[u].wants) \in {Unset, {}, Listed} /\ (~failures' => HoldsNext(user[u].wants) = Listed)
        <5>1. HoldsNext(user[u].wants) \in {cveSet', catalog'}
          BY DEF HoldsNext
        <5>2. /\ cveSet' \in {Unset, {}, Listed} /\ catalog' \in {Unset, {}, Listed}
              /\ ~failures' => cveSet' = Listed /\ catalog' = Listed
          BY <1>0, <1>3 DEF FeedTypeOK
        <5> QED
          BY <5>1, <5>2
      <4>7. IF yes THEN user[u].cve \in Listed ELSE user[u].cve \in Listed => excused
        BY <1>u, <4>1, <4>2, <4>3, <4>6
      <4> QED
        BY <3>2, <4>1, <4>5, <4>7, TellOne
    <3> QED
      BY <1>3, <3>1, <3>2 DEF Fetching
  <2>5. FeedTypeOK'
    BY <1>0, <1>3, <2>1, <2>3, <2>4 DEF Resume, FeedTypeOK
  <2> QED
    BY <2>2, <2>4, <2>5 DEF FeedInv
<1>4. ASSUME NEW u \in User, NEW what \in {"known", "detail"}, NEW cve \in Cve, Ask(u, what, cve)
      PROVE  FeedInv'
  BY <1>0, <1>2, <1>4 DEF Ask, Waiting, FeedTypeOK
<1>5. ASSUME NEW u \in User, Fetch(u) PROVE FeedInv'
  BY <1>0, <1>2, <1>5 DEF Fetch, Waiting, FeedTypeOK
<1>6. ASSUME NEW u \in User, Fetched(u) \/ FetchRefused(u) \/ FetchRaises(u) PROVE FeedInv'
  BY <1>3, <1>6 DEF Fetched, FetchRefused, FetchRaises
<1>7. ASSUME NEW u \in User, NEW cve \in Cve, AskScore(u, cve) PROVE FeedInv'
  BY <1>0, <1>2, <1>7 DEF AskScore, Waiting, FeedTypeOK
<1>8. ASSUME NEW u \in User, Scored(u) PROVE FeedInv'
  <2>1. user[u].cve \in Cve
    BY <1>0, <1>8 DEF Scored, FeedTypeOK, Waiting, Idle
  <2> QED
    BY <1>0, <1>2, <1>8, <2>1 DEF Scored, Waiting, FeedTypeOK
<1>9. CASE UNCHANGED feedVars
  BY <1>0, <1>9 DEF feedVars, FeedInv, FeedTypeOK, SetIsThatOfCatalog, DenialsAreExcused
<1> QED
  BY <1>1, <1>4, <1>5, <1>6, <1>7, <1>8, <1>9 DEF FeedNext

(* The catalog, the set and the answers keep their types (CISAKEVFeed,     *)
(* EPSSFeed).                                                              *)
THEOREM FeedInvariance == FeedSpec => []FeedInv
<1>1. FeedInit => FeedInv
  BY DEF FeedInit, FeedInv, FeedTypeOK, Waiting, Unset, SetIsThatOfCatalog, DenialsAreExcused
<1> QED
  BY <1>1, FeedStep, PTL DEF FeedSpec

(* The two questions a feed answers never disagree                         *)
(* (CISAKEVFeed.fetch_catalog).                                            *)
THEOREM FeedAgrees == FeedSpec => []SetIsThatOfCatalog
<1>1. FeedInv => SetIsThatOfCatalog
  BY DEF FeedInv
<1> QED
  BY FeedInvariance, <1>1, PTL

(* A listed CVE is denied only after a fetch failed, whoever else fetches  *)
(* meanwhile (CISAKEVFeed.is_known_exploited, get_kev_detail).             *)
THEOREM FeedDenies == FeedSpec => []DenialsAreExcused
<1>1. FeedInv => DenialsAreExcused
  BY DEF FeedInv
<1> QED
  BY FeedInvariance, <1>1, PTL

(* Nobody fetches a catalog that is loaded, so that one which is loaded    *)
(* while nobody fetches stays (CISAKEVFeed.fetch_catalog).                 *)
Settled == catalog = Listed /\ (\A u \in User : ~Fetching(u))

LEMMA SettledStep == FeedInv /\ Settled /\ [FeedNext]_feedVars => Settled'
<1> SUFFICES ASSUME FeedInv, Settled, [FeedNext]_feedVars PROVE Settled'
  OBVIOUS
<1>0. cveSet # Unset /\ catalog # {} /\ user \in [User -> Waiting]
  BY FeedAssumption DEF Settled, FeedInv, FeedTypeOK, SetIsThatOfCatalog, Unset
<1>1. ASSUME NEW u \in User, NEW w \in Waiting, user' = [user EXCEPT ![u] = w],
             w.wants \notin {"catalog", "known", "detail"}, UNCHANGED catalog
      PROVE  Settled'
  BY <1>0, <1>1 DEF Settled, Fetching
<1>2. ASSUME NEW u \in User, NEW what \in {"known", "detail"}, NEW cve \in Cve,
             AskCached(u, what, cve) \/ Ask(u, what, cve)
      PROVE  Settled'
  BY <1>0, <1>2 DEF AskCached, Ask, Settled, Fetching
<1>3. ASSUME NEW u \in User, Fetch(u) \/ Fetched(u) \/ FetchRefused(u) \/ FetchRaises(u)
      PROVE  Settled'
  BY <1>0, <1>3 DEF Fetch, Fetched, FetchRefused, FetchRaises, Settled
<1>4. ASSUME NEW u \in User, NEW cve \in Cve, AskScore(u, cve) PROVE Settled'
  BY <1>1, <1>4 DEF AskScore, Waiting
<1>5. ASSUME NEW u \in User, Scored(u) PROVE Settled'
  BY <1>1, <1>5 DEF Scored, Waiting, Idle
<1>6. CASE UNCHANGED feedVars
  BY <1>6 DEF feedVars, Settled, Fetching
<1> QED
  BY <1>2, <1>3, <1>4, <1>5, <1>6 DEF FeedNext

(* A catalog that is loaded when no fetch is under way is never emptied    *)
(* (CISAKEVFeed.fetch_catalog).                                            *)
THEOREM FeedStaysLoaded == FeedSpec => LoadedStaysLoaded
<1>1. Settled => catalog = Listed
  BY DEF Settled
<1>2. [][FeedNext]_feedVars /\ []FeedInv => [](Settled => []Settled)
  BY SettledStep, PTL
<1>3. FeedSpec => [](Settled => [](catalog = Listed))
  BY <1>1, <1>2, FeedInvariance, PTL DEF FeedSpec
<1> QED
  BY <1>3 DEF LoadedStaysLoaded, Settled

----------------------------------------------------------------------------
(* What a call of notify has done: each target is still to do, being sent  *)
(* to, or has a result, and what succeeded has arrived.                    *)
Tried(c, call, sent) ==
  /\ call.asked = call.todo \cup DOMAIN call.results \cup (IF call.at = None THEN {} ELSE {call.at})
  /\ call.at # None => call.to # None
  /\ \A n \in DOMAIN call.results : call.results[n] => \E url \in Url : <<c, n, url>> \in sent

Recorded == rows \subseteq tickets /\ syncs \subseteq tickets /\ IsFiniteSet(tickets)

OutboundInv ==
  /\ OutboundTypeOK /\ ChannelsFollowConfigs /\ Recorded
  /\ \A c \in Caller : Tried(c, calls[c], delivered)

(* A step of the loop of notify that leaves the call in order keeps the    *)
(* others so (NotificationService.notify).                                 *)
LEMMA CallStep ==
  ASSUME OutboundInv, NEW c \in Caller, NEW call \in CallOfNotify,
         calls' = [calls EXCEPT ![c] = call], delivered' \subseteq Caller \X Name \X Url,
         \A d \in delivered : d[1] # c => d \in delivered',
         Tried(c, call, delivered'),
         UNCHANGED <<configs, channels, syncs, tickets, rows, restarts>>
  PROVE  OutboundInv'
<1>1. OutboundTypeOK'
  BY DEF OutboundInv, OutboundTypeOK
<1>2. ChannelsFollowConfigs' /\ Recorded'
  BY DEF OutboundInv, ChannelsFollowConfigs, Recorded
<1>3. calls'[c] = call /\ \A q \in Caller \ {c} : calls'[q] = calls[q]
  BY DEF OutboundInv, OutboundTypeOK
<1>4. ASSUME NEW q \in Caller, q # c PROVE Tried(q, calls[q], delivered')
  <2>1. Tried(q, calls[q], delivered)
    BY DEF OutboundInv
  <2>2. \A n, url : <<q, n, url>> \in delivered => <<q, n, url>> \in delivered'
    BY <1>4
  <2> QED
    BY <2>1, <2>2 DEF Tried
<1>5. \A q \in Caller : Tried(q, calls'[q], delivered')
  BY <1>3, <1>4
<1> QED
  BY <1>1, <1>2, <1>5 DEF OutboundInv

(* What the loop of notify keeps of its call, and what it makes of it      *)
(* (NotificationService.notify).                                           *)
LEMMA ContinuesWith ==
  ASSUME OutboundInv, NEW c \in Caller, NEW todo \in SUBSET Name, NEW at \in Name \cup {None},
         NEW to \in Url \cup {None}, NEW S \in SUBSET Name, NEW results \in [S -> BOOLEAN],
         Continues(c, todo, at, to, results), delivered' \subseteq Caller \X Name \X Url,
         delivered \subseteq delivered',
         calls[c].asked = todo \cup S \cup (IF at = None THEN {} ELSE {at}),
         at # None => to # None,
         \A n \in S : results[n] => \E url \in Url : <<c, n, url>> \in delivered',
         UNCHANGED <<configs, channels, syncs, tickets, rows, restarts>>
  PROVE  OutboundInv'
<1> DEFINE call == [todo |-> todo, at |-> at, to |-> to, asked |-> calls[c].asked,
                    results |-> results, busy |-> calls[c].busy]
<1>1. calls[c].asked \in SUBSET Name /\ calls[c].busy \in BOOLEAN
  BY DEF OutboundInv, OutboundTypeOK, CallOfNotify
<1>2. results \in UNION {[R -> BOOLEAN] : R \in SUBSET Name}
  OBVIOUS
<1>3. call \in CallOfNotify
  BY <1>1, <1>2 DEF CallOfNotify
<1>4. calls' = [calls EXCEPT ![c] = call]
  BY DEF Continues
<1>5. Tried(c, call, delivered')
  <2>1. DOMAIN results = S
    OBVIOUS
  <2> QED
    BY <2>1 DEF Tried
<1> HIDE DEF call
<1> QED
  BY <1>3, <1>4, <1>5, CallStep

(* The results of a call with one more.                                    *)
LEMMA ResultAdds ==
  ASSUME OutboundInv, NEW c \in Caller, NEW n \in Name, NEW ok \in BOOLEAN
  PROVE  /\ DOMAIN calls[c].results \cup {n} \in SUBSET Name
         /\ Result(c, n, ok) \in [DOMAIN calls[c].results \cup {n} -> BOOLEAN]
         /\ \A m \in DOMAIN calls[c].results \cup {n} :
               Result(c, n, ok)[m] = IF m = n THEN ok ELSE calls[c].results[m]
<1>1. calls[c].results \in UNION {[R -> BOOLEAN] : R \in SUBSET Name}
  BY DEF OutboundInv, OutboundTypeOK, CallOfNotify
<1>2. PICK R \in SUBSET Name : calls[c].results \in [R -> BOOLEAN]
  BY <1>1
<1>3. DOMAIN calls[c].results = R /\ \A m \in R : calls[c].results[m] \in BOOLEAN
  BY <1>2
<1> QED
  BY <1>3 DEF Result

(* Every step of the loop of notify keeps the invariant                    *)
(* (NotificationService.notify, WebhookNotifier.send).                     *)
LEMMA OutboundLoop ==
  ASSUME OutboundInv, NEW c \in Caller, OutboundStep(c)
  PROVE  OutboundInv'
<1> DEFINE S == DOMAIN calls[c].results
<1> USE OutboundAssumption
<1>1. /\ calls[c] \in CallOfNotify
      /\ calls[c].todo \in SUBSET Name /\ calls[c].at \in Name \cup {None}
      /\ calls[c].to \in Url \cup {None}
      /\ calls[c].results \in [S -> BOOLEAN] /\ S \in SUBSET Name
  <2>1. calls[c] \in CallOfNotify
    BY DEF OutboundInv, OutboundTypeOK
  <2>2. PICK R \in SUBSET Name : calls[c].results \in [R -> BOOLEAN]
    BY <2>1 DEF CallOfNotify
  <2>3. S = R
    BY <2>2
  <2> QED
    BY <2>1, <2>2, <2>3 DEF CallOfNotify
<1>2. Tried(c, calls[c], delivered) /\ delivered \subseteq Caller \X Name \X Url
  BY DEF OutboundInv, OutboundTypeOK
<1>3. ASSUME NEW n \in Name, SkipMissing(c, n) PROVE OutboundInv'
  <2>1. /\ Result(c, n, FALSE) \in [S \cup {n} -> BOOLEAN] /\ S \cup {n} \in SUBSET Name
        /\ \A m \in S \cup {n} : Result(c, n, FALSE)[m] = IF m = n THEN FALSE ELSE calls[c].results[m]
    BY ResultAdds
  <2>2. calls[c].asked = (calls[c].todo \ {n}) \cup (S \cup {n}) \cup {}
    BY <1>2, <1>3 DEF SkipMissing, Tried
  <2>3. \A m \in S \cup {n} : Result(c, n, FALSE)[m] => \E url \in Url : <<c, m, url>> \in delivered'
    BY <1>2, <1>3, <2>1 DEF SkipMissing, Tried
  <2>4. /\ Continues(c, calls[c].todo \ {n}, None, None, Result(c, n, FALSE))
        /\ UNCHANGED <<configs, channels, delivered, syncs, tickets, rows, restarts>>
    BY <1>3 DEF SkipMissing
  <2> QED
    BY <1>1, <1>2, <2>1, <2>2, <2>3, <2>4, ContinuesWith
<1>4. ASSUME NEW n \in Name, StartSend(c, n) PROVE OutboundInv'
  <2>1. PICK to \in Url : to = channels[n]
    BY <1>4 DEF StartSend, OutboundInv, OutboundTypeOK
  <2>2. PICK results \in [S -> BOOLEAN] : results = calls[c].results
    BY <1>1
  <2>3. PICK todo \in SUBSET Name : todo = calls[c].todo \ {n}
    BY <1>1
  <2>4. calls[c].asked = todo \cup S \cup (IF n = None THEN {} ELSE {n})
    BY <1>2, <1>4, <2>3 DEF StartSend, Tried
  <2>5. \A m \in S : results[m] => \E url \in Url : <<c, m, url>> \in delivered'
    BY <1>2, <1>4, <2>2 DEF StartSend, Tried
  <2>6. /\ Continues(c, todo, n, to, results)
        /\ UNCHANGED <<configs, channels, syncs, tickets, rows, restarts>>
    BY <1>4, <2>1, <2>2, <2>3 DEF StartSend
  <2>7. /\ delivered' \subseteq Caller \X Name \X Url /\ delivered \subseteq delivered'
        /\ n \in Name \cup {None} /\ to \in Url \cup {None} /\ (n # None => to # None)
        /\ S \in SUBSET Name
    BY <1>1, <1>2, <1>4 DEF StartSend
  <2> HIDE DEF S
  <2> QED
    BY <2>4, <2>5, <2>6, <2>7, ContinuesWith
<1>5. ASSUME NEW n \in Name, NEW to \in Url, n = calls[c].at, to = calls[c].to,
             delivered' = delivered \cup {<<c, n, to>>} \/ delivered' = delivered,
             NEW results \in [S \cup {n} -> BOOLEAN],
             \A m \in S : m # n => results[m] = calls[c].results[m],
             results[n] => delivered' = delivered \cup {<<c, n, to>>},
             Continues(c, calls[c].todo, None, None, results),
             UNCHANGED <<configs, channels, syncs, tickets, rows, restarts>>
      PROVE  OutboundInv'
  <2>1. calls[c].asked = calls[c].todo \cup (S \cup {n}) \cup (IF None = None THEN {} ELSE {None})
    BY <1>2, <1>5 DEF Tried
  <2>2. delivered \subseteq delivered' /\ delivered' \subseteq Caller \X Name \X Url
    BY <1>2, <1>5
  <2>3. \A m \in S \cup {n} : results[m] => \E url \in Url : <<c, m, url>> \in delivered'
    <3>1. \A m \in S : calls[c].results[m] => \E url \in Url : <<c, m, url>> \in delivered'
      BY <1>2, <2>2 DEF Tried
    <3> QED
      BY <1>5, <3>1
  <2>4. /\ calls[c].todo \in SUBSET Name /\ None \in Name \cup {None} /\ None \in Url \cup {None}
        /\ S \cup {n} \in SUBSET Name
    BY <1>1
  <2> HIDE DEF S
  <2> QED
    BY <1>5, <2>1, <2>2, <2>3, <2>4, ContinuesWith
<1>6. ASSUME SendFails(c) \/ SendSucceeds(c) PROVE OutboundInv'
  <2>1. PICK n \in Name : n = calls[c].at
    BY <1>1, <1>6 DEF SendFails, SendSucceeds
  <2>2. PICK to \in Url : to = calls[c].to
    BY <1>1, <1>2, <1>6 DEF Tried, SendFails, SendSucceeds
  <2>3. CASE SendFails(c)
    <3>1. /\ Result(c, n, FALSE) \in [S \cup {n} -> BOOLEAN]
          /\ \A m \in S \cup {n} : Result(c, n, FALSE)[m] = IF m = n THEN FALSE ELSE calls[c].results[m]
      BY ResultAdds
    <3> QED
      BY <1>5, <2>1, <2>2, <2>3, <3>1 DEF SendFails, Mailed
  <2>4. CASE SendSucceeds(c)
    <3>1. /\ Result(c, n, TRUE) \in [S \cup {n} -> BOOLEAN]
          /\ \A m \in S \cup {n} : Result(c, n, TRUE)[m] = IF m = n THEN TRUE ELSE calls[c].results[m]
      BY ResultAdds
    <3>2. /\ delivered' = delivered \cup {<<c, n, to>>}
          /\ Continues(c, calls[c].todo, None, None, Result(c, n, TRUE))
          /\ UNCHANGED <<configs, channels, syncs, tickets, rows, restarts>>
      BY <2>1, <2>2, <2>4 DEF SendSucceeds, Mailed
    <3>3. \A m \in S : m # n => Result(c, n, TRUE)[m] = calls[c].results[m]
      BY <3>1
    <3> HIDE DEF S
    <3> QED
      BY <1>5, <2>1, <2>2, <3>1, <3>2, <3>3
  <2> QED
    BY <1>6, <2>3, <2>4
<1>7. ASSUME Returns(c) PROVE OutboundInv'
  <2> DEFINE call == [calls[c] EXCEPT !.busy = FALSE]
  <2>1. call \in CallOfNotify
    BY <1>1 DEF CallOfNotify
  <2>2. Tried(c, call, delivered)
    BY <1>1, <1>2 DEF Tried, CallOfNotify
  <2>3. calls' = [calls EXCEPT ![c] = call]
    BY <1>7 DEF Returns
  <2> HIDE DEF call
  <2> QED
    BY <1>2, <1>7, <2>1, <2>2, <2>3, CallStep DEF Returns
<1> QED
  BY <1>3, <1>4, <1>6, <1>7 DEF OutboundStep

(* The configurations a client registers or deletes (register_webhook,     *)
(* register_slack, register_teams, delete_notification_config).            *)
LEMMA ConfigStep ==
  ASSUME OutboundInv, NEW n \in Name, (\E url \in Url : RegisterConfig(n, url)) \/ DeleteConfig(n)
  PROVE  OutboundInv'
<1>0. /\ OutboundTypeOK /\ ChannelsFollowConfigs /\ Recorded
      /\ \A c \in Caller : Tried(c, calls[c], delivered)
  BY DEF OutboundInv
<1>1. configs' \in [Name -> Url \cup {None}] /\ channels' = configs'
  <2>1. ASSUME NEW url \in Url, RegisterConfig(n, url)
        PROVE  configs' \in [Name -> Url \cup {None}] /\ channels' = configs'
    BY <1>0, <2>1 DEF OutboundTypeOK, ChannelsFollowConfigs, RegisterConfig, WithChannels
  <2>2. CASE DeleteConfig(n)
    BY <1>0, <2>2 DEF OutboundTypeOK, ChannelsFollowConfigs, DeleteConfig
  <2> QED
    BY <2>1, <2>2
<1>2. UNCHANGED <<calls, delivered, syncs, tickets, rows, restarts>>
  BY DEF RegisterConfig, DeleteConfig
<1> QED
  BY <1>0, <1>1, <1>2 DEF OutboundInv, OutboundTypeOK, ChannelsFollowConfigs, Recorded

(* A call of notify starts with everything to do                           *)
(* (NotificationService.notify).                                           *)
LEMMA NotifyStep ==
  ASSUME OutboundInv, NEW c \in Caller, NEW names \in SUBSET Name, Notify(c, names)
  PROVE  OutboundInv'
<1>0. OutboundTypeOK /\ ChannelsFollowConfigs
  BY DEF OutboundInv
<1>1. channels' = channels
  BY <1>0 DEF Notify, WithChannels, OutboundTypeOK, ChannelsFollowConfigs
<1>2. PICK targets \in SUBSET Name :
        calls' = [calls EXCEPT ![c] = [todo |-> targets, at |-> None, to |-> None, asked |-> targets,
                                       results |-> <<>>, busy |-> TRUE]]
  BY DEF Notify
<1> DEFINE call == [todo |-> targets, at |-> None, to |-> None, asked |-> targets,
                    results |-> <<>>, busy |-> TRUE]
<1>3. call \in CallOfNotify
  <2>1. <<>> \in [{} -> BOOLEAN] /\ {} \in SUBSET Name
    OBVIOUS
  <2>2. <<>> \in UNION {[R -> BOOLEAN] : R \in SUBSET Name}
    BY <2>1
  <2> QED
    BY <2>2 DEF CallOfNotify
<1>4. Tried(c, call, delivered')
  <2>1. DOMAIN <<>> = {}
    OBVIOUS
  <2> QED
    BY <2>1 DEF Tried
<1>5. /\ delivered' \subseteq Caller \X Name \X Url
      /\ \A d \in delivered : d[1] # c => d \in delivered'
  BY <1>0 DEF Notify, OutboundTypeOK
<1>6. UNCHANGED <<configs, channels, syncs, tickets, rows, restarts>>
  BY <1>1 DEF Notify
<1> HIDE DEF call
<1>7. calls' = [calls EXCEPT ![c] = call]
  BY <1>2 DEF call
<1> QED
  BY <1>3, <1>4, <1>5, <1>6, <1>7, CallStep

(* Tickets are opened before they are recorded (sync_jira_ticket,          *)
(* sync_servicenow_change_request).                                        *)
LEMMA TicketStep ==
  ASSUME OutboundInv,
         \/ \E v \in Vulnerability : OpenTicket(v) \/ OpenFails(v)
         \/ \E t \in syncs : RecordTicket(t) \/ RecordFails(t)
  PROVE  OutboundInv'
<1> USE OutboundAssumption
<1>0. /\ OutboundTypeOK /\ ChannelsFollowConfigs /\ Recorded
      /\ \A c \in Caller : Tried(c, calls[c], delivered)
  BY DEF OutboundInv
<1>1. UNCHANGED <<configs, channels, calls, delivered, restarts>>
  BY DEF OpenTicket, OpenFails, RecordTicket, RecordFails
<1>2. Recorded' /\ syncs' \subseteq Ticket /\ tickets' \subseteq Ticket /\ rows' \subseteq Ticket
  <2>1. ASSUME NEW v \in Vulnerability, OpenTicket(v) \/ OpenFails(v)
        PROVE  /\ Recorded' /\ syncs' \subseteq Ticket
               /\ tickets' \subseteq Ticket /\ rows' \subseteq Ticket
    <3>1. Cardinality(tickets) \in Nat /\ Cardinality(tickets) < MaxTickets
      BY <1>0, <2>1, FS_CardinalityType DEF Recorded, OpenTicket, OpenFails
    <3>2. NextTicket(v) \in Ticket
      BY <3>1 DEF NextTicket, Ticket
    <3>3. IsFiniteSet(tickets \cup {NextTicket(v)})
      BY <1>0, FS_AddElement DEF Recorded
    <3> QED
      BY <1>0, <2>1, <3>2, <3>3 DEF Recorded, OutboundTypeOK, OpenTicket, OpenFails
  <2>2. ASSUME NEW t \in syncs, RecordTicket(t) \/ RecordFails(t)
        PROVE  /\ Recorded' /\ syncs' \subseteq Ticket
               /\ tickets' \subseteq Ticket /\ rows' \subseteq Ticket
    BY <1>0, <2>2 DEF Recorded, OutboundTypeOK, RecordTicket, RecordFails
  <2> QED
    BY <2>1, <2>2
<1> QED
  BY <1>0, <1>1, <1>2 DEF OutboundInv, OutboundTypeOK, ChannelsFollowConfigs

(* The invariant of notifications and tickets.                             *)
THEOREM OutboundInvariance == OutboundSpec => []OutboundInv
<1> USE OutboundAssumption
<1>1. <<>> \in UNION {[R -> BOOLEAN] : R \in SUBSET Name}
  <2>1. <<>> \in [{} -> BOOLEAN] /\ {} \in SUBSET Name
    OBVIOUS
  <2> QED
    BY <2>1
<1>2. NoCall \in CallOfNotify /\ \A c, sent : Tried(c, NoCall, sent)
  <2>1. DOMAIN <<>> = {}
    OBVIOUS
  <2> QED
    BY <1>1, <2>1 DEF NoCall, CallOfNotify, Tried
<1>3. OutboundInit => OutboundInv
  BY <1>2, FS_EmptySet DEF OutboundInit, OutboundInv, OutboundTypeOK, ChannelsFollowConfigs, Recorded
<1>4. OutboundInv /\ [OutboundNext]_outboundVars => OutboundInv'
  <2> SUFFICES ASSUME OutboundInv, [OutboundNext]_outboundVars PROVE OutboundInv'
    OBVIOUS
  <2>1. CASE Dies
    <3>1. /\ OutboundTypeOK' /\ ChannelsFollowConfigs' /\ Recorded'
      BY <1>2, <2>1 DEF Dies, OutboundInv, OutboundTypeOK, ChannelsFollowConfigs, Recorded
    <3>2. \A c \in Caller : calls'[c] = NoCall
      BY <2>1 DEF Dies
    <3> QED
      BY <1>2, <3>1, <3>2 DEF OutboundInv
  <2>2. CASE UNCHANGED outboundVars
    BY <2>2 DEF outboundVars, OutboundInv, OutboundTypeOK, ChannelsFollowConfigs, Recorded
  <2> QED
    BY <2>1, <2>2, ConfigStep, NotifyStep, OutboundLoop, TicketStep DEF OutboundNext
<1> QED
  BY <1>3, <1>4, PTL DEF OutboundSpec

(* However channels come and go while calls of notify send, each call has  *)
(* tried every target when it returns, what it reports as sent has arrived *)
(* and channels are those of the configurations                            *)
(* (NotificationService.notify, _get_service).                             *)
THEOREM TargetsAreTried == OutboundSpec => []EveryTargetIsTried
<1>1. OutboundInv => EveryTargetIsTried
  <2> SUFFICES ASSUME OutboundInv PROVE EveryTargetIsTried
    OBVIOUS
  <2>1. ChannelsFollowConfigs /\ \A c \in Caller : Tried(c, calls[c], delivered)
    BY DEF OutboundInv
  <2>2. ASSUME NEW c \in Caller
        PROVE  /\ calls[c].todo = {} /\ calls[c].at = None => DOMAIN calls[c].results = calls[c].asked
               /\ \A n \in DOMAIN calls[c].results :
                    calls[c].results[n] => \E url \in Url : <<c, n, url>> \in delivered
    BY <2>1 DEF Tried
  <2> QED
    BY <2>1, <2>2 DEF EveryTargetIsTried
<1> QED
  BY OutboundInvariance, <1>1, PTL

(* A row of itsm_tickets is about a ticket that was opened                 *)
(* (sync_jira_ticket, sync_servicenow_change_request).                     *)
THEOREM TicketsBeforeRows == OutboundSpec => []RowsAreTickets
<1>1. OutboundInv => RowsAreTickets
  BY DEF OutboundInv, Recorded, RowsAreTickets
<1> QED
  BY OutboundInvariance, <1>1, PTL

----------------------------------------------------------------------------
(* Rings grow, and the last one is everybody                               *)
(* (CanaryDeployment._hosts_for_ring).                                     *)
LEMMA RingsGrow ==
  /\ \A k \in 0..3 : RingSize(k) \in 1..HostCount
  /\ \A k \in 0..2 : RingSize(k) <= RingSize(k + 1)
<1> USE RolloutAssumption
<1>1. Percent[0] = 5 /\ Percent[1] = 25 /\ Percent[2] = 70 /\ Percent[3] = 100
  BY DEF Percent
<1>2. /\ RingSize(0) = IF (HostCount * 5) \div 100 = 0 THEN 1 ELSE (HostCount * 5) \div 100
      /\ RingSize(1) = IF (HostCount * 25) \div 100 = 0 THEN 1 ELSE (HostCount * 25) \div 100
      /\ RingSize(2) = IF (HostCount * 70) \div 100 = 0 THEN 1 ELSE (HostCount * 70) \div 100
      /\ RingSize(3) = IF (HostCount * 100) \div 100 = 0 THEN 1 ELSE (HostCount * 100) \div 100
  BY <1>1 DEF RingSize
<1>3. /\ (HostCount * 5) \div 100 \in 0..HostCount /\ (HostCount * 25) \div 100 \in 0..HostCount
      /\ (HostCount * 70) \div 100 \in 0..HostCount /\ (HostCount * 100) \div 100 = HostCount
      /\ (HostCount * 5) \div 100 <= (HostCount * 25) \div 100
      /\ (HostCount * 25) \div 100 <= (HostCount * 70) \div 100
  OBVIOUS
<1>4. /\ RingSize(0) \in 1..HostCount /\ RingSize(1) \in 1..HostCount
      /\ RingSize(2) \in 1..HostCount /\ RingSize(3) \in 1..HostCount
      /\ RingSize(0) <= RingSize(1) /\ RingSize(1) <= RingSize(2) /\ RingSize(2) <= RingSize(3)
  BY <1>2, <1>3
<1>5. \A k \in 0..3 : k = 0 \/ k = 1 \/ k = 2 \/ k = 3
  OBVIOUS
<1> QED
  BY <1>4, <1>5

(* Counters start within their bounds.                                     *)
LEMMA FirstOnes == 0 \in 0..(Attempts - 1) /\ 0 \in 0..HostCount /\ 1 \in 0..HostCount
<1>1. Attempts \in Nat /\ Attempts # 0 /\ HostCount \in Nat /\ HostCount # 0
  BY RolloutAssumption
<1> QED
  BY <1>1

(* The hosts the operator had patched before the ring at hand.             *)
Before == IF ring = 0 THEN {} ELSE Ring(ring - 1)

(* Where the rollout is: what was touched, and, with a scanner that looks, *)
(* what is known to be fixed.                                              *)
RolloutInv ==
  /\ RolloutTypeOK
  /\ phase = "ready" => touched = Before /\ (ring = 0 => ~dirty)
  /\ phase = "HALTED" => ring \in 1..3 /\ touched = Before
  /\ phase = "deploying" =>
       ring \in 0..3 /\ host <= RingSize(ring) /\ touched = Before \cup 1..host
  /\ phase = "verifying" => ring \in 1..4 /\ host \in 1..RingSize(ring - 1) /\ touched = Before
  /\ phase = "COMPLETED" => ring = 4 /\ touched = Before
  /\ phase = "abandoned" => touched \subseteq Ring(IF ring = 4 THEN 3 ELSE ring)
  /\ scanner = "live" =>
       /\ phase = "verifying" /\ ~dirty => 1..(host - 1) \subseteq fixed
       /\ phase = "ready" /\ ~dirty => Before \subseteq fixed
       /\ phase = "deploying" => Before \subseteq fixed

(* The hosts before the ring at hand are some of it                        *)
(* (CanaryDeployment._hosts_for_ring).                                     *)
LEMMA BeforeIsInside ==
  ASSUME ring \in 0..4
  PROVE  /\ Before \subseteq Ring(IF ring = 4 THEN 3 ELSE ring)
         /\ Ring(IF ring = 4 THEN 3 ELSE ring) \subseteq Host
         /\ Before \subseteq Host
<1>1. CASE ring = 0
  <2>1. RingSize(0) \in 1..HostCount
    BY RingsGrow
  <2> QED
    BY <1>1, <2>1, RolloutAssumption DEF Before, Ring, Host
<1>2. CASE ring \in 1..3
  <2>1. PICK k \in 0..2 : ring = k + 1
    BY <1>2
  <2>2. k + 1 \in 0..3 /\ ring - 1 = k
    BY <2>1
  <2>3. RingSize(k) <= RingSize(k + 1) /\ RingSize(k) \in 1..HostCount /\ RingSize(k + 1) \in 1..HostCount
    BY <2>2, RingsGrow
  <2> QED
    BY <1>2, <2>1, <2>2, <2>3, RolloutAssumption DEF Before, Ring, Host
<1>3. CASE ring = 4
  BY <1>3, RingsGrow, RolloutAssumption DEF Before, Ring, Host
<1> QED
  BY <1>1, <1>2, <1>3

(* The slots keep their types, and the rollout proper does not see them    *)
(* (DualSlotManager).                                                      *)
LEMMA SlotsStep ==
  ASSUME RolloutInv, UNCHANGED canaryVars,
         \/ \E tag \in Tag : Promote(tag)
         \/ \E slot \in Slot : Confirm(slot)
         \/ Rollback
  PROVE  RolloutInv'
<1> DEFINE SlotType == [tag : Tag \cup {"1.0.0"}, healthy : BOOLEAN]
<1>0. RolloutTypeOK
  BY DEF RolloutInv
<1>1. Inactive \in Slot /\ active \in Slot /\ slots \in [Slot -> SlotType]
  BY <1>0 DEF Inactive, Slot, RolloutTypeOK
<1>2. slots' \in [Slot -> SlotType] /\ active' \in Slot /\ serving' \in Tag \cup {"1.0.0"} /\ undone' \in BOOLEAN
  <2>1. ASSUME NEW tag \in Tag, Promote(tag)
        PROVE  slots' \in [Slot -> SlotType] /\ active' \in Slot /\ serving' \in Tag \cup {"1.0.0"} /\ undone' \in BOOLEAN
    BY <1>1, <2>1 DEF Promote
  <2>2. ASSUME NEW slot \in Slot, Confirm(slot)
        PROVE  slots' \in [Slot -> SlotType] /\ active' \in Slot /\ serving' \in Tag \cup {"1.0.0"} /\ undone' \in BOOLEAN
    <3>1. [slots[slot] EXCEPT !.healthy = TRUE] \in SlotType
      BY <1>1
    <3>2. slots' = [slots EXCEPT ![slot] = [slots[slot] EXCEPT !.healthy = TRUE]]
      BY <2>2 DEF Confirm
    <3>3. slots' \in [Slot -> SlotType]
      BY <1>1, <3>1, <3>2
    <3> QED
      BY <1>0, <2>2, <3>3 DEF Confirm, RolloutTypeOK
  <2>3. ASSUME Rollback
        PROVE  slots' \in [Slot -> SlotType] /\ active' \in Slot /\ serving' \in Tag \cup {"1.0.0"} /\ undone' \in BOOLEAN
    <3>1. slots' \in [Slot -> SlotType]
      BY <1>1, <2>3 DEF Rollback
    <3> QED
      BY <1>0, <2>3, <3>1 DEF Rollback, RolloutTypeOK
  <2> QED
    BY <2>1, <2>2, <2>3
<1>3. RolloutTypeOK'
  BY <1>0, <1>2 DEF RolloutTypeOK, canaryVars
<1> QED
  BY <1>3 DEF RolloutInv, canaryVars, Before

(* Deploying a ring touches its hosts one by one                           *)
(* (CanaryDeployment.roll_forward).                                        *)
LEMMA DeployStep ==
  ASSUME RolloutInv, RollForward \/ PatchHost \/ PatchRaises \/ RingDeployed \/ VerifyAgain
  PROVE  RolloutInv'
<1> USE RolloutAssumption
<1>0. RolloutTypeOK
  BY DEF RolloutInv
<1>1. UNCHANGED slotVars
  BY DEF RollForward, PatchHost, PatchRaises, RingDeployed, VerifyAgain
<1>3. CASE RollForward
  <2>1. RolloutTypeOK'
    BY <1>0, <1>1, <1>3 DEF RollForward, RolloutTypeOK, slotVars, Phases
  <2>2. RingSize(ring) \in Nat \/ ring = 4
    BY <1>0, RingsGrow DEF RolloutTypeOK
  <2> QED
    BY <1>0, <1>3, <2>1, <2>2 DEF RollForward, RolloutInv, RolloutTypeOK, Before
<1>4. ASSUME PatchHost \/ PatchRaises PROVE RolloutInv'
  <2>1. /\ phase = "deploying" /\ ring \in 0..3 /\ host \in 0..HostCount /\ host < RingSize(ring)
        /\ touched = Before \cup 1..host /\ RingSize(ring) \in 1..HostCount
    BY <1>0, <1>4, RingsGrow DEF PatchHost, PatchRaises, RolloutInv, RolloutTypeOK
  <2>2. /\ host + 1 \in Host /\ host + 1 \in Ring(ring)
        /\ 1..host \subseteq Ring(ring) /\ 1..(host + 1) = 1..host \cup {host + 1}
        /\ Before \subseteq Ring(ring)
    BY <2>1, BeforeIsInside DEF Host, Ring
  <2>3. touched' = touched \cup {host + 1} /\ touched' \subseteq Host /\ fixed' \subseteq touched'
        /\ fixed \subseteq fixed'
    BY <1>0, <1>4, <2>2 DEF PatchHost, PatchRaises, RolloutTypeOK
  <2>4. RolloutTypeOK'
    BY <1>0, <1>1, <1>4, <2>1, <2>2, <2>3 DEF PatchHost, PatchRaises, RolloutTypeOK, slotVars, Phases
  <2>5. CASE PatchHost
    <3>1. /\ phase' = "deploying" /\ ring' = ring /\ host' = host + 1 /\ scanner' = scanner
          /\ Before' = Before
      BY <2>1, <2>5 DEF PatchHost, Before
    <3>2. touched' = Before \cup 1..(host + 1)
      BY <2>1, <2>2, <2>3
    <3>3. scanner = "live" => Before \subseteq fixed'
      BY <2>1, <2>3 DEF RolloutInv
    <3> QED
      BY <2>1, <2>4, <3>1, <3>2, <3>3 DEF RolloutInv
  <2>6. CASE PatchRaises
    <3>1. phase' = "abandoned" /\ ring' = ring
      BY <2>6 DEF PatchRaises
    <3>2. touched' \subseteq Ring(ring)
      BY <2>1, <2>2, <2>3
    <3> QED
      BY <2>1, <2>4, <3>1, <3>2 DEF RolloutInv
  <2> QED
    BY <1>4, <2>5, <2>6
<1>5. CASE RingDeployed
  <2>1. /\ ring \in 0..3 /\ host = RingSize(ring) /\ touched = Before \cup 1..host
        /\ RingSize(ring) \in 1..HostCount /\ Before \subseteq Ring(ring)
    BY <1>0, <1>5, RingsGrow, BeforeIsInside DEF RingDeployed, RolloutInv, RolloutTypeOK
  <2>2. ring' = ring + 1 /\ ring' - 1 = ring /\ ring' \in 1..4 /\ phase' = "verifying" /\ host' = 1 /\ ~dirty'
    BY <1>5, <2>1 DEF RingDeployed
  <2>3. RolloutTypeOK'
    <3>1. host' \in 0..HostCount /\ attempt' \in 0..(Attempts - 1) /\ dirty' \in BOOLEAN /\ phase' \in Phases
      BY <1>5, FirstOnes DEF RingDeployed, Phases
    <3>2. ring' \in 0..4
      BY <2>2
    <3> QED
      BY <1>0, <1>1, <1>5, <3>1, <3>2 DEF RingDeployed, RolloutTypeOK, slotVars
  <2>4. Before' = Ring(ring) /\ touched' = Ring(ring)
    BY <1>5, <2>1, <2>2 DEF RingDeployed, Before, Ring
  <2>5. 1..(host' - 1) = {}
    BY <2>2
  <2> QED
    BY <2>1, <2>2, <2>3, <2>4, <2>5 DEF RolloutInv
<1>6. CASE VerifyAgain
  <2>1. ring \in 1..3 /\ touched = Before /\ RingSize(ring - 1) \in 1..HostCount
    BY <1>6, RingsGrow DEF VerifyAgain, RolloutInv
  <2>2. RolloutTypeOK'
    <3>1. host' \in 0..HostCount /\ attempt' \in 0..(Attempts - 1) /\ dirty' \in BOOLEAN /\ phase' \in Phases
      BY <1>6, FirstOnes DEF VerifyAgain, Phases
    <3> QED
      BY <1>0, <1>1, <1>6, <3>1 DEF VerifyAgain, RolloutTypeOK, slotVars
  <2>3. /\ ring' = ring /\ phase' = "verifying" /\ host' = 1 /\ ~dirty' /\ touched' = touched
        /\ Before' = Before /\ 1..(host' - 1) = {}
    BY <1>6 DEF VerifyAgain, Before
  <2> QED
    BY <2>1, <2>2, <2>3 DEF RolloutInv
<1> QED
  BY <1>3, <1>4, <1>5, <1>6

(* A ring is verified host by host; with a scanner that looks, a host that *)
(* passes is fixed (RescanVerifier.verify).                                *)
LEMMA VerifyStep ==
  ASSUME RolloutInv, Rescan \/ RescanRaises
  PROVE  RolloutInv'
<1> USE RolloutAssumption
<1>0. RolloutTypeOK /\ phase = "verifying"
  BY DEF RolloutInv, Rescan, RescanRaises
<1>1. UNCHANGED <<ring, touched, fixed, scanner, slotVars>> /\ Before' = Before
  BY DEF Rescan, RescanRaises, Before
<1>3. /\ ring \in 1..4 /\ host \in 1..RingSize(ring - 1) /\ touched = Before
      /\ RingSize(ring - 1) \in 1..HostCount /\ Before = 1..RingSize(ring - 1)
      /\ scanner = "live" /\ ~dirty => 1..(host - 1) \subseteq fixed
  BY <1>0, RingsGrow DEF RolloutInv, Before, Ring
<1>4. CASE RescanRaises
  <2>1. touched' \subseteq Ring(IF ring = 4 THEN 3 ELSE ring)
    BY <1>1, <1>3, BeforeIsInside
  <2>2. RolloutTypeOK'
    BY <1>0, <1>1, <1>4 DEF RescanRaises, RolloutTypeOK, slotVars, Phases
  <2> QED
    BY <1>1, <1>4, <2>1, <2>2 DEF RescanRaises, RolloutInv
<1>5. CASE Rescan
  <2>1. PICK found \in Scans :
          IF found /\ attempt + 1 < Attempts THEN attempt' = attempt + 1 /\ UNCHANGED <<phase, host, dirty>>
                                             ELSE Conclude(~found)
    BY <1>5 DEF Rescan
  <2>2. found \in BOOLEAN /\ (scanner = "live" /\ ~found => host \in fixed)
    BY <1>0, <2>1 DEF Scans, RolloutTypeOK
  <2>3. CASE attempt' = attempt + 1 /\ attempt + 1 < Attempts /\ UNCHANGED <<phase, host, dirty>>
    <3>1. RolloutTypeOK'
      BY <1>0, <1>1, <2>3 DEF RolloutTypeOK, slotVars, Phases
    <3> QED
      BY <1>0, <1>1, <1>3, <2>3, <3>1 DEF RolloutInv
  <2>4. CASE Conclude(~found)
    <3>1. attempt' = 0 /\ (~dirty' => ~dirty /\ ~found) /\ dirty' \in BOOLEAN
      BY <1>0, <2>2, <2>4 DEF Conclude, RolloutTypeOK
    <3>2. scanner = "live" /\ ~dirty' => 1..host \subseteq fixed
      BY <1>3, <2>2, <3>1
    <3>3. CASE host = RingSize(ring - 1)
      <4>1. phase' = "ready" /\ host' = 0
        BY <2>4, <3>3 DEF Conclude
      <4>2. RolloutTypeOK'
        BY <1>0, <1>1, <3>1, <4>1 DEF RolloutTypeOK, slotVars, Phases
      <4>3. scanner = "live" /\ ~dirty' => Before \subseteq fixed
        BY <1>3, <3>2, <3>3
      <4> QED
        BY <1>1, <1>3, <4>1, <4>2, <4>3 DEF RolloutInv
    <3>4. CASE host # RingSize(ring - 1)
      <4>1. phase' = phase /\ host' = host + 1
        BY <2>4, <3>4 DEF Conclude
      <4>2. host' \in 1..RingSize(ring - 1) /\ host' - 1 = host /\ host' \in 0..HostCount
        BY <1>3, <3>4, <4>1
      <4>3. RolloutTypeOK'
        BY <1>0, <1>1, <3>1, <4>1, <4>2 DEF RolloutTypeOK, slotVars, Phases
      <4> QED
        BY <1>0, <1>1, <1>3, <3>2, <4>1, <4>2, <4>3 DEF RolloutInv
    <3> QED
      BY <3>3, <3>4
  <2> QED
    BY <2>1, <2>3, <2>4
<1> QED
  BY <1>4, <1>5

(* The invariant of the rollout.                                           *)
THEOREM RolloutInvariance == RolloutSpec => []RolloutInv
<1>1. RolloutInit => RolloutInv
  <2> SUFFICES ASSUME RolloutInit PROVE RolloutInv
    OBVIOUS
  <2>1. /\ slots \in [Slot -> [tag : Tag \cup {"1.0.0"}, healthy : BOOLEAN]] /\ active \in Slot
    BY DEF RolloutInit
  <2>2. RolloutTypeOK
    <3>1. ring \in 0..4 /\ phase \in Phases /\ host \in 0..HostCount /\ attempt \in 0..(Attempts - 1)
      BY FirstOnes DEF RolloutInit, Phases
    <3>2. dirty \in BOOLEAN /\ undone \in BOOLEAN /\ scanner \in {"live", "stub"}
      BY DEF RolloutInit
    <3>3. touched \subseteq Host /\ fixed \subseteq touched /\ serving \in Tag \cup {"1.0.0"}
      BY DEF RolloutInit
    <3> QED
      BY <2>1, <3>1, <3>2, <3>3 DEF RolloutTypeOK
  <2>4. Before = {} /\ touched = Before /\ phase = "ready" /\ ~dirty
    BY DEF RolloutInit, Before
  <2> QED
    BY <2>2, <2>4 DEF RolloutInv
<1>2. RolloutInv /\ [RolloutNext]_rolloutVars => RolloutInv'
  <2>1. ASSUME RolloutInv, UNCHANGED rolloutVars PROVE RolloutInv'
    BY <2>1 DEF rolloutVars, canaryVars, slotVars, RolloutInv, RolloutTypeOK, Before
  <2> QED
    BY <2>1, SlotsStep, DeployStep, VerifyStep DEF RolloutNext, Promote, Confirm, Rollback
<1> QED
  BY <1>1, <1>2, PTL DEF RolloutSpec

(* A rollout touches no host beyond the ring it is at, for any number of   *)
(* hosts, however it ends (CanaryDeployment.roll_forward).                 *)
THEOREM BlastIsBounded == RolloutSpec => []BlastRadius
<1>1. RolloutInv => BlastRadius
  <2> SUFFICES ASSUME RolloutInv PROVE BlastRadius
    OBVIOUS
  <2>1. ring \in 0..4 /\ phase \in Phases /\ host \in 0..HostCount
    BY DEF RolloutInv, RolloutTypeOK
  <2>2. Before \subseteq Ring(IF ring = 4 THEN 3 ELSE ring)
    BY <2>1, BeforeIsInside
  <2>3. CASE phase = "deploying"
    <3>1. ring \in 0..3 /\ host <= RingSize(ring) /\ touched = Before \cup 1..host
      BY <2>3 DEF RolloutInv
    <3>2. 1..host \subseteq Ring(ring)
      BY <2>1, <3>1, RingsGrow DEF Ring
    <3> QED
      BY <2>2, <2>3, <3>1, <3>2 DEF BlastRadius
  <2>4. CASE phase # "deploying"
    BY <2>1, <2>2, <2>4 DEF RolloutInv, BlastRadius, Phases, Before
  <2> QED
    BY <2>3, <2>4
<1> QED
  BY RolloutInvariance, <1>1, PTL

(* With a scanner that looks, no host beyond a ring is patched before all  *)
(* hosts of the ring are fixed, for any number of hosts (roll_forward,     *)
(* RescanVerifier.verify).                                                 *)
THEOREM RingsAreVerified == RolloutSpec => AdvancesOnlyVerified
<1>1. RolloutInv /\ [RolloutNext]_rolloutVars =>
        [scanner = "live" /\ touched' # touched /\ ring > 0 => Ring(ring - 1) \subseteq fixed]_rolloutVars
  <2> SUFFICES ASSUME RolloutInv, RolloutNext, scanner = "live", touched' # touched, ring > 0
               PROVE  Ring(ring - 1) \subseteq fixed
    OBVIOUS
  <2>1. phase = "deploying"
    BY DEF RolloutNext, RollForward, PatchHost, PatchRaises, RingDeployed, VerifyAgain, Rescan, RescanRaises,
           Promote, Confirm, Rollback, canaryVars
  <2>2. Before = Ring(ring - 1)
    BY DEF Before
  <2> QED
    BY <2>1, <2>2 DEF RolloutInv
<1> QED
  BY RolloutInvariance, <1>1, PTL DEF RolloutSpec, AdvancesOnlyVerified

(* A rollout that is COMPLETED has had a patch sent to every host, and     *)
(* with a scanner that looks they are all fixed, unless the verification   *)
(* of the last ring failed, which roll_forward does not look at once there *)
(* is no further ring (CanaryDeployment.roll_forward).                     *)
CompletedMeansDone ==
  phase = "COMPLETED" =>
    /\ touched = Host
    /\ scanner = "live" /\ ~dirty => fixed = Host

(* The last ring is everybody (CanaryDeployment._hosts_for_ring).          *)
LEMMA LastRingIsAll == Ring(3) = Host
<1> USE RolloutAssumption
<1>1. Percent[3] = 100
  BY DEF Percent
<1>2. (HostCount * 100) \div 100 = HostCount
  OBVIOUS
<1>3. RingSize(3) = HostCount
  BY <1>1, <1>2 DEF RingSize
<1> QED
  BY <1>3 DEF Ring, Host

(* COMPLETED is answered when the operator is past the last ring, and the  *)
(* rollout ends there (CanaryDeployment.roll_forward).                     *)
LEMMA CompletedStep ==
  RolloutInv /\ CompletedMeansDone /\ [RolloutNext]_rolloutVars => CompletedMeansDone'
<1> SUFFICES ASSUME RolloutInv, CompletedMeansDone, [RolloutNext]_rolloutVars, phase' = "COMPLETED"
             PROVE  touched' = Host /\ (scanner' = "live" /\ ~dirty' => fixed' = Host)
  BY DEF CompletedMeansDone
<1>1. CASE phase = "COMPLETED"
  <2>1. UNCHANGED <<touched, scanner, dirty, fixed>>
    BY <1>1 DEF RolloutNext, RollForward, PatchHost, PatchRaises, RingDeployed, VerifyAgain, Rescan, RescanRaises,
       Promote, Confirm, Rollback, rolloutVars, canaryVars
  <2> QED
    BY <1>1, <2>1 DEF CompletedMeansDone
<1>2. CASE phase # "COMPLETED"
  <2>1. RollForward /\ ring = 4
    BY <1>2 DEF RolloutNext, RollForward, PatchHost, PatchRaises, RingDeployed, VerifyAgain, Rescan, RescanRaises,
       Conclude, Promote, Confirm, Rollback, rolloutVars, canaryVars
  <2>2. /\ UNCHANGED <<touched, scanner, dirty, fixed>>
        /\ phase = "ready"
    BY <2>1 DEF RollForward
  <2>3. Before = Host
    BY <2>1, LastRingIsAll DEF Before
  <2>4. /\ touched = Before /\ fixed \subseteq touched
        /\ scanner = "live" /\ ~dirty => Before \subseteq fixed
    BY <2>2 DEF RolloutInv, RolloutTypeOK
  <2> QED
    BY <2>2, <2>3, <2>4
<1> QED
  BY <1>1, <1>2

(* What COMPLETED says and what it does not, for any number of hosts       *)
(* (CanaryDeployment.roll_forward).                                        *)
THEOREM CompletedRollouts == RolloutSpec => []CompletedMeansDone
<1>1. RolloutInit => CompletedMeansDone
  BY DEF RolloutInit, CompletedMeansDone
<1> QED
  BY <1>1, CompletedStep, RolloutInvariance, PTL DEF RolloutSpec

----------------------------------------------------------------------------
(* A callback past its checks is of a signed button, one past its commit   *)
(* has its row, and so has every answer of success.                        *)
RowOf(b, n) == n \in 1..Len(approvals) /\ approvals[n] = b

ChannelInv ==
  /\ ChannelTypeOK
  /\ \A b \in handling : b \in cards /\ b.genuine
  /\ \A i \in 1..Len(approvals) : approvals[i] \in cards /\ approvals[i].genuine
  /\ \A e \in recorded : RowOf(e.button, e.row)
  /\ \A a \in answers :
       /\ a.as = "ok" => a.row \in logged /\ RowOf(a.button, a.row)
       /\ a.as = "refused" => ~a.button.genuine

(* The rows that are there stay, and new ones are of signed buttons.       *)
RowsGrow ==
  /\ approvals' \in Seq(Button) /\ Len(approvals') \in Rows
  /\ \A c, m : RowOf(c, m) => RowOf(c, m)'
  /\ \A i \in 1..Len(approvals') : approvals'[i] \in cards /\ approvals'[i].genuine

(* A row is added at the end, or none is (approval_callback).              *)
LEMMA RowStep ==
  ASSUME ChannelInv, NEW b \in cards, b.genuine,
         approvals' = approvals \/ (Len(approvals) < MaxRecords /\ approvals' = Append(approvals, b))
  PROVE  RowsGrow /\ (approvals' # approvals => approvals'[Len(approvals) + 1] = b /\ Len(approvals') = Len(approvals) + 1)
<1>1. /\ approvals \in Seq(Button) /\ b \in Button /\ Len(approvals) \in Nat /\ Len(approvals) \in Rows
      /\ MaxRecords \in Nat
      /\ \A i \in 1..Len(approvals) : approvals[i] \in cards /\ approvals[i].genuine
  BY ChannelAssumption DEF ChannelInv, ChannelTypeOK
<1>2. CASE approvals' = approvals
  BY <1>1, <1>2 DEF RowsGrow, RowOf
<1>3. CASE Len(approvals) < MaxRecords /\ approvals' = Append(approvals, b)
  <2>1. /\ approvals' \in Seq(Button) /\ Len(approvals') = Len(approvals) + 1
        /\ approvals'[Len(approvals) + 1] = b
        /\ \A i \in 1..Len(approvals) : approvals'[i] = approvals[i]
    BY <1>1, <1>3
  <2>2. Len(approvals') \in Rows
    BY <1>1, <1>3, <2>1 DEF Rows
  <2>3. \A c, m : RowOf(c, m) => RowOf(c, m)'
    BY <1>1, <2>1 DEF RowOf
  <2>4. \A i \in 1..Len(approvals') : i \in 1..Len(approvals) \/ i = Len(approvals) + 1
    BY <1>1, <2>1
  <2>5. \A i \in 1..Len(approvals') : approvals'[i] \in cards /\ approvals'[i].genuine
    BY <1>1, <2>1, <2>4
  <2> QED
    BY <2>1, <2>2, <2>3, <2>5 DEF RowsGrow
<1> QED
  BY <1>2, <1>3

(* An answer that is true of the rows is no harm (approval_callback).      *)
LEMMA AnswerStep ==
  ASSUME ChannelInv, NEW b \in Button, NEW n \in Rows, NEW code \in Codes,
         Answer(b, n, code),
         RowsGrow, UNCHANGED cards, others' \in 0..MaxOthers,
         handling' \subseteq handling, recorded' \subseteq recorded, logged \subseteq logged', logged' \subseteq Rows,
         code = "ok" => n \in logged' /\ RowOf(b, n),
         code = "refused" => ~b.genuine
  PROVE  ChannelInv'
<1>1. ChannelTypeOK
  BY DEF ChannelInv
<1>2. PICK a : a = [button |-> b, row |-> n, as |-> code]
  OBVIOUS
<1>3. answers' = answers \cup {a} /\ pressed' \subseteq pressed
  BY <1>2 DEF Answer
<1>4. a.button = b /\ a.row = n /\ a.as = code /\ a \in [button : Button, row : Rows, as : Codes]
  BY <1>2
<1>5. ChannelTypeOK'
  BY <1>1, <1>3, <1>4 DEF ChannelTypeOK, RowsGrow
<1>6. \A o \in answers' :
        /\ o.as = "ok" => o.row \in logged' /\ RowOf(o.button, o.row)
        /\ o.as = "refused" => ~o.button.genuine
  BY <1>3, <1>4 DEF ChannelInv
<1> QED
  BY <1>5, <1>6 DEF ChannelInv, RowsGrow

(* A callback is admitted: a signed button goes on to the handler, and     *)
(* another is refused (RateLimitMiddleware.dispatch, approval_callback).   *)
LEMMA CallbackStep ==
  ASSUME ChannelInv, NEW b \in cards, Call(b)
  PROVE  ChannelInv'
<1>1. ChannelTypeOK /\ b \in Button /\ 0 \in Rows
  BY ChannelAssumption DEF ChannelInv, ChannelTypeOK, Rows
<1>2. CASE b.genuine
  <2>1. handling' = handling \cup {b}
        /\ UNCHANGED <<cards, pressed, recorded, approvals, logged, answers, others>>
    BY <1>2 DEF Call
  <2>2. ChannelTypeOK'
    BY <1>1, <2>1 DEF ChannelTypeOK
  <2> QED
    BY <1>2, <2>1, <2>2 DEF ChannelInv, RowOf
<1>3. CASE ~b.genuine
  <2>1. RowsGrow /\ logged' = logged
    BY <1>1 DEF Call, ChannelInv, ChannelTypeOK, RowsGrow, RowOf
  <2>2. Answer(b, 0, "refused") /\ "refused" \in Codes
    BY <1>3 DEF Call, Codes
  <2> QED
    BY <1>1, <1>3, <2>1, <2>2, AnswerStep DEF Call, ChannelTypeOK
<1> QED
  BY <1>2, <1>3

(* A commit adds a row at the end (approval_callback).                     *)
LEMMA CommitStep ==
  ASSUME ChannelInv, NEW b \in handling, Commit(b)
  PROVE  ChannelInv'
<1>1. /\ ChannelTypeOK /\ b \in Button /\ b \in cards /\ b.genuine
      /\ Len(approvals) \in Nat /\ Len(approvals) < MaxRecords /\ MaxRecords \in Nat
      /\ approvals' = Append(approvals, b)
  BY ChannelAssumption DEF ChannelInv, ChannelTypeOK, Commit
<1>2. approvals' # approvals
  <2>1. Len(approvals') = Len(approvals) + 1
    BY <1>1 DEF ChannelTypeOK
  <2> QED
    BY <1>1, <2>1
<1>3. RowsGrow /\ approvals'[Len(approvals) + 1] = b /\ Len(approvals') = Len(approvals) + 1
  BY <1>1, <1>2, RowStep
<1>4. PICK e : e = [button |-> b, row |-> Len(approvals) + 1]
  OBVIOUS
<1>5. /\ recorded' = recorded \cup {e} /\ e.button = b /\ e.row = Len(approvals) + 1
      /\ e \in [button : Button, row : Rows]
  BY <1>1, <1>4 DEF Commit, Rows
<1>6. handling' \subseteq handling /\ UNCHANGED <<cards, pressed, logged, answers, others>>
  BY DEF Commit
<1>7. ChannelTypeOK'
  BY <1>1, <1>3, <1>5, <1>6 DEF ChannelTypeOK, RowsGrow
<1>8. \A d \in recorded' : RowOf(d.button, d.row)'
  <2>1. e.row \in 1..Len(approvals') /\ approvals'[e.row] = e.button
    BY <1>1, <1>3, <1>5
  <2>2. \A d \in recorded : RowOf(d.button, d.row)'
    BY <1>3 DEF ChannelInv, RowsGrow
  <2> QED
    BY <1>5, <2>1, <2>2 DEF RowOf
<1> QED
  BY <1>3, <1>6, <1>7, <1>8 DEF ChannelInv, RowsGrow

(* Every step of the channel keeps the invariant (approvals.py,            *)
(* middleware.py).                                                         *)
LEMMA ChannelStep == ChannelInv /\ [ChannelNext]_channelVars => ChannelInv'
<1> SUFFICES ASSUME ChannelInv, [ChannelNext]_channelVars PROVE ChannelInv'
  OBVIOUS
<1>0. ChannelTypeOK /\ 0 \in Rows
  BY ChannelAssumption DEF ChannelInv, ChannelTypeOK, Rows
<1>1. ASSUME cards \subseteq cards', cards' \subseteq Button, pressed' \subseteq cards',
             handling' \subseteq handling, recorded' \subseteq recorded, others' \in 0..MaxOthers,
             UNCHANGED <<approvals, logged, answers>>
      PROVE  ChannelInv'
  <2>1. ChannelTypeOK'
    BY <1>0, <1>1 DEF ChannelTypeOK
  <2> QED
    BY <1>1, <2>1 DEF ChannelInv, RowOf
<1>2. ASSUME NEW c \in Button, Send(c) PROVE ChannelInv'
  BY <1>0, <1>1, <1>2 DEF Send, ChannelTypeOK
<1>3. ASSUME NEW b \in cards, Press(b) PROVE ChannelInv'
  BY <1>0, <1>1, <1>3 DEF Press, ChannelTypeOK
<1>4. CASE Deny \/ Tick60 \/ Restart
  BY <1>0, <1>1, <1>4 DEF Deny, Tick60, Restart, ChannelTypeOK
<1>5. CASE Other
  <2>1. others' \in 0..MaxOthers
    BY <1>0, <1>5, ChannelAssumption DEF Other, ChannelTypeOK
  <2> QED
    BY <1>0, <1>1, <1>5, <2>1 DEF Other, ChannelTypeOK
<1>6. ASSUME NEW b \in handling, CommitFails(b) PROVE ChannelInv'
  <2>1. b \in Button /\ b \in cards /\ b.genuine /\ Answer(b, 0, "error") /\ "error" \in Codes
    BY <1>0, <1>6 DEF ChannelInv, ChannelTypeOK, CommitFails, Codes
  <2>2. RowsGrow
    <3>1. approvals' = approvals \/ (Len(approvals) < MaxRecords /\ approvals' = Append(approvals, b))
      BY <1>6 DEF CommitFails
    <3> QED
      BY <2>1, <3>1, RowStep
  <2> QED
    BY <1>0, <1>6, <2>1, <2>2, AnswerStep DEF CommitFails, ChannelTypeOK
<1>7. ASSUME NEW e \in recorded, Log(e) \/ LogFails(e) PROVE ChannelInv'
  <2>1. e.button \in Button /\ e.row \in Rows /\ RowOf(e.button, e.row)
    BY <1>0 DEF ChannelInv, ChannelTypeOK
  <2>2. RowsGrow
    BY <1>0, <1>7 DEF Log, LogFails, ChannelInv, ChannelTypeOK, RowsGrow, RowOf
  <2>3. logged \subseteq logged' /\ logged' \subseteq Rows
    BY <1>0, <1>7, <2>1 DEF Log, LogFails, ChannelTypeOK
  <2>4. PICK n \in {0, e.row}, code \in Codes :
          Answer(e.button, n, code) /\ code # "refused" /\ (code = "ok" => n = e.row /\ n \in logged')
    BY <1>7 DEF Log, LogFails, Codes
  <2>5. recorded' \subseteq recorded /\ UNCHANGED <<cards, handling, others>>
    BY <1>7 DEF Log, LogFails
  <2> QED
    BY <1>0, <2>1, <2>2, <2>3, <2>4, <2>5, AnswerStep DEF ChannelTypeOK
<1>8. CASE UNCHANGED channelVars
  BY <1>0, <1>1, <1>8 DEF channelVars, ChannelTypeOK
<1> QED
  BY <1>2, <1>3, <1>4, <1>5, <1>6, <1>7, <1>8, CallbackStep, CommitStep DEF ChannelNext

(* The invariant of the decisions by card.                                 *)
THEOREM ChannelInvariance == ChannelSpec => []ChannelInv
<1>1. ChannelInit => ChannelInv
  BY ChannelAssumption DEF ChannelInit, ChannelInv, ChannelTypeOK, Rows, RowOf
<1> QED
  BY <1>1, ChannelStep, PTL DEF ChannelSpec

(* What a caller is told of a decision is so, and what is recorded is      *)
(* signed, for any buttons and any repetitions (approval_callback).        *)
THEOREM AnswersHold == ChannelSpec => []AnswersAreTrue
<1>1. ChannelInv => AnswersAreTrue
  <2> SUFFICES ASSUME ChannelInv PROVE AnswersAreTrue
    OBVIOUS
  <2>1. DOMAIN approvals = 1..Len(approvals)
    BY DEF ChannelInv, ChannelTypeOK
  <2>2. DecisionsAreSigned
    BY <2>1 DEF ChannelInv, DecisionsAreSigned
  <2>3. ASSUME NEW a \in answers
        PROVE  /\ a.as = "ok" => a.row \in logged /\ approvals[a.row] = a.button
               /\ a.as = "refused" => \A i \in DOMAIN approvals : approvals[i] # a.button
    BY <2>1, <2>2 DEF ChannelInv, RowOf, DecisionsAreSigned
  <2> QED
    BY <2>2, <2>3 DEF AnswersAreTrue
<1> QED
  BY ChannelInvariance, <1>1, PTL

----------------------------------------------------------------------------
(* What the limiter remembers is, once it is pruned, what it let in within *)
(* the last minute, age by age.                                            *)
Ages(f) == f \in [DOMAIN f -> 0..Minute]

WindowInv ==
  /\ Ages(recent)
  /\ admitted = Pruned(recent)
  /\ IsFiniteSet(DOMAIN admitted)
  /\ WindowIsBounded

(* Pruning keeps the young entries, and a second time it drops none        *)
(* (RateLimitMiddleware.dispatch).                                         *)
LEMMA PruneTwice ==
  ASSUME NEW f, Ages(f)
  PROVE  Ages(Pruned(f)) /\ Pruned(Pruned(f)) = Pruned(f) /\ (\A j \in DOMAIN Pruned(f) : Pruned(f)[j] < Minute)
BY DEF Ages, Pruned

(* A limiter that remembers nothing is within its limit                    *)
(* (RateLimitMiddleware.__init__).                                         *)
LEMMA EmptyWindow ==
  /\ DOMAIN NoAges = {} /\ Ages(NoAges) /\ Pruned(NoAges) = NoAges
  /\ IsFiniteSet(DOMAIN NoAges) /\ Cardinality(DOMAIN NoAges) <= Limit
<1>1. DOMAIN NoAges = {} /\ Ages(NoAges) /\ Pruned(NoAges) = NoAges
  BY DEF NoAges, Ages, Pruned
<1> QED
  BY <1>1, FS_EmptySet, ChannelAssumption

(* A request that is let in is one more entry, of the list as of what was  *)
(* let in (RateLimitMiddleware.dispatch).                                  *)
LEMMA AdmitStep ==
  ASSUME WindowInv, Admit
  PROVE  WindowInv'
<1> DEFINE P == Pruned(recent)
<1>0. Minute \in Nat \ {0} /\ Limit \in Nat \ {0}
  BY ChannelAssumption
<1>1. PICK i \in Unused : recent' = Entered(P, i) /\ admitted' = Entered(admitted, i)
  BY DEF Admit
<1>2. /\ admitted = P /\ IsFiniteSet(DOMAIN P) /\ ~(Cardinality(DOMAIN P) >= Limit)
      /\ Ages(P) /\ (\A j \in DOMAIN P : P[j] < Minute)
  BY PruneTwice DEF WindowInv, Admit, Full
<1> HIDE DEF P
<1>3. DOMAIN Entered(P, i) = DOMAIN P \cup {i}
  BY DEF Entered
<1>4. /\ IsFiniteSet(DOMAIN P \cup {i}) /\ Cardinality(DOMAIN P \cup {i}) <= Cardinality(DOMAIN P) + 1
      /\ Cardinality(DOMAIN P) \in Nat
  <2>1. PICK D : D = DOMAIN P
    OBVIOUS
  <2>2. IsFiniteSet(D)
    BY <1>2, <2>1
  <2>3. Cardinality(D) \in Nat
    BY <2>2, FS_CardinalityType
  <2>4. /\ IsFiniteSet(D \cup {i})
        /\ Cardinality(D \cup {i}) = IF i \in D THEN Cardinality(D) ELSE Cardinality(D) + 1
    BY <2>2, FS_AddElement
  <2> QED
    BY <2>1, <2>3, <2>4
<1>5. Ages(Entered(P, i)) /\ (\A j \in DOMAIN Entered(P, i) : Entered(P, i)[j] < Minute)
  BY <1>0, <1>2 DEF Ages, Entered
<1>6. Pruned(Entered(P, i)) = Entered(P, i)
  BY <1>3, <1>5 DEF Pruned, Entered
<1>7. Ages(recent)'
  BY <1>1, <1>5 DEF Ages
<1>8. Pruned(recent)' = Pruned(recent') /\ recent' = admitted'
  BY <1>1, <1>2 DEF Pruned
<1>9. IsFiniteSet(DOMAIN admitted') /\ Cardinality(DOMAIN admitted') <= Limit
  <2>1. DOMAIN admitted' = DOMAIN P \cup {i}
    BY <1>1, <1>2, <1>3
  <2>2. PICK c \in Nat : c = Cardinality(DOMAIN P)
    BY <1>4
  <2>3. PICK d : d = Cardinality(DOMAIN P \cup {i})
    OBVIOUS
  <2>4. d \in Nat
    BY <1>4, <2>3, FS_CardinalityType
  <2>5. d <= c + 1 /\ ~(c >= Limit)
    BY <1>2, <1>4, <2>2, <2>3
  <2>6. d <= Limit
    BY <1>0, <2>2, <2>4, <2>5
  <2> QED
    BY <1>4, <2>1, <2>3, <2>6
<1> QED
  BY <1>1, <1>6, <1>7, <1>8, <1>9 DEF WindowInv, WindowIsBounded

(* As time goes by an entry leaves the list's minute at the moment it      *)
(* leaves that of what was let in (RateLimitMiddleware.dispatch).          *)
LEMMA AgeingStep ==
  ASSUME WindowInv, Tick60
  PROVE  WindowInv'
<1>0. Minute \in Nat \ {0} /\ Limit \in Nat \ {0}
  BY ChannelAssumption
<1>1. recent' = Older(recent) /\ Ages(recent) /\ admitted = Pruned(recent)
  BY DEF WindowInv, Tick60
<1>2. Ages(recent)'
  BY <1>0, <1>1 DEF Ages, Older
<1>3. \A j \in DOMAIN recent : recent[j] \in 0..Minute /\ Older(recent)[j] = (IF recent[j] < Minute THEN recent[j] + 1 ELSE Minute)
  BY <1>1 DEF Ages, Older
<1>4. DOMAIN Pruned(recent') = {j \in DOMAIN admitted : admitted[j] + 1 < Minute}
  BY <1>0, <1>1, <1>3 DEF Pruned, Older
<1>5. DOMAIN admitted' = {j \in DOMAIN admitted : admitted[j] + 1 < Minute}
  BY DEF Tick60
<1>6. \A j \in DOMAIN admitted' : Pruned(recent')[j] = admitted'[j]
  BY <1>0, <1>1, <1>3, <1>4, <1>5 DEF Pruned, Older, Tick60
<1>7. admitted' = Pruned(recent')
  BY <1>4, <1>5, <1>6 DEF Pruned, Tick60
<1>8. IsFiniteSet(DOMAIN admitted') /\ Cardinality(DOMAIN admitted') <= Limit
  <2>1. DOMAIN admitted' \subseteq DOMAIN admitted /\ IsFiniteSet(DOMAIN admitted) /\ Cardinality(DOMAIN admitted) <= Limit
    BY <1>5 DEF WindowInv, WindowIsBounded
  <2>2. /\ IsFiniteSet(DOMAIN admitted') /\ Cardinality(DOMAIN admitted') <= Cardinality(DOMAIN admitted)
        /\ Cardinality(DOMAIN admitted) \in Nat /\ Cardinality(DOMAIN admitted') \in Nat
    BY <2>1, FS_Subset, FS_CardinalityType
  <2> QED
    BY <1>0, <2>1, <2>2
<1>9. Pruned(recent)' = Pruned(recent')
  BY DEF Pruned
<1> QED
  BY <1>2, <1>7, <1>8, <1>9 DEF WindowInv, WindowIsBounded

(* Every step keeps list and admissions together (middleware.py).          *)
LEMMA WindowStep == WindowInv /\ [ChannelNext]_channelVars => WindowInv'
<1> SUFFICES ASSUME WindowInv, [ChannelNext]_channelVars PROVE WindowInv'
  OBVIOUS
<1>1. CASE UNCHANGED <<recent, admitted>>
  BY <1>1 DEF WindowInv, WindowIsBounded, Pruned, Ages
<1>2. CASE Admit
  BY <1>2, AdmitStep
<1>3. CASE Tick60
  BY <1>3, AgeingStep
<1>4. CASE Deny
  <2>1. /\ Ages(Pruned(recent)) /\ Pruned(Pruned(recent)) = Pruned(recent)
        /\ recent' = Pruned(recent) /\ admitted' = admitted
    BY <1>4, PruneTwice DEF WindowInv, Deny
  <2>2. Pruned(recent)' = Pruned(recent') /\ Ages(recent)' = Ages(recent')
    BY DEF Pruned, Ages
  <2> QED
    BY <2>1, <2>2 DEF WindowInv, WindowIsBounded
<1>5. CASE Restart
  <2>1. recent' = NoAges /\ admitted' = NoAges
    BY <1>5 DEF Restart
  <2>2. Pruned(recent)' = Pruned(recent') /\ Ages(recent)' = Ages(recent')
    BY DEF Pruned, Ages
  <2> QED
    BY <2>1, <2>2, EmptyWindow DEF WindowInv, WindowIsBounded
<1> QED
  BY <1>1, <1>2, <1>3, <1>4, <1>5
     DEF ChannelNext, Send, Press, Call, Commit, CommitFails, Log, LogFails, Other, channelVars

(* In no minute more than requests_per_minute requests are let in, for any *)
(* limit, any division of the minute and any order of calls, denials and   *)
(* restarts (RateLimitMiddleware.dispatch).                                *)
THEOREM WindowHolds == ChannelSpec => []WindowIsBounded
<1>1. ChannelInit => WindowInv
  BY EmptyWindow DEF ChannelInit, WindowInv, WindowIsBounded
<1>2. WindowInv => WindowIsBounded
  BY DEF WindowInv
<1> QED
  BY <1>1, <1>2, WindowStep, PTL DEF ChannelSpec
=============================================================================
