------------------------------ MODULE KevFeed ------------------------------
(***************************************************************************)
(* The cached catalogs of threat intelligence: CISAKEVFeed                 *)
(* (ingestion/cisa_kev.py), which loads the whole catalog of known         *)
(* exploited CVEs once, and EPSSFeed (ingestion/epss_feed.py), which keeps *)
(* the score of each CVE it has got.  Coroutines share a feed object; each *)
(* waits for the network with nothing locked, and goes on with what the    *)
(* feed holds by then.                                                     *)
(***************************************************************************)
EXTENDS Naturals

CONSTANTS
  User,    \* the coroutines that use the feeds
  Cve,     \* the CVEs they ask for
  Listed   \* those in the catalog

ASSUME FeedAssumption == Listed \subseteq Cve /\ Listed # {} /\ "unset" \notin Cve

VARIABLES
  catalog,  \* CISAKEVFeed._catalog, as its CVEs
  cveSet,   \* CISAKEVFeed._cve_set, Unset or a set
  scored,   \* the CVEs in EPSSFeed._cache
  user,     \* what each coroutine waits for
  told,     \* history: the answers
  failures  \* history: a fetch of the catalog has not got it

feedVars == <<catalog, cveSet, scored, user, told, failures>>

(* None is not a set of CVEs.                                              *)
Unset == {"unset"}

Idle == [wants |-> "nothing"]

Waiting == {Idle} \cup [wants : {"catalog"}] \cup [wants : {"known", "detail", "score"}, cve : Cve]

FeedTypeOK ==
  /\ catalog \in {{}, Listed} /\ cveSet \in {Unset, {}, Listed}
  /\ scored \subseteq Cve
  /\ user \in [User -> Waiting]
  /\ told \subseteq [of : {"known", "detail"}, cve : Cve, yes : BOOLEAN, excused : BOOLEAN]
  /\ failures \in BOOLEAN

FeedInit ==
  /\ catalog = {} /\ cveSet = Unset /\ scored = {}
  /\ user = [u \in User |-> Idle]
  /\ told = {} /\ failures = FALSE

----------------------------------------------------------------------------
(* is_known_exploited looks into the set, get_kev_detail walks the list.   *)
Holds(what) == IF what = "known" THEN cveSet ELSE catalog

HoldsNext(what) == IF what = "known" THEN cveSet' ELSE catalog'

Tell(what, cve, yes, excused) ==
  told' = told \cup {[of |-> what, cve |-> cve, yes |-> yes, excused |-> excused]}

(* With a set, even an empty one, there is nothing to fetch.               *)
AskCached(u, what, cve) ==
  /\ user[u] = Idle /\ cveSet # Unset
  /\ Tell(what, cve, cve \in Holds(what), failures)
  /\ UNCHANGED <<catalog, cveSet, scored, user, failures>>

(* Mutant of Ask: the answer does not wait for the catalog.                *)
AskAtOnce(u, what, cve) ==
  /\ user[u] = Idle /\ cveSet = Unset
  /\ Tell(what, cve, FALSE, failures)
  /\ UNCHANGED <<catalog, cveSet, scored, user, failures>>

Ask(u, what, cve) ==
  /\ user[u] = Idle /\ cveSet = Unset
  /\ user' = [user EXCEPT ![u] = [wants |-> what, cve |-> cve]]
  /\ UNCHANGED <<catalog, cveSet, scored, told, failures>>

(* Mutant of Fetch: a catalog that is there is fetched again.              *)
FetchAnew(u) ==
  /\ user[u] = Idle
  /\ user' = [user EXCEPT ![u] = [wants |-> "catalog"]]
  /\ UNCHANGED <<catalog, cveSet, scored, told, failures>>

(* fetch_catalog, called by itself: a catalog that is there is returned.   *)
Fetch(u) ==
  /\ user[u] = Idle /\ catalog = {}
  /\ user' = [user EXCEPT ![u] = [wants |-> "catalog"]]
  /\ UNCHANGED <<catalog, cveSet, scored, told, failures>>

Fetching(u) == user[u].wants \in {"catalog", "known", "detail"}

(* The fetch of u is over, and its answer given.                           *)
Resume(u) ==
  /\ user' = [user EXCEPT ![u] = Idle]
  /\ IF user[u].wants = "catalog" THEN UNCHANGED told
       ELSE Tell(user[u].wants, user[u].cve, user[u].cve \in HoldsNext(user[u].wants), failures')
  /\ UNCHANGED scored

Fetched(u) ==
  /\ Fetching(u)
  /\ catalog' = Listed /\ cveSet' = Listed
  /\ UNCHANGED failures
  /\ Resume(u)

(* An answer that is not 200 leaves everything as it is.                   *)
FetchRefused(u) ==
  /\ Fetching(u)
  /\ UNCHANGED <<catalog, cveSet>> /\ failures' = TRUE
  /\ Resume(u)

(* Mutant of FetchRaises: only the set is emptied.                         *)
FetchRaisesHalf(u) ==
  /\ Fetching(u)
  /\ UNCHANGED catalog /\ cveSet' = {} /\ failures' = TRUE
  /\ Resume(u)

(* An exception empties both, whoever may have filled them meanwhile, and  *)
(* so does an answer of 200 that holds no vulnerabilities.                 *)
FetchRaises(u) ==
  /\ Fetching(u)
  /\ catalog' = {} /\ cveSet' = {} /\ failures' = TRUE
  /\ Resume(u)

(* fetch_score: a score that was got is kept, a failure is 0.0 this time.  *)
AskScore(u, cve) ==
  /\ user[u] = Idle /\ cve \notin scored
  /\ user' = [user EXCEPT ![u] = [wants |-> "score", cve |-> cve]]
  /\ UNCHANGED <<catalog, cveSet, scored, told, failures>>

Scored(u) ==
  /\ user[u].wants = "score"
  /\ user' = [user EXCEPT ![u] = Idle]
  /\ scored' \in {scored, scored \cup {user[u].cve}}
  /\ UNCHANGED <<catalog, cveSet, told, failures>>

FeedNext ==
  \E u \in User :
    \/ \E what \in {"known", "detail"}, cve \in Cve : AskCached(u, what, cve) \/ Ask(u, what, cve)
    \/ Fetch(u) \/ Fetched(u) \/ FetchRefused(u) \/ FetchRaises(u)
    \/ \E cve \in Cve : AskScore(u, cve)
    \/ Scored(u)

FeedSpec == FeedInit /\ [][FeedNext]_feedVars

----------------------------------------------------------------------------
(* is_known_exploited and get_kev_detail never disagree, in whatever order *)
(* overlapping fetches end: the set is unset or that of the list           *)
(* (CISAKEVFeed.fetch_catalog).                                            *)
SetIsThatOfCatalog == IF cveSet = Unset THEN catalog = {} ELSE cveSet = catalog

(* Nobody is told that a CVE is exploited which is not listed, and a       *)
(* listed one is denied only after a fetch did not get the catalog         *)
(* (CISAKEVFeed.is_known_exploited, get_kev_detail).                       *)
DenialsAreExcused ==
  \A t \in told : IF t.yes THEN t.cve \in Listed ELSE t.cve \in Listed => t.excused

(* A catalog that is loaded stays loaded from when no fetch is under way:  *)
(* only one that began before it was loaded can still empty it             *)
(* (CISAKEVFeed.fetch_catalog).                                            *)
LoadedStaysLoaded ==
  [](catalog = Listed /\ (\A u \in User : ~Fetching(u)) => [](catalog = Listed))
=============================================================================
