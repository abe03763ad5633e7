-------------------------------- MODULE Fetch -------------------------------
(***************************************************************************)
(* fluid.fetchResources (MyInfusion.js): components fetch the resources    *)
(* they need, and call back once all have come.  Requests for a resource   *)
(* with forceCache share one cache: the first one asks the server, later   *)
(* ones listen to the first or take the cached text.  A component may also *)
(* wait for what others of its class have pending (amalgamateClasses).     *)
(***************************************************************************)
EXTENDS Naturals

CONSTANTS
  Fetch,       \* calls of fetchResources
  Url,
  ForceCache,  \* the URLs whose specifications have forceCache
  NoFetch

ASSUME CacheAssumption == ForceCache \subseteq Url
ASSUME FetchNoneAssumption == NoFetch \notin Fetch

VARIABLES
  specs,        \* the specifications a fetch waits for: whose, and which URL
  queued,       \* specifications under way
  completed,    \* specifications with a completeTime
  called,       \* how often the callback of a fetch was called
  inFlight,     \* requests at the server
  resourceCache,\* "none", "firer" while the first request runs, "text"
  listeners,    \* specifications that listen to the firer of a URL
  pendingClass, \* the specification pending for a URL in the shared class
  spoilt        \* history: URLs with a failed request or a cleared cache

fetchVars == <<specs, queued, completed, called, inFlight, resourceCache,
               listeners, pendingClass, spoilt>>

Spec_ == Fetch \X Url

FetchInit ==
  /\ specs = [f \in Fetch |-> {}]
  /\ queued = {} /\ completed = {}
  /\ called = [f \in Fetch |-> 0]
  /\ inFlight = {}
  /\ resourceCache = [u \in Url |-> "none"]
  /\ listeners = [u \in Url |-> {}]
  /\ pendingClass = [u \in Url |-> NoFetch]
  /\ spoilt = {}

(* a bug: one of the specifications is enough.                             *)
CallBackEarly(now, waiting) ==
  called' = [f \in Fetch |-> IF waiting[f] \cap now # {} THEN 1 ELSE called[f]]

(* fetchResourcesImpl of every fetch that waits for one of the completed   *)
(* specifications: it calls back when none is left, and only once.         *)
CallBack(now, waiting) ==
  called' = [f \in Fetch |->
               IF waiting[f] # {} /\ waiting[f] \subseteq now /\ called[f] = 0
               THEN 1 ELSE called[f]]

(* issueCachedRequest for the specifications of one fetch: the first for a *)
(* URL puts a firer in the cache and is pending for its class, a later one *)
(* listens to it, and a cached text is success at once.                    *)
Cached(own) == {s \in own : s[2] \in ForceCache /\ resourceCache[s[2]] = "text"}
Joins(own)  == {s \in own : s[2] \in ForceCache /\ resourceCache[s[2]] = "firer"}
IssueCachedRequests(f, own) ==
  LET first == {s[2] : s \in own \ (Cached(own) \cup Joins(own))} \cap ForceCache
  IN  /\ resourceCache' = [u \in Url |-> IF u \in first THEN "firer" ELSE resourceCache[u]]
      /\ listeners' = [u \in Url |->
                         IF u \in first THEN {}
                         ELSE listeners[u] \cup {s \in Joins(own) : s[2] = u}]
      /\ pendingClass' = [u \in Url |-> IF u \in first THEN f ELSE pendingClass[u]]

(* issueRequest: queued, and sent unless another request does.             *)
IssueRequests(f, own) ==
  /\ queued' = queued \cup (own \ Cached(own))
  /\ completed' = completed \cup Cached(own)
  /\ inFlight' = inFlight \cup (own \ (Cached(own) \cup Joins(own)))
  /\ IssueCachedRequests(f, own)

(* What the class has pending, which a fetch may adopt.                    *)
AmalgamateClasses == {<<pendingClass[u], u>> : u \in {v \in Url : pendingClass[v] # NoFetch}}

(* A fetch starts: its own specifications are issued.                      *)
Start(f, urls, amalgamate) ==
  LET own == {f} \X urls
  IN  /\ specs[f] = {}
      /\ specs' = [specs EXCEPT ![f] = own \cup (IF amalgamate THEN AmalgamateClasses ELSE {})]
      /\ IssueRequests(f, own)
      /\ CallBack(completed', specs')
      /\ UNCHANGED spoilt

(* completeRequest for specifications, and the fetches that wait for them. *)
CompleteRequest(done) ==
  /\ queued' = queued \ done
  /\ completed' = completed \cup done
  /\ CallBack(completed', specs)

(* Those the first answer completes: who asked and who listens.            *)
WithListeners(s) == {s} \cup listeners[s[2]]

(* The first answer replaces the firer by the text and completes all who   *)
(* listen.  When the cache was cleared meanwhile the callback fails before *)
(* it completes anything.                                                  *)
HandleCachedRequest(s) ==
  LET u == s[2]
  IN  CASE resourceCache[u] = "firer" ->
             /\ resourceCache' = [resourceCache EXCEPT ![u] = "text"]
             /\ listeners' = [listeners EXCEPT ![u] = {}]
             /\ pendingClass' = [pendingClass EXCEPT ![u] = NoFetch]
             /\ CompleteRequest(WithListeners(s))
        [] resourceCache[u] = "text" ->
             CompleteRequest({s}) /\ UNCHANGED <<resourceCache, listeners, pendingClass>>
        [] OTHER ->
             UNCHANGED <<queued, completed, called, resourceCache, listeners, pendingClass>>

Success(s) ==
  /\ s \in inFlight
  /\ inFlight' = inFlight \ {s}
  /\ IF s[2] \in ForceCache THEN HandleCachedRequest(s)
     ELSE CompleteRequest({s}) /\ UNCHANGED <<resourceCache, listeners, pendingClass>>
  /\ UNCHANGED <<specs, spoilt>>

(* An error completes the specification that asked; the firer stays in the *)
(* cache and nobody will fire it.                                          *)
Error(s) ==
  /\ s \in inFlight
  /\ inFlight' = inFlight \ {s}
  /\ CompleteRequest({s})
  /\ spoilt' = spoilt \cup ({s[2]} \cap ForceCache)
  /\ UNCHANGED <<specs, resourceCache, listeners, pendingClass>>

ClearResourceCache(u) ==
  /\ resourceCache[u] # "none"
  /\ resourceCache' = [resourceCache EXCEPT ![u] = "none"]
  /\ listeners' = [listeners EXCEPT ![u] = {}]
  /\ spoilt' = spoilt \cup {u}
  /\ UNCHANGED <<specs, queued, completed, called, inFlight, pendingClass>>

Answered(s) == Success(s) \/ Error(s)

FetchNext ==
  \/ \E f \in Fetch, urls \in (SUBSET Url) \ {{}}, a \in BOOLEAN : Start(f, urls, a)
  \/ \E s \in Spec_ : Answered(s)
  \/ \E u \in ForceCache : ClearResourceCache(u)

(* Every request is answered in the end, one way or the other.             *)
FetchFairness == \A s \in Spec_ : WF_fetchVars(Answered(s))
FetchSpec == FetchInit /\ [][FetchNext]_fetchVars /\ FetchFairness

-----------------------------------------------------------------------------
FetchTypeOK ==
  /\ specs \in [Fetch -> SUBSET Spec_]
  /\ queued \subseteq Spec_ /\ completed \subseteq Spec_ /\ inFlight \subseteq queued
  /\ resourceCache \in [Url -> {"none", "firer", "text"}]
  /\ listeners \in [Url -> SUBSET Spec_]
  /\ pendingClass \in [Url -> Fetch \cup {NoFetch}]
  /\ called \in [Fetch -> {0, 1}]

(* A fetch calls back exactly when everything it waits for, adopted        *)
(* specifications included, has completed; a URL with forceCache is asked  *)
(* for once, while nobody clears the cache and no request fails.           *)
FetchSafe ==
  /\ \A f \in Fetch : called[f] = 1 <=> (specs[f] # {} /\ specs[f] \subseteq completed)
  /\ \A s, t \in inFlight : s[2] = t[2] /\ s[2] \in ForceCache \ spoilt => s = t

(* Only a fetch that has started has requests, and what listens was never  *)
(* sent itself.                                                            *)
StartedOnly ==
  /\ \A s \in queued : specs[s[1]] # {}
  /\ \A u \in Url : \A s \in listeners[u] : specs[s[1]] # {} /\ s \notin inFlight

(* While the cache holds no firer for a URL, nobody asks the server for it.*)
FirerAsks ==
  \A s \in inFlight : s[2] \in ForceCache \ spoilt => resourceCache[s[2]] = "firer"

(* The inductive invariant, with which the proofs argue.                   *)
FetchInv == FetchTypeOK /\ StartedOnly /\ FirerAsks /\ FetchSafe

(* Every fetch calls back in the end, unless a shared request failed or    *)
(* the cache was cleared under it.                                         *)
FetchEnds ==
  \A f \in Fetch :
    specs[f] # {} ~> (called[f] = 1 \/ \E s \in specs[f] : s[2] \in spoilt)
=============================================================================
