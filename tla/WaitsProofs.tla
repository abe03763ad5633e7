------------------------------ MODULE WaitsProofs ------------------------------
(***************************************************************************)
(* A fetch calls back exactly when all it waits for has completed, and a   *)
(* shared resource is asked for once: for any fetches and URLs, whatever   *)
(* fails and whenever the cache is cleared.                                *)
(*                                                                         *)
(* An uploader sends a file once, one at a time and within its limit until *)
(* the server refuses one, and its buttons agree with it: for any finite   *)
(* set of files, any limit and any selections.                             *)
(*                                                                         *)
(* The effects of an element run one after the other, leave it as the last *)
(* one asked for says, and resolve its promise when nothing is left, for   *)
(* any calls of a page; a tooltip that was closed stays hidden, for any    *)
(* elements and any delays that are left over.                             *)
(***************************************************************************)
EXTENDS Fetch, Uploader, Effects, Tooltip,
        SequenceTheorems, FiniteSetTheorems, WellFoundedInduction, TLAPS

LEMMA FetchInitial == FetchInit => FetchInv
  BY DEF FetchInit, FetchInv, FetchTypeOK, StartedOnly, FirerAsks, FetchSafe, Spec_

(* Calling back keeps each fetch's promise, if what has completed stays so *)
(* and fetches that have started wait for the same as before.              *)
LEMMA CallBackOK ==
  ASSUME FetchInv, NEW now \in SUBSET Spec_, completed \subseteq now, specs' \in [Fetch -> SUBSET Spec_],
         \A f \in Fetch : specs[f] # {} => specs'[f] = specs[f],
         CallBack(now, specs')
  PROVE  /\ called' \in [Fetch -> {0, 1}]
         /\ \A f \in Fetch : called'[f] = 1 <=> (specs'[f] # {} /\ specs'[f] \subseteq now)
<1>1. \A f \in Fetch : called'[f] = IF specs'[f] # {} /\ specs'[f] \subseteq now /\ called[f] = 0
                                    THEN 1 ELSE called[f]
  BY DEF CallBack
<1>2. \A f \in Fetch : called[f] \in {0, 1}
  BY DEF FetchInv, FetchTypeOK
<1>3. called' \in [Fetch -> {0, 1}]
  BY <1>2 DEF CallBack
<1>4. \A f \in Fetch : called[f] = 1 => specs'[f] # {} /\ specs'[f] \subseteq now
  BY DEF FetchInv, FetchSafe
<1>5. QED
  BY <1>1, <1>2, <1>3, <1>4

(* Starting: nothing the fetch asks for itself is in flight or listening,  *)
(* and the first for a shared URL puts the firer in the cache.             *)
LEMMA StartStep ==
  ASSUME FetchInv, NEW f \in Fetch, NEW urls \in SUBSET Url, urls # {}, NEW a \in BOOLEAN,
         Start(f, urls, a)
  PROVE  FetchInv'
<1> DEFINE own  == {f} \X urls
           sent == own \ (Cached(own) \cup Joins(own))
           first == {s[2] : s \in sent} \cap ForceCache
<1>1. /\ specs[f] = {} /\ UNCHANGED spoilt
      /\ specs' = [specs EXCEPT ![f] = own \cup (IF a THEN AmalgamateClasses ELSE {})]
      /\ queued' = queued \cup (own \ Cached(own))
      /\ completed' = completed \cup Cached(own)
      /\ inFlight' = inFlight \cup sent
      /\ resourceCache' = [u \in Url |-> IF u \in first THEN "firer" ELSE resourceCache[u]]
      /\ listeners' = [u \in Url |-> IF u \in first THEN {}
                                     ELSE listeners[u] \cup {s \in Joins(own) : s[2] = u}]
      /\ pendingClass' = [u \in Url |-> IF u \in first THEN f ELSE pendingClass[u]]
      /\ CallBack(completed', specs')
  BY DEF Start, IssueRequests, IssueCachedRequests
<1>2. own \subseteq Spec_ /\ own # {} /\ \A s \in own : s[1] = f /\ s[2] \in Url /\ s = <<f, s[2]>>
  <2>1. PICK u \in urls : TRUE
    OBVIOUS
  <2>2. <<f, u>> \in own
    OBVIOUS
  <2>3. \A s \in own : s[1] = f /\ s[2] \in Url /\ s = <<f, s[2]>>
    OBVIOUS
  <2>4. own \subseteq Spec_
    BY DEF Spec_
  <2>5. QED
    BY <2>2, <2>3, <2>4
<1>3. Cached(own) \subseteq own /\ Joins(own) \subseteq own /\ sent \subseteq own
  BY DEF Cached, Joins
<1>4. AmalgamateClasses \subseteq Spec_
  <2>1. \A u \in Url : pendingClass[u] # NoFetch => pendingClass[u] \in Fetch
    BY DEF FetchInv, FetchTypeOK
  <2>2. QED
    BY <2>1 DEF AmalgamateClasses, Spec_
<1>5. \A s \in sent : s[2] \in ForceCache => resourceCache[s[2]] = "none" /\ s[2] \in first
  BY <1>2, <1>3 DEF Cached, Joins, FetchInv, FetchTypeOK
<1>6. \A s \in Joins(own) : s \notin sent
  OBVIOUS
<1>7. \A s \in queued \cup inFlight : s \notin own
  BY <1>1, <1>2 DEF FetchInv, FetchTypeOK, StartedOnly
<1>8. \A u \in Url : \A s \in listeners[u] : s \notin own
  BY <1>1, <1>2 DEF FetchInv, StartedOnly
<1>9. first \subseteq ForceCache /\ \A u \in first : u \in Url /\ resourceCache[u] = "none"
  BY <1>2, <1>3, <1>5
<1> HIDE DEF own, sent, first
<1>10. /\ specs' \in [Fetch -> SUBSET Spec_] /\ specs'[f] # {}
       /\ \A g \in Fetch : specs[g] # {} => specs'[g] = specs[g]
  BY <1>1, <1>2, <1>4 DEF FetchInv, FetchTypeOK
<1>11. completed' \in SUBSET Spec_
  BY <1>1, <1>2, <1>3 DEF FetchInv, FetchTypeOK
<1>12. /\ called' \in [Fetch -> {0, 1}]
       /\ \A g \in Fetch : called'[g] = 1 <=> (specs'[g] # {} /\ specs'[g] \subseteq completed')
  BY <1>1, <1>10, <1>11, CallBackOK
<1>13. FetchTypeOK'
  <2>1. queued' \subseteq Spec_ /\ inFlight' \subseteq queued'
    BY <1>1, <1>2, <1>3 DEF FetchInv, FetchTypeOK, sent
  <2>2. resourceCache' \in [Url -> {"none", "firer", "text"}]
        /\ pendingClass' \in [Url -> Fetch \cup {NoFetch}]
    BY <1>1 DEF FetchInv, FetchTypeOK
  <2>3. listeners' \in [Url -> SUBSET Spec_]
    BY <1>1, <1>2, <1>3 DEF FetchInv, FetchTypeOK
  <2>4. QED
    BY <1>10, <1>11, <1>12, <2>1, <2>2, <2>3 DEF FetchTypeOK
<1>14. StartedOnly'
  <2>1. \A s \in queued' : specs'[s[1]] # {}
    BY <1>1, <1>2, <1>10 DEF FetchInv, FetchTypeOK, StartedOnly, Spec_
  <2>2. ASSUME NEW u \in Url, NEW s \in listeners'[u] PROVE specs'[s[1]] # {} /\ s \notin inFlight'
    <3>1. s \in listeners[u] \/ s \in Joins(own)
      BY <1>1, <2>2
    <3>2. CASE s \in listeners[u]
      <4>1. s \in Spec_ /\ specs[s[1]] # {} /\ s \notin inFlight
        BY <3>2 DEF FetchInv, FetchTypeOK, StartedOnly
      <4>2. QED
        BY <3>2, <4>1, <1>1, <1>3, <1>8, <1>10 DEF Spec_
    <3>3. CASE s \in Joins(own)
      BY <3>3, <1>1, <1>2, <1>3, <1>6, <1>7, <1>10
    <3>4. QED
      BY <3>1, <3>2, <3>3
  <2>3. QED
    BY <2>1, <2>2 DEF StartedOnly
<1>15. FirerAsks'
  <2> SUFFICES ASSUME NEW s \in inFlight', s[2] \in ForceCache \ spoilt
               PROVE  resourceCache'[s[2]] = "firer"
    BY <1>1 DEF FirerAsks
  <2>1. s[2] \in Url
    BY CacheAssumption
  <2>2. CASE s \in inFlight
    BY <2>1, <2>2, <1>1 DEF FetchInv, FirerAsks
  <2>3. CASE s \in sent
    BY <2>1, <2>3, <1>1, <1>5
  <2>4. QED
    BY <2>2, <2>3, <1>1
<1>16. FetchSafe'
  <2> SUFFICES ASSUME NEW s \in inFlight', NEW t \in inFlight', s[2] = t[2],
                      s[2] \in ForceCache \ spoilt
               PROVE  s = t
    BY <1>1, <1>12 DEF FetchSafe
  <2>1. \A q \in inFlight : q[2] = s[2] => resourceCache[s[2]] = "firer"
    BY DEF FetchInv, FirerAsks
  <2>2. \A q \in sent : q[2] = s[2] => resourceCache[s[2]] = "none"
    BY <1>5
  <2>3. CASE s \in inFlight /\ t \in inFlight
    BY <2>3 DEF FetchInv, FetchSafe
  <2>4. CASE s \in sent /\ t \in sent
    BY <2>4, <1>2, <1>3
  <2>5. QED
    BY <2>1, <2>2, <2>3, <2>4, <1>1
<1>17. QED
  BY <1>13, <1>14, <1>15, <1>16 DEF FetchInv

(* An answer that completes some specifications and leaves the cache as it *)
(* is, or replaces a firer, after the request is no longer in flight.      *)
LEMMA CompletingStep ==
  ASSUME FetchInv, NEW s \in inFlight, NEW ready \in SUBSET Spec_,
         ready \cap inFlight \subseteq {s}, inFlight' = inFlight \ {s},
         CompleteRequest(ready), UNCHANGED specs,
         spoilt \subseteq spoilt',
         \/ UNCHANGED <<resourceCache, listeners, pendingClass>>
         \/ /\ UNCHANGED spoilt /\ s[2] \in ForceCache
            /\ resourceCache' = [resourceCache EXCEPT ![s[2]] = "text"]
            /\ listeners' = [listeners EXCEPT ![s[2]] = {}]
            /\ pendingClass' = [pendingClass EXCEPT ![s[2]] = NoFetch]
  PROVE  FetchInv'
<1>1. queued' = queued \ ready /\ completed' = completed \cup ready /\ CallBack(completed', specs)
  BY DEF CompleteRequest
<1>2. s \in Spec_ /\ s[2] \in Url
  BY DEF FetchInv, FetchTypeOK, Spec_
<1>3. /\ called' \in [Fetch -> {0, 1}]
      /\ \A g \in Fetch : called'[g] = 1 <=> (specs'[g] # {} /\ specs'[g] \subseteq completed')
  <2>1. completed' \in SUBSET Spec_ /\ completed \subseteq completed'
    BY <1>1 DEF FetchInv, FetchTypeOK
  <2>2. specs' \in [Fetch -> SUBSET Spec_] /\ CallBack(completed', specs')
    BY <1>1 DEF FetchInv, FetchTypeOK
  <2>3. QED
    BY <2>1, <2>2, CallBackOK
<1>4. FetchTypeOK'
  <2>1. /\ resourceCache' \in [Url -> {"none", "firer", "text"}]
        /\ listeners' \in [Url -> SUBSET Spec_]
        /\ pendingClass' \in [Url -> Fetch \cup {NoFetch}]
    BY <1>2 DEF FetchInv, FetchTypeOK
  <2>2. QED
    BY <1>1, <1>3, <2>1 DEF FetchInv, FetchTypeOK
<1>5. \A u \in Url : listeners'[u] \subseteq listeners[u]
  BY <1>2 DEF FetchInv, FetchTypeOK
<1>6. StartedOnly'
  BY <1>1, <1>5 DEF FetchInv, StartedOnly
<1>7. FirerAsks'
  <2> SUFFICES ASSUME NEW t \in inFlight', t[2] \in ForceCache \ spoilt'
               PROVE  resourceCache'[t[2]] = "firer"
    BY DEF FirerAsks
  <2>1. t \in inFlight /\ t # s /\ t[2] \in ForceCache \ spoilt /\ resourceCache[t[2]] = "firer"
    BY DEF FetchInv, FirerAsks
  <2>2. t[2] # s[2]
    BY <2>1 DEF FetchInv, FetchSafe
  <2>3. t[2] \in Url
    BY <2>1, CacheAssumption
  <2>4. QED
    BY <2>1, <2>2, <2>3, <1>2 DEF FetchInv, FetchTypeOK
<1>8. FetchSafe'
  BY <1>3 DEF FetchInv, FetchSafe
<1>9. QED
  BY <1>4, <1>6, <1>7, <1>8 DEF FetchInv

LEMMA SuccessStep ==
  ASSUME FetchInv, NEW s \in Spec_, Success(s)
  PROVE  FetchInv'
<1>1. s \in inFlight /\ inFlight' = inFlight \ {s} /\ UNCHANGED <<specs, spoilt>>
  BY DEF Success
<1>2. s[2] \in Url /\ {s} \in SUBSET Spec_
  BY DEF Spec_
<1>3. CASE CompleteRequest({s}) /\ UNCHANGED <<resourceCache, listeners, pendingClass>>
  BY <1>1, <1>2, <1>3, CompletingStep
<1>4. CASE s[2] \in ForceCache /\ resourceCache[s[2]] = "firer"
  <2>1. /\ resourceCache' = [resourceCache EXCEPT ![s[2]] = "text"]
        /\ listeners' = [listeners EXCEPT ![s[2]] = {}]
        /\ pendingClass' = [pendingClass EXCEPT ![s[2]] = NoFetch]
        /\ CompleteRequest(WithListeners(s))
    BY <1>4 DEF Success, HandleCachedRequest
  <2>2. WithListeners(s) \in SUBSET Spec_ /\ WithListeners(s) \cap inFlight \subseteq {s}
    BY <1>2 DEF WithListeners, FetchInv, FetchTypeOK, StartedOnly
  <2>3. QED
    BY <1>1, <1>4, <2>1, <2>2, CompletingStep
<1>5. CASE UNCHANGED <<queued, completed, called, resourceCache, listeners, pendingClass>>
           /\ s[2] \in ForceCache /\ resourceCache[s[2]] \notin {"firer", "text"}
  BY <1>1, <1>5 DEF FetchInv, FetchTypeOK, StartedOnly, FirerAsks, FetchSafe
<1>6. QED
  BY <1>3, <1>4, <1>5 DEF Success, HandleCachedRequest

LEMMA ErrorStep ==
  ASSUME FetchInv, NEW s \in Spec_, Error(s)
  PROVE  FetchInv'
<1>1. /\ s \in inFlight /\ inFlight' = inFlight \ {s} /\ CompleteRequest({s})
      /\ UNCHANGED <<specs, resourceCache, listeners, pendingClass>> /\ spoilt \subseteq spoilt'
  BY DEF Error
<1>2. {s} \in SUBSET Spec_ /\ {s} \cap inFlight \subseteq {s}
  OBVIOUS
<1>3. QED
  BY <1>1, <1>2, CompletingStep

LEMMA ClearStep ==
  ASSUME FetchInv, NEW u \in ForceCache, ClearResourceCache(u)
  PROVE  FetchInv'
<1>1. /\ resourceCache' = [resourceCache EXCEPT ![u] = "none"]
      /\ listeners' = [listeners EXCEPT ![u] = {}] /\ spoilt' = spoilt \cup {u}
      /\ UNCHANGED <<specs, queued, completed, called, inFlight, pendingClass>>
  BY DEF ClearResourceCache
<1>2. u \in Url
  BY CacheAssumption
<1>3. FetchTypeOK' /\ StartedOnly' /\ FetchSafe'
  BY <1>1, <1>2 DEF FetchInv, FetchTypeOK, StartedOnly, FetchSafe
<1>4. FirerAsks'
  BY <1>1, <1>2, CacheAssumption DEF FetchInv, FetchTypeOK, FirerAsks
<1>5. QED
  BY <1>3, <1>4 DEF FetchInv

LEMMA FetchStep == FetchInv /\ [FetchNext]_fetchVars => FetchInv'
<1> SUFFICES ASSUME FetchInv, [FetchNext]_fetchVars PROVE FetchInv'
  OBVIOUS
<1>1. CASE \E f \in Fetch, urls \in (SUBSET Url) \ {{}}, a \in BOOLEAN : Start(f, urls, a)
  <2>1. PICK f \in Fetch, urls \in SUBSET Url, a \in BOOLEAN : urls # {} /\ Start(f, urls, a)
    BY <1>1
  <2>2. QED
    BY <2>1, StartStep
<1>2. CASE \E s \in Spec_ : Answered(s)
  BY <1>2, SuccessStep, ErrorStep DEF Answered
<1>3. CASE \E u \in ForceCache : ClearResourceCache(u)
  BY <1>3, ClearStep
<1>4. CASE UNCHANGED fetchVars
  BY <1>4 DEF fetchVars, FetchInv, FetchTypeOK, StartedOnly, FirerAsks, FetchSafe
<1>5. QED
  BY <1>1, <1>2, <1>3, <1>4 DEF FetchNext

(* The inductive invariant: what listens was never sent, and only the      *)
(* firer's own request is at the server.                                   *)
THEOREM FetchInvariance == FetchSpec => []FetchInv
  BY FetchInitial, FetchStep, PTL DEF FetchSpec

(* A fetch calls back exactly when all it waits for, adopted               *)
(* specifications included, has completed; a shared URL is asked for once  *)
(* while nobody clears the cache and no request fails.                     *)
THEOREM FetchesAreSafe == FetchSpec => []FetchSafe
<1>1. FetchInv => FetchSafe
  BY DEF FetchInv
<1>2. QED
  BY <1>1, FetchInvariance, PTL

-------------------------------------------------------------------------------
(* Counting the user's files.                                              *)
LEMMA FilesCount ==
  ASSUME NEW S \in SUBSET File
  PROVE  /\ IsFiniteSet(S) /\ Cardinality(S) \in Nat
         /\ Cardinality(S) = 0 <=> S = {}
<1>1. IsFiniteSet(S)
  BY FileAssumption, FS_Subset
<1> QED
  BY <1>1, FS_CardinalityType, FS_EmptySet

LEMMA FewerFiles ==
  ASSUME NEW S \in SUBSET File, NEW T \in SUBSET S
  PROVE  Cardinality(T) <= Cardinality(S)
BY FilesCount, FS_Subset

LEMMA OneFileLess ==
  ASSUME NEW S \in SUBSET File, NEW f \in S
  PROVE  Cardinality(S \ {f}) + 1 = Cardinality(S)
<1>1. IsFiniteSet(S) /\ Cardinality(S) \in Nat
  BY FilesCount
<1>2. Cardinality(S \ {f}) = Cardinality(S) - 1
  BY <1>1, FS_RemoveElement
<1> QED
  BY <1>1, <1>2

LEMMA DisjointFiles ==
  ASSUME NEW S \in SUBSET File, NEW T \in SUBSET File, S \cap T = {}
  PROVE  Cardinality(S \cup T) = Cardinality(S) + Cardinality(T)
<1>1. IsFiniteSet(S) /\ IsFiniteSet(T) /\ Cardinality(S) \in Nat /\ Cardinality(T) \in Nat
  BY FilesCount
<1>2. Cardinality(S \cup T) = Cardinality(S) + Cardinality(T) - Cardinality(S \cap T)
  BY <1>1, FS_Union
<1>3. Cardinality(S \cap T) = 0
  BY FS_EmptySet
<1> QED
  BY <1>1, <1>2, <1>3

LEMMA HasMinimum ==
  ASSUME NEW T, T \subseteq Nat, T # {}
  PROVE  \E m \in T : \A n \in T : m <= n
<1>1. PICK m \in T : \A n \in T : ~ (<<n, m>> \in OpToRel(<, Nat))
  BY NatLessThanWellFounded, WFMin, Zenon
<1>2. ASSUME NEW n \in T PROVE m <= n
  <2>1. ~ (n < m)
    BY <1>1 DEF OpToRel
  <2> QED
    BY <2>1
<1> QED
  BY <1>2

LEMMA FirstIsMember ==
  ASSUME NEW u \in Uploads, NEW S \in SUBSET File, S # {}
  PROVE  First(u, S) \in S
<1> DEFINE T == {u.place[f] : f \in S}
<1>1. u.place \in [File -> Nat]
  BY DEF Uploads
<1>2. PICK m \in T : \A n \in T : m <= n
  BY <1>1, HasMinimum, T # {}, T \subseteq Nat
<1>3. \E f \in S : \A g \in S : u.place[f] <= u.place[g]
  BY <1>2
<1> QED
  BY <1>3 DEF First

-------------------------------------------------------------------------------
(* What a record of the upload promises while the calls pass it on: Sound  *)
(* always, Steady between two answers, Due where the next file is asked    *)
(* for; and what may have changed since an earlier one (Follows).          *)
Ready == {"QUEUED", "CANCELLED"}

Sound(u) ==
  /\ u \in Uploads
  /\ u.requests = {f \in File : u.status[f] = "IN_PROGRESS"}
  /\ u.batch.left \subseteq ReadyFiles(u)

Steady(u) ==
  u.isUploading =>
    Cardinality(u.batch.left) + NumCounted(u) + 1 = Cardinality(u.batch.files)
Due(u) ==
  u.isUploading => Cardinality(u.batch.left) + NumCounted(u) = Cardinality(u.batch.files)

Started(u) == {f \in File : u.status[f] \in Ready \cup {"IN_PROGRESS"}}
Follows(u, v) ==
  /\ v.place = u.place
  /\ Counted(v) \subseteq Counted(u)
  /\ Started(v) \subseteq Started(u)
  /\ v.isUploading => u.isUploading

(* What uploadNextOrFinish leaves.                                         *)
Went(u, v) ==
  /\ Sound(v) /\ Steady(v) /\ Follows(u, v)
  /\ IF v.isUploading THEN v.ended = u.ended /\ v.currentXHR \in v.requests
                      ELSE v.ended /\ v.batch = Batch({})
  /\ u.requests = {} => v.requests \subseteq IF v.isUploading THEN {v.currentXHR} ELSE {}

LEMMA FollowsOn ==
  ASSUME NEW u, NEW v, NEW w, Follows(u, v), Follows(v, w)
  PROVE  Follows(u, w)
BY DEF Follows

LEMMA FileStarts ==
  ASSUME NEW u, Sound(u), NEW f \in u.batch.left
  PROVE  LET v == UploadFile(u, f)
         IN  /\ Sound(v)
             /\ v.place = u.place /\ v.isUploading = u.isUploading /\ v.ended = u.ended
             /\ v.currentXHR = f /\ f \in v.requests /\ v.requests = u.requests \cup {f}
             /\ v.batch.files = u.batch.files /\ NumCounted(v) = NumCounted(u)
             /\ Cardinality(v.batch.left) + 1 = Cardinality(u.batch.left)
             /\ Counted(v) \subseteq Counted(u) /\ Started(v) \subseteq Started(u)
<1> DEFINE v == UploadFile(u, f)
<1>1. u \in Uploads /\ u.batch.left \in SUBSET File /\ f \in File
  BY DEF Sound, Uploads
<1>2. /\ v.place = u.place /\ v.isUploading = u.isUploading /\ v.ended = u.ended
      /\ v.currentXHR = f /\ v.requests = u.requests \cup {f}
      /\ v.batch.files = u.batch.files /\ v.batch.left = u.batch.left \ {f}
      /\ v.batch.numFilesCompleted = u.batch.numFilesCompleted
      /\ v.batch.numFilesErrored = u.batch.numFilesErrored
      /\ v.status = [u.status EXCEPT ![f] = "IN_PROGRESS"]
      /\ v \in Uploads
  BY <1>1 DEF UploadFile, OnFileStart, Uploads, Status
<1>3. u.status \in [File -> Status] /\ v.status[f] = "IN_PROGRESS"
      /\ \A g \in File : g # f => v.status[g] = u.status[g]
  BY <1>1, <1>2 DEF Uploads
<1>4. f \in ReadyFiles(u)
  BY DEF Sound
<1>5. v.requests = {g \in File : v.status[g] = "IN_PROGRESS"}
  BY <1>1, <1>2, <1>3 DEF Sound
<1>6. v.batch.left \subseteq ReadyFiles(v)
  BY <1>1, <1>2, <1>3 DEF Sound, ReadyFiles, With, InQueue
<1>7. Counted(v) \subseteq Counted(u)
  BY <1>1, <1>2, <1>3, <1>4 DEF Counted, ReadyFiles, With, InQueue
<1>8. Started(v) \subseteq Started(u)
  BY <1>1, <1>2, <1>3, <1>4 DEF Started, ReadyFiles, With, InQueue, Ready
<1>9. Cardinality(v.batch.left) + 1 = Cardinality(u.batch.left)
  BY <1>1, <1>2, OneFileLess
<1> HIDE DEF v
<1>10. Sound(v)
  BY <1>2, <1>5, <1>6 DEF Sound
<1> QED
  BY <1>2, <1>7, <1>8, <1>9, <1>10 DEF v, NumCounted

LEMMA NextOrFinish ==
  ASSUME NEW u, Sound(u), Due(u)
  PROVE  Went(u, UploadNextOrFinish(u))
<1> DEFINE n == Cardinality(u.batch.files)
           l == u.batch.left
<1>1. /\ u \in Uploads /\ l \in SUBSET File /\ u.batch.files \in SUBSET File
      /\ u.batch.numFilesCompleted \in Nat /\ u.batch.numFilesErrored \in Nat
  BY DEF Sound, Uploads
<1>2. n \in Nat /\ Cardinality(l) \in Nat /\ (Cardinality(l) = 0 <=> l = {})
      /\ NumCounted(u) \in Nat
  BY <1>1, FilesCount DEF NumCounted
<1>3. CASE ShouldUploadNextFile(u)
  <2> DEFINE f == First(u, l)
             v == UploadFile(u, f)
  <2>1. u.isUploading /\ NumCounted(u) < n
    BY <1>3 DEF ShouldUploadNextFile, NumCounted
  <2>2. l # {}
    BY <2>1, <1>2 DEF Due
  <2>3. f \in u.batch.left
    BY <1>1, <2>2, FirstIsMember
  <2>4. UploadNextOrFinish(u) = v
    BY <1>3 DEF UploadNextOrFinish, UploadNextFile
  <2>5. /\ Sound(v)
        /\ v.place = u.place /\ v.isUploading = u.isUploading /\ v.ended = u.ended
        /\ v.currentXHR = f /\ f \in v.requests /\ v.requests = u.requests \cup {f}
        /\ v.batch.files = u.batch.files /\ NumCounted(v) = NumCounted(u)
        /\ Cardinality(v.batch.left) + 1 = Cardinality(l)
        /\ Counted(v) \subseteq Counted(u) /\ Started(v) \subseteq Started(u)
    BY <2>3, FileStarts
  <2> HIDE DEF v, f
  <2>6. Cardinality(v.batch.left) \in Nat
    <3>1. v.batch.left \in SUBSET File
      BY <2>5 DEF Sound, Uploads
    <3> QED
      BY <3>1, FilesCount
  <2>7. Steady(v)
    BY <2>1, <2>5, <2>6, <1>2 DEF Steady, Due
  <2>8. Follows(u, v)
    BY <2>5 DEF Follows
  <2> QED
    BY <2>1, <2>4, <2>5, <2>7, <2>8 DEF Went
<1>4. CASE ~ShouldUploadNextFile(u)
  <2> DEFINE v == AfterUploadComplete(u)
  <2>1. UploadNextOrFinish(u) = v
    BY <1>4 DEF UploadNextOrFinish
  <2>2. /\ v \in Uploads /\ v.place = u.place /\ v.status = u.status /\ v.requests = u.requests
        /\ ~v.isUploading /\ v.ended /\ v.batch = Batch({})
    BY <1>1 DEF AfterUploadComplete, Uploads, Batch
  <2>3. v.batch.left = {}
    BY <2>2 DEF Batch
  <2> HIDE DEF v
  <2>4. Sound(v)
    BY <2>2, <2>3 DEF Sound
  <2>5. Follows(u, v)
    BY <2>2 DEF Follows, Counted, Started, With, InQueue
  <2> QED
    BY <2>1, <2>2, <2>4, <2>5 DEF Went, Steady
<1> QED
  BY <1>3, <1>4

(* One more is counted, as completed or as an error.                       *)
LEMMA CountedOneMore ==
  ASSUME NEW u, Sound(u), Steady(u),
         NEW v, \/ v = [u EXCEPT !.batch.numFilesCompleted = @ + 1]
                \/ v = [u EXCEPT !.batch.numFilesErrored = @ + 1]
  PROVE  /\ Sound(v) /\ Due(v) /\ Follows(u, v)
         /\ v.ended = u.ended /\ v.requests = u.requests /\ v.isUploading = u.isUploading
<1>1. u \in Uploads
  BY DEF Sound
<1>2. /\ v \in Uploads /\ v.place = u.place /\ v.status = u.status /\ v.requests = u.requests
      /\ v.isUploading = u.isUploading /\ v.ended = u.ended
      /\ v.batch.left = u.batch.left /\ v.batch.files = u.batch.files
  BY <1>1 DEF Uploads
<1>3. NumCounted(v) = NumCounted(u) + 1
  BY <1>1 DEF Uploads, NumCounted
<1>4. Sound(v)
  BY <1>2 DEF Sound, ReadyFiles, With, InQueue
<1>5. Follows(u, v)
  BY <1>2 DEF Follows, Counted, Started, With, InQueue
<1>6. Due(v)
  <2>1. NumCounted(u) \in Nat /\ Cardinality(u.batch.left) \in Nat
    BY <1>1, FilesCount DEF Uploads, NumCounted
  <2> QED
    BY <1>2, <1>3, <2>1 DEF Due, Steady
<1> QED
  BY <1>2, <1>4, <1>5, <1>6

LEMMA Completes ==
  ASSUME NEW u, Sound(u), Steady(u)
  PROVE  Went(u, OnFileComplete(u))
<1> DEFINE v == [u EXCEPT !.batch.numFilesCompleted = @ + 1]
           w == UploadNextOrFinish(v)
<1>1. /\ Sound(v) /\ Due(v) /\ Follows(u, v)
      /\ v.ended = u.ended /\ v.requests = u.requests /\ v.isUploading = u.isUploading
  BY CountedOneMore
<1> HIDE DEF v
<1>2. Went(v, w)
  BY <1>1, NextOrFinish
<1> HIDE DEF w
<1>3. Follows(u, w)
  BY <1>1, <1>2, FollowsOn DEF Went
<1>4. Went(u, w)
  BY <1>1, <1>2, <1>3 DEF Went
<1> QED
  BY <1>4 DEF OnFileComplete, v, w

(* A request that is answered: its file leaves the requests with a status. *)
LEMMA Marked ==
  ASSUME NEW u, Sound(u), Steady(u), NEW f \in u.requests,
         NEW s \in {"COMPLETE", "CANCELLED", "ERROR"}
  PROVE  LET v == [[u EXCEPT !.requests = @ \ {f}] EXCEPT !.status[f] = s]
         IN  /\ Sound(v) /\ Steady(v) /\ Follows(u, v)
             /\ v.ended = u.ended /\ v.isUploading = u.isUploading
             /\ v.requests = u.requests \ {f}
<1> DEFINE v == [[u EXCEPT !.requests = @ \ {f}] EXCEPT !.status[f] = s]
<1>1. u \in Uploads /\ f \in File /\ u.status[f] = "IN_PROGRESS"
  BY DEF Sound
<1>2. /\ v \in Uploads /\ v.place = u.place /\ v.requests = u.requests \ {f}
      /\ v.isUploading = u.isUploading /\ v.ended = u.ended /\ v.batch = u.batch
      /\ v.status[f] = s /\ \A g \in File : g # f => v.status[g] = u.status[g]
  BY <1>1 DEF Uploads, Status
<1> HIDE DEF v
<1>3. v.requests = {g \in File : v.status[g] = "IN_PROGRESS"}
  BY <1>1, <1>2 DEF Sound
<1>4. v.batch.left \subseteq ReadyFiles(v)
  BY <1>1, <1>2 DEF Sound, ReadyFiles, With, InQueue
<1>5. Counted(v) \subseteq Counted(u)
  BY <1>1, <1>2 DEF Counted, With, InQueue
<1>6. Started(v) \subseteq Started(u)
  BY <1>1, <1>2 DEF Started
<1>7. Sound(v) /\ Follows(u, v)
  BY <1>2, <1>3, <1>4, <1>5, <1>6 DEF Sound, Follows
<1>8. Steady(v)
  BY <1>2 DEF Steady, NumCounted
<1> QED
  BY <1>2, <1>7, <1>8 DEF v

(* monitorFileUploadXHR, whatever the status and however many files start. *)
LEMMA AnswerWent ==
  ASSUME NEW u, Sound(u), Steady(u), NEW f \in u.requests,
         NEW httpStatus \in {"200", "0", "500"}
  PROVE  LET w == AnswerTo(u, f, httpStatus)
         IN  /\ Sound(w) /\ Steady(w) /\ Follows(u, w)
             /\ IF w.isUploading THEN w.ended = u.ended /\ w.currentXHR \in w.requests
                                 ELSE w.ended /\ w.batch = Batch({})
             /\ httpStatus # "500" /\ u.requests = {f} =>
                  w.requests \subseteq IF w.isUploading THEN {w.currentXHR} ELSE {}
<1> DEFINE v(s) == [[u EXCEPT !.requests = @ \ {f}] EXCEPT !.status[f] = s]
           w    == AnswerTo(u, f, httpStatus)
<1>1. \A s \in {"COMPLETE", "CANCELLED", "ERROR"} :
        /\ Sound(v(s)) /\ Steady(v(s)) /\ Follows(u, v(s))
        /\ v(s).ended = u.ended /\ v(s).isUploading = u.isUploading
        /\ v(s).requests = u.requests \ {f}
  BY Marked
<1> HIDE DEF v
<1>2. ASSUME NEW s \in {"COMPLETE", "CANCELLED"}, w = OnFileComplete(v(s))
      PROVE  /\ Went(v(s), w)
             /\ Follows(u, w)
  <2>1. Went(v(s), w)
    BY <1>1, <1>2, Completes
  <2>2. Follows(v(s), w)
    BY <2>1 DEF Went
  <2> QED
    BY <1>1, <2>1, <2>2, FollowsOn
<1>3. CASE httpStatus = "200"
  <2>1. w = OnFileComplete(v("COMPLETE"))
    BY <1>3 DEF AnswerTo, v
  <2>2. Went(v("COMPLETE"), w) /\ Follows(u, w)
    BY <2>1, <1>2
  <2> HIDE DEF w
  <2> QED
    BY <2>2, <1>1 DEF Went, w
<1>4. CASE httpStatus = "0"
  <2>1. w = OnFileComplete(v("CANCELLED"))
    BY <1>4 DEF AnswerTo, v
  <2>2. Went(v("CANCELLED"), w) /\ Follows(u, w)
    BY <2>1, <1>2
  <2> HIDE DEF w
  <2> QED
    BY <2>2, <1>1 DEF Went, w
<1>5. CASE httpStatus = "500"
  <2> DEFINE e == v("ERROR")
             m == [e EXCEPT !.batch.numFilesErrored = @ + 1]
             x == OnFileError([u EXCEPT !.requests = @ \ {f}], f)
  <2>1. w = OnFileComplete(x)
    BY <1>5 DEF AnswerTo
  <2>2. x = IF u.isUploading THEN UploadNextOrFinish(m) ELSE e
    BY DEF OnFileError, v
  <2>3. /\ Sound(m) /\ Due(m) /\ Follows(e, m)
        /\ m.ended = e.ended /\ m.isUploading = e.isUploading
    BY <1>1, CountedOneMore
  <2> HIDE DEF m, e, x
  <2>4. Sound(x) /\ Steady(x) /\ Follows(u, x) /\ (x.isUploading => x.ended = u.ended)
    <3>1. CASE u.isUploading
      <4>1. Went(m, x)
        BY <3>1, <2>2, <2>3, NextOrFinish
      <4>2. Follows(u, m) /\ Follows(m, x)
        BY <1>1, <2>3, <4>1, FollowsOn DEF Went, e
      <4>3. Follows(u, x)
        BY <4>2, FollowsOn
      <4> QED
        BY <4>1, <4>3, <2>3, <1>1 DEF Went, e
    <3>2. CASE ~u.isUploading
      BY <3>2, <2>2, <1>1 DEF e
    <3> QED
      BY <3>1, <3>2
  <2>5. Went(x, w)
    BY <2>1, <2>4, Completes
  <2> HIDE DEF w
  <2>6. Follows(x, w)
    BY <2>5 DEF Went
  <2>7. Follows(u, w)
    BY <2>4, <2>6, FollowsOn
  <2> QED
    BY <2>4, <2>5, <2>6, <2>7, <1>5 DEF Went, Follows, w
<1> QED
  BY <1>3, <1>4, <1>5

-------------------------------------------------------------------------------
(* The buttons.  While files wait and the limit leaves room in the queue,  *)
(* the limit is not used up.                                               *)
LEMMA RoomLeft ==
  ASSUME NEW u \in Uploads, Cardinality(InQueue(u)) < FileUploadLimit
  PROVE  EnableBrowseButton(u)
<1> DEFINE A == UploadedFiles(u)
           B == ReadyFiles(u)
           C == ErroredFiles(u)
<1>1. /\ A \in SUBSET InQueue(u) /\ B \in SUBSET InQueue(u) /\ C \in SUBSET InQueue(u)
      /\ A \cap B = {} /\ (A \cup B) \cap C = {} /\ InQueue(u) \in SUBSET File
  BY DEF UploadedFiles, ReadyFiles, ErroredFiles, With, InQueue
<1> HIDE DEF A, B, C
<1>2. Cardinality(A \cup B) = Cardinality(A) + Cardinality(B)
  BY <1>1, DisjointFiles
<1>3. Cardinality((A \cup B) \cup C) = Cardinality(A \cup B) + Cardinality(C)
  BY <1>1, DisjointFiles
<1>4. Cardinality((A \cup B) \cup C) <= Cardinality(InQueue(u))
  BY <1>1, FewerFiles
<1>5. /\ Cardinality(A) \in Nat /\ Cardinality(B) \in Nat /\ Cardinality(C) \in Nat
      /\ Cardinality(InQueue(u)) \in Nat
  BY <1>1, FilesCount
<1>6. Cardinality(A) + Cardinality(B) + Cardinality(C) # FileUploadLimit
  BY <1>2, <1>3, <1>4, <1>5, LimitAssumption
<1> QED
  BY <1>6 DEF EnableBrowseButton, MaxFilesUploaded, A, B, C

(* What the buttons owe an upload that is not running.                     *)
ButtonsFit(u, b) ==
  /\ b \in [shown : {"upload", "pause"}, enabled : BOOLEAN, browse : BOOLEAN]
  /\ b.shown = "upload"
  /\ b.enabled <=> ReadyFiles(u) # {}
  /\ ReadyFiles(u) # {} /\ Cardinality(InQueue(u)) < FileUploadLimit => b.browse

LEMMA LoadedFits ==
  ASSUME NEW u \in Uploads, ReadyFiles(u) # {}, buttons.browse \in BOOLEAN
  PROVE  ButtonsFit(u, SetStateLoaded(u))
BY RoomLeft DEF ButtonsFit, SetStateLoaded, EnableBrowseButton, MaxFilesUploaded

LEMMA DoneFits ==
  ASSUME NEW u \in Uploads, ReadyFiles(u) = {}, buttons.browse \in BOOLEAN
  PROVE  ButtonsFit(u, SetStateDone(u))
BY DEF ButtonsFit, SetStateDone, EnableBrowseButton, MaxFilesUploaded

LEMMA FullFits ==
  ASSUME NEW u \in Uploads, ReadyFiles(u) # {},
         Cardinality(ReadyFiles(u)) = FileUploadLimit
  PROVE  ButtonsFit(u, SetStateFull)
<1>1. InQueue(u) \in SUBSET File /\ ReadyFiles(u) \in SUBSET InQueue(u)
  BY DEF ReadyFiles, With, InQueue
<1>2. Cardinality(ReadyFiles(u)) <= Cardinality(InQueue(u)) /\ Cardinality(InQueue(u)) \in Nat
  BY <1>1, FewerFiles, FilesCount
<1>3. ~(Cardinality(InQueue(u)) < FileUploadLimit)
  BY <1>2, LimitAssumption
<1> QED
  BY <1>3 DEF ButtonsFit, SetStateFull

LEMMA InvFits ==
  ASSUME UploadInv
  PROVE  /\ Sound(upload) /\ Steady(upload) /\ ~upload.ended
         /\ buttons.browse \in BOOLEAN
         /\ ~upload.isUploading => ButtonsFit(upload, buttons) /\ upload.batch = Batch({})
         /\ ~failed => upload.requests = IF upload.isUploading THEN {upload.currentXHR} ELSE {}
         /\ buttons.browse => ~upload.isUploading
<1>1. /\ upload \in Uploads /\ ~upload.ended
      /\ buttons \in [shown : {"upload", "pause"}, enabled : BOOLEAN, browse : BOOLEAN]
  BY DEF UploadInv, UploadTypeOK
<1>2. Sound(upload) /\ Steady(upload)
  BY <1>1 DEF UploadInv, TransfersHold, Flights, BatchAgrees, Sound, Steady
<1>3. ~upload.isUploading => ButtonsFit(upload, buttons) /\ upload.batch = Batch({})
  BY <1>1 DEF UploadInv, TransfersHold, ButtonsAgree, BatchAgrees, ButtonsFit
<1>4. ASSUME ~failed
      PROVE  upload.requests = IF upload.isUploading THEN {upload.currentXHR} ELSE {}
  <2>1. upload.requests \in SUBSET File /\ (Cardinality(upload.requests) = 0 <=> upload.requests = {})
    BY <1>1, FilesCount DEF Uploads
  <2>2. /\ upload.requests \subseteq {upload.currentXHR}
        /\ upload.isUploading => upload.currentXHR \in upload.requests
        /\ ~upload.isUploading => Cardinality(upload.requests) = 0
    BY <1>4 DEF UploadInv, TransfersHold, Flights, BatchAgrees
  <2> QED
    BY <2>1, <2>2
<1> QED
  BY <1>1, <1>2, <1>3, <1>4 DEF UploadInv, BatchAgrees

(* The invariant of the next state, from its parts.                        *)
LEMMA FitsInv ==
  ASSUME Sound(upload'), Steady(upload'), ~upload'.ended, failed' \in BOOLEAN,
         IF upload'.isUploading
         THEN /\ upload'.currentXHR \in upload'.requests
              /\ buttons' \in [shown : {"upload", "pause"}, enabled : BOOLEAN, browse : BOOLEAN]
              /\ buttons'.shown = "pause" /\ ~buttons'.browse
         ELSE ButtonsFit(upload', buttons') /\ upload'.batch = Batch({}),
         panel' \in [overLimit : BOOLEAN, tooLarge : BOOLEAN, shown : BOOLEAN],
         panel'.shown <=> panel'.overLimit \/ panel'.tooLarge,
         ~failed' =>
           /\ upload'.requests = IF upload'.isUploading THEN {upload'.currentXHR} ELSE {}
           /\ FileUploadLimit # 0 => Cardinality(Counted(upload')) <= FileUploadLimit
  PROVE  UploadInv'
<1>1. UploadTypeOK'
  BY DEF UploadTypeOK, Sound, ButtonsFit
<1>2. ~failed' => Cardinality(upload'.requests) = IF upload'.isUploading THEN 1 ELSE 0
  BY FS_EmptySet, FS_Singleton
<1>3. Flights'
  BY <1>2 DEF Flights, Sound, Counted, With, InQueue
<1>4. ButtonsAgree'
  BY DEF ButtonsAgree, ButtonsFit, ReadyFiles, With, InQueue
<1>5. BatchAgrees'
  BY DEF BatchAgrees, Sound, Steady, NumCounted, ReadyFiles, With, InQueue
<1> QED
  BY <1>1, <1>3, <1>4, <1>5 DEF UploadInv, TransfersHold

(* The uploader once an answer has been dealt with.                        *)
LEMMA Settled ==
  ASSUME UploadInv, NEW w, Settle(w), Sound(w), Steady(w), Follows(upload, w),
         IF w.isUploading THEN ~w.ended /\ w.currentXHR \in w.requests
                          ELSE w.ended /\ w.batch = Batch({}),
         UNCHANGED panel, failed' \in BOOLEAN, failed => failed',
         ~failed' => w.requests \subseteq IF w.isUploading THEN {w.currentXHR} ELSE {}
  PROVE  UploadInv' /\ SentOnce
<1>1. /\ w \in Uploads /\ upload' = [w EXCEPT !.ended = FALSE]
      /\ buttons' = IF ~w.ended THEN buttons
                    ELSE IF ReadyFiles(w) = {} THEN SetStateDone(w) ELSE SetStateLoaded(w)
  BY DEF Settle, Sound
<1>2. /\ upload' \in Uploads /\ upload'.place = w.place /\ upload'.status = w.status
      /\ upload'.isUploading = w.isUploading /\ upload'.batch = w.batch
      /\ upload'.requests = w.requests /\ upload'.currentXHR = w.currentXHR /\ ~upload'.ended
  BY <1>1 DEF Uploads
<1>3. /\ InQueue(upload') = InQueue(w) /\ ReadyFiles(upload') = ReadyFiles(w)
      /\ Counted(upload') = Counted(w)
  BY <1>2 DEF Counted, ReadyFiles, With, InQueue
<1>4. Sound(upload') /\ Steady(upload')
  BY <1>2, <1>3 DEF Sound, Steady, NumCounted
<1>5. buttons.browse \in BOOLEAN
  BY InvFits
<1>6. ASSUME ~upload'.isUploading PROVE ButtonsFit(upload', buttons') /\ upload'.batch = Batch({})
  <2>1. w.ended
    BY <1>6, <1>2
  <2>2. ButtonsFit(w, buttons')
    BY <2>1, <1>1, <1>5, LoadedFits, DoneFits
  <2> QED
    BY <2>2, <1>2, <1>3, <1>6 DEF ButtonsFit
<1>7. ASSUME upload'.isUploading
      PROVE  /\ upload'.currentXHR \in upload'.requests
             /\ buttons' \in [shown : {"upload", "pause"}, enabled : BOOLEAN, browse : BOOLEAN]
             /\ buttons'.shown = "pause" /\ ~buttons'.browse
  <2>1. upload.isUploading /\ buttons' = buttons
    BY <1>1, <1>2, <1>7 DEF Follows
  <2> QED
    BY <2>1, <1>2, <1>7 DEF UploadInv, UploadTypeOK, TransfersHold, ButtonsAgree, BatchAgrees
<1>8. /\ panel' \in [overLimit : BOOLEAN, tooLarge : BOOLEAN, shown : BOOLEAN]
      /\ panel'.shown <=> panel'.overLimit \/ panel'.tooLarge
  BY DEF UploadInv, UploadTypeOK, TransfersHold, ButtonsAgree
<1>9. ASSUME ~failed'
      PROVE  /\ upload'.requests = IF upload'.isUploading THEN {upload'.currentXHR} ELSE {}
             /\ FileUploadLimit # 0 => Cardinality(Counted(upload')) <= FileUploadLimit
  <2>1. upload'.requests = IF upload'.isUploading THEN {upload'.currentXHR} ELSE {}
    BY <1>2, <1>9
  <2>2. Counted(upload) \in SUBSET File /\ Counted(w) \in SUBSET Counted(upload)
    BY DEF Follows, Counted, With, InQueue
  <2>3. Cardinality(Counted(w)) <= Cardinality(Counted(upload))
        /\ Cardinality(Counted(w)) \in Nat /\ Cardinality(Counted(upload)) \in Nat
    <3>1. Counted(w) \in SUBSET File
      BY <2>2
    <3> QED
      BY <3>1, <2>2, FewerFiles, FilesCount
  <2>4. FileUploadLimit # 0 => Cardinality(Counted(upload)) <= FileUploadLimit
    BY <1>9 DEF UploadInv, TransfersHold, Flights
  <2> QED
    BY <1>3, <2>1, <2>3, <2>4, LimitAssumption
<1>10. UploadInv'
  BY <1>2, <1>4, <1>6, <1>7, <1>8, <1>9, FitsInv
<1>11. SentOnce
  BY <1>2 DEF SentOnce, Follows, Started, Ready
<1> QED
  BY <1>10, <1>11

-------------------------------------------------------------------------------
(* The steps.                                                              *)

LEMMA FileAnswerKeeps ==
  ASSUME UploadInv, NEW f \in File, FileAnswer(f)
  PROVE  UploadInv' /\ SentOnce
<1>1. PICK httpStatus \in {"200", "0", "500"} :
        Settle(AnswerTo(upload, f, httpStatus)) /\ failed' = (failed \/ httpStatus = "500")
  BY DEF FileAnswer
<1> DEFINE w == AnswerTo(upload, f, httpStatus)
<1>2. /\ Sound(upload) /\ Steady(upload) /\ ~upload.ended
      /\ ~failed => upload.requests = IF upload.isUploading THEN {upload.currentXHR} ELSE {}
  BY InvFits
<1>3. f \in upload.requests /\ UNCHANGED panel
  BY DEF FileAnswer
<1>4. /\ Sound(w) /\ Steady(w) /\ Follows(upload, w)
      /\ IF w.isUploading THEN w.ended = upload.ended /\ w.currentXHR \in w.requests
                          ELSE w.ended /\ w.batch = Batch({})
      /\ httpStatus # "500" /\ upload.requests = {f} =>
           w.requests \subseteq IF w.isUploading THEN {w.currentXHR} ELSE {}
  BY <1>2, <1>3, AnswerWent
<1> HIDE DEF w
<1>5. failed \in BOOLEAN
  BY DEF UploadInv, UploadTypeOK
<1>6. ~failed' => w.requests \subseteq IF w.isUploading THEN {w.currentXHR} ELSE {}
  BY <1>1, <1>2, <1>3, <1>4, <1>5
<1>7. Settle(w) /\ failed' \in BOOLEAN /\ (failed => failed')
  BY <1>1, <1>5 DEF w
<1>8. IF w.isUploading THEN ~w.ended /\ w.currentXHR \in w.requests
                       ELSE w.ended /\ w.batch = Batch({})
  BY <1>2, <1>4
<1> QED
  BY <1>3, <1>4, <1>6, <1>7, <1>8, Settled

LEMMA StopKeeps ==
  ASSUME UploadInv, StopUpload
  PROVE  UploadInv' /\ SentOnce
<1> DEFINE u == [upload EXCEPT !.isUploading = FALSE]
           w == AnswerTo(u, u.currentXHR, "0")
<1>1. /\ upload \in Uploads /\ upload.isUploading /\ upload.currentXHR \in upload.requests
      /\ failed \in BOOLEAN /\ UNCHANGED <<panel, failed>>
  BY DEF UploadInv, UploadTypeOK, TransfersHold, Flights, ButtonsAgree, StopUpload
<1>2. /\ u \in Uploads /\ ~u.isUploading /\ u.place = upload.place /\ u.status = upload.status
      /\ u.batch = upload.batch /\ u.requests = upload.requests
      /\ u.currentXHR = upload.currentXHR /\ u.ended = upload.ended
  BY <1>1 DEF Uploads
<1>3. Settle(w)
  BY <1>1, <1>2 DEF StopUpload
<1> HIDE DEF u
<1>4. Sound(u) /\ Steady(u) /\ Follows(upload, u)
  <2>1. Sound(upload)
    BY InvFits
  <2> QED
    BY <2>1, <1>2 DEF Sound, Steady, Follows, Counted, Started, ReadyFiles, With, InQueue
<1>5. /\ Sound(w) /\ Steady(w) /\ Follows(u, w)
      /\ IF w.isUploading THEN w.ended = u.ended /\ w.currentXHR \in w.requests
                          ELSE w.ended /\ w.batch = Batch({})
      /\ u.requests = {u.currentXHR} =>
           w.requests \subseteq IF w.isUploading THEN {w.currentXHR} ELSE {}
  BY <1>1, <1>2, <1>4, AnswerWent
<1> HIDE DEF w
<1>6. ~w.isUploading /\ Follows(upload, w)
  BY <1>2, <1>4, <1>5, FollowsOn DEF Follows
<1>7. ~failed' => w.requests \subseteq IF w.isUploading THEN {w.currentXHR} ELSE {}
  BY <1>1, <1>2, <1>5, InvFits
<1> QED
  BY <1>1, <1>3, <1>5, <1>6, <1>7, Settled

LEMMA StartKeeps ==
  ASSUME UploadInv, StartUpload
  PROVE  UploadInv' /\ SentOnce
<1> DEFINE B == ReadyFiles(upload)
           u == [upload EXCEPT !.batch = Batch(B), !.isUploading = TRUE]
           f == First(u, u.batch.left)
<1>1. /\ upload \in Uploads /\ ~upload.ended /\ ~upload.isUploading /\ B # {} /\ failed \in BOOLEAN
      /\ buttons \in [shown : {"upload", "pause"}, enabled : BOOLEAN, browse : BOOLEAN]
  BY DEF UploadInv, UploadTypeOK, TransfersHold, ButtonsAgree, StartUpload
<1>2. Sound(upload) /\ (~failed => upload.requests = {})
  BY <1>1, InvFits
<1>3. B \in SUBSET File
  BY DEF ReadyFiles, With, InQueue
<1>4. /\ u \in Uploads /\ u.isUploading /\ ~u.ended /\ u.place = upload.place
      /\ u.status = upload.status /\ u.requests = upload.requests
      /\ u.batch.left = B /\ u.batch.files = B /\ NumCounted(u) = 0
  <2> DEFINE b == Batch(B)
  <2>1. /\ b \in [files : SUBSET File, left : SUBSET File, numFilesCompleted : Nat,
                  numFilesErrored : Nat]
        /\ b.left = B /\ b.files = B /\ b.numFilesCompleted = 0 /\ b.numFilesErrored = 0
    BY <1>3 DEF Batch
  <2> HIDE DEF b
  <2>2. u = [upload EXCEPT !.batch = b, !.isUploading = TRUE]
    BY DEF b
  <2> HIDE DEF u
  <2>3. /\ u \in Uploads /\ u.isUploading /\ ~u.ended /\ u.place = upload.place
        /\ u.status = upload.status /\ u.requests = upload.requests /\ u.batch = b
    BY <1>1, <2>1, <2>2 DEF Uploads
  <2> QED
    BY <2>1, <2>3 DEF NumCounted
<1>5. upload' = UploadFile(u, f)
  BY DEF StartUpload, UploadNextFile
<1> HIDE DEF u, f
<1>6. ReadyFiles(u) = B /\ Counted(u) = Counted(upload) /\ Started(u) = Started(upload)
  BY <1>4 DEF ReadyFiles, Counted, Started, With, InQueue
<1>7. Sound(u)
  BY <1>2, <1>4, <1>6 DEF Sound
<1>8. f \in u.batch.left
  BY <1>1, <1>3, <1>4, FirstIsMember DEF f
<1>9. /\ Sound(upload')
      /\ upload'.place = u.place /\ upload'.isUploading = u.isUploading
      /\ upload'.ended = u.ended
      /\ upload'.currentXHR = f /\ f \in upload'.requests
      /\ upload'.requests = u.requests \cup {f}
      /\ upload'.batch.files = u.batch.files /\ NumCounted(upload') = NumCounted(u)
      /\ Cardinality(upload'.batch.left) + 1 = Cardinality(u.batch.left)
      /\ Counted(upload') \subseteq Counted(u) /\ Started(upload') \subseteq Started(u)
  BY <1>5, <1>7, <1>8, FileStarts
<1>10. Cardinality(upload'.batch.left) \in Nat
  <2>1. upload'.batch.left \in SUBSET File
    BY <1>9 DEF Sound, Uploads
  <2> QED
    BY <2>1, FilesCount
<1>11. Steady(upload')
  BY <1>4, <1>9, <1>10 DEF Steady
<1>12. /\ buttons' \in [shown : {"upload", "pause"}, enabled : BOOLEAN, browse : BOOLEAN]
       /\ buttons'.shown = "pause" /\ ~buttons'.browse
  BY <1>1 DEF StartUpload, SetStateUploading
<1>13. /\ panel' \in [overLimit : BOOLEAN, tooLarge : BOOLEAN, shown : BOOLEAN]
       /\ panel'.shown <=> panel'.overLimit \/ panel'.tooLarge
       /\ failed' = failed
  BY DEF StartUpload
<1>14. ASSUME ~failed'
       PROVE  /\ upload'.requests = IF upload'.isUploading THEN {upload'.currentXHR} ELSE {}
              /\ FileUploadLimit # 0 => Cardinality(Counted(upload')) <= FileUploadLimit
  <2>1. Counted(upload) \in SUBSET File /\ Counted(upload') \in SUBSET Counted(upload)
    BY <1>6, <1>9 DEF Counted, With, InQueue
  <2>2. Cardinality(Counted(upload')) <= Cardinality(Counted(upload))
        /\ Cardinality(Counted(upload')) \in Nat /\ Cardinality(Counted(upload)) \in Nat
    <3>1. Counted(upload') \in SUBSET File
      BY <2>1
    <3> QED
      BY <3>1, <2>1, FewerFiles, FilesCount
  <2>3. FileUploadLimit # 0 => Cardinality(Counted(upload)) <= FileUploadLimit
    BY <1>13, <1>14 DEF UploadInv, TransfersHold, Flights
  <2>4. upload'.requests = {f}
    BY <1>2, <1>4, <1>9, <1>13, <1>14
  <2> QED
    BY <1>4, <1>9, <2>2, <2>3, <2>4, LimitAssumption
<1>15. UploadInv'
  BY <1>1, <1>4, <1>9, <1>11, <1>12, <1>13, <1>14, FitsInv
<1>16. SentOnce
  BY <1>6, <1>9 DEF SentOnce, Started, Ready
<1> QED
  BY <1>15, <1>16

LEMMA RemoveKeeps ==
  ASSUME UploadInv, NEW f \in File, RemoveFile(f)
  PROVE  UploadInv' /\ SentOnce
<1>1. /\ upload \in Uploads /\ ~upload.ended /\ failed \in BOOLEAN /\ ~upload.isUploading
      /\ upload' = Without(f) /\ UNCHANGED <<panel, failed>> /\ f \in InQueue(upload)
      /\ buttons' = UpdateStateAfterFileRemoval(Without(f))
  BY DEF UploadInv, UploadTypeOK, RemoveFile
<1>2. upload.place \in [File -> Nat]
  BY <1>1 DEF Uploads
<1>3. /\ upload'.place = [g \in File |-> IF g = f THEN 0
                                       ELSE IF upload.place[g] > upload.place[f]
                                            THEN upload.place[g] - 1 ELSE upload.place[g]]
      /\ upload'.status = upload.status /\ upload'.batch = upload.batch
      /\ upload'.requests = upload.requests /\ upload'.currentXHR = upload.currentXHR
      /\ upload'.isUploading = upload.isUploading /\ upload'.ended = upload.ended
  BY <1>1 DEF Without, Uploads
<1>4. upload'.place \in [File -> Nat]
  BY <1>2, <1>3
<1>5. upload' \in Uploads
  BY <1>1, <1>4 DEF Without, Uploads
<1>6. InQueue(upload') = InQueue(upload) \ {f}
  <2>1. ASSUME NEW g \in File, g # f PROVE upload'.place[g] > 0 <=> upload.place[g] > 0
    <3>1. upload.place[f] \in Nat /\ upload.place[g] \in Nat /\ upload.place[f] > 0
      BY <1>1, <1>2 DEF InQueue
    <3>2. upload'.place[g] = IF upload.place[g] > upload.place[f]
                             THEN upload.place[g] - 1 ELSE upload.place[g]
      BY <1>3, <2>1
    <3> QED
      BY <3>1, <3>2
  <2>2. ~(upload'.place[f] > 0)
    BY <1>3
  <2> QED
    BY <2>1, <2>2 DEF InQueue
<1>7. /\ Sound(upload) /\ upload.batch = Batch({}) /\ buttons.browse \in BOOLEAN
      /\ ButtonsFit(upload, buttons)
      /\ ~failed => upload.requests = {}
  BY <1>1, InvFits
<1>8. Sound(upload') /\ Steady(upload')
  <2>1. upload'.batch.left = {}
    BY <1>3, <1>7 DEF Batch
  <2> QED
    BY <1>1, <1>3, <1>5, <1>7, <2>1 DEF Sound, Steady
<1>9. ButtonsFit(upload', buttons')
  <2>1. CASE ReadyFiles(upload') = {}
    BY <2>1, <1>1, <1>7 DEF UpdateStateAfterFileRemoval, SetStateEmpty, ButtonsFit
  <2>2. CASE ReadyFiles(upload') # {}
    <3>1. buttons' = SetStateLoaded(upload')
      BY <2>2, <1>1 DEF UpdateStateAfterFileRemoval
    <3> QED
      BY <2>2, <3>1, <1>5, <1>7, LoadedFits
  <2> QED
    BY <2>1, <2>2
<1>10. /\ panel' \in [overLimit : BOOLEAN, tooLarge : BOOLEAN, shown : BOOLEAN]
       /\ panel'.shown <=> panel'.overLimit \/ panel'.tooLarge
  BY <1>1 DEF UploadInv, UploadTypeOK, TransfersHold, ButtonsAgree
<1>11. ASSUME ~failed', FileUploadLimit # 0
       PROVE  Cardinality(Counted(upload')) <= FileUploadLimit
  <2>1. Counted(upload) \in SUBSET File /\ Counted(upload') \in SUBSET Counted(upload)
    BY <1>3, <1>6 DEF Counted, With, InQueue
  <2>2. Cardinality(Counted(upload')) <= Cardinality(Counted(upload))
        /\ Cardinality(Counted(upload')) \in Nat /\ Cardinality(Counted(upload)) \in Nat
    <3>1. Counted(upload') \in SUBSET File
      BY <2>1
    <3> QED
      BY <3>1, <2>1, FewerFiles, FilesCount
  <2>3. Cardinality(Counted(upload)) <= FileUploadLimit
    BY <1>1, <1>11 DEF UploadInv, TransfersHold, Flights
  <2> QED
    BY <2>2, <2>3, LimitAssumption
<1>12. UploadInv'
  BY <1>1, <1>3, <1>7, <1>8, <1>9, <1>10, <1>11, FitsInv
<1>13. SentOnce
  BY <1>3 DEF SentOnce
<1> QED
  BY <1>12, <1>13

LEMMA ClearKeeps ==
  ASSUME UploadInv, NEW kind \in {"overLimit", "tooLarge"}, ClearSection(kind)
  PROVE  UploadInv' /\ SentOnce
<1>1. UNCHANGED <<upload, buttons, failed>>
  BY DEF ClearSection
<1>2. /\ panel' \in [overLimit : BOOLEAN, tooLarge : BOOLEAN, shown : BOOLEAN]
      /\ panel'.shown <=> panel'.overLimit \/ panel'.tooLarge
  BY DEF ClearSection, UploadInv, UploadTypeOK
<1>3. UploadTypeOK' /\ BatchAgrees' /\ Flights'
  BY <1>1, <1>2 DEF UploadInv, UploadTypeOK, BatchAgrees, TransfersHold, Flights, NumCounted,
                    Counted, ReadyFiles, With, InQueue
<1>4. ButtonsAgree'
  BY <1>1, <1>2 DEF UploadInv, TransfersHold, ButtonsAgree, ReadyFiles, With, InQueue
<1> QED
  BY <1>1, <1>3, <1>4 DEF UploadInv, TransfersHold, SentOnce

(* A selection never adds more files than remain of the limit: below the   *)
(* last one that is added there are fewer.                                 *)
LEMMA AddedFit ==
  ASSUME NEW n \in Nat, NEW selected \in [1 .. n -> File], Remaining \in Int,
         FileUploadLimit # 0
  PROVE  /\ IsFiniteSet(Added(selected)) /\ Cardinality(Added(selected)) \in Nat
         /\ Added(selected) # {} => Cardinality(Added(selected)) <= Remaining
<1> DEFINE A == Added(selected)
<1>1. A \in SUBSET (1 .. n)
  BY DEF Added
<1>2. IsFiniteSet(1 .. n)
  BY FS_Interval
<1>3. IsFiniteSet(A) /\ Cardinality(A) \in Nat
  BY <1>1, <1>2, FS_Subset, FS_CardinalityType
<1>4. ASSUME A # {} PROVE Cardinality(A) <= Remaining
  <2> DEFINE T == {n - i : i \in A}
  <2>1. T \subseteq Nat /\ T # {}
    BY <1>1, <1>4
  <2>2. PICK t \in T : \A k \in T : t <= k
    BY <2>1, HasMinimum
  <2>3. PICK m \in A : \A i \in A : i <= m
    <3>1. PICK m \in A : t = n - m
      OBVIOUS
    <3>2. \A i \in A : n - m <= n - i
      BY <2>2, <3>1
    <3> HIDE DEF A
    <3> QED
      BY <1>1, <3>2
  <2> DEFINE S == Small(selected, m - 1)
  <2>4. /\ A \ {m} \subseteq S
        /\ S \in SUBSET (1 .. n)
    BY <1>1, <2>3 DEF Small, Added
  <2>5. IsFiniteSet(S) /\ Cardinality(S) \in Nat
    BY <2>4, <1>2, FS_Subset, FS_CardinalityType
  <2>6. ~Spent(selected, m) /\ Remaining > 0
    BY <2>3 DEF Added
  <2>7. Cardinality(S) < Remaining
    BY <2>5, <2>6 DEF Spent
  <2> HIDE DEF A, S
  <2>8. Cardinality(A \ {m}) <= Cardinality(S)
    BY <2>4, <2>5, FS_Subset
  <2>9. Cardinality(A \ {m}) = Cardinality(A) - 1
    BY <1>3, <2>3, FS_RemoveElement
  <2> QED
    BY <1>3, <2>5, <2>7, <2>8, <2>9
<1> QED
  BY <1>3, <1>4

LEMMA AddKeeps ==
  ASSUME UploadInv, NEW n \in Nat, NEW selected \in [1 .. n -> File], AddFiles(selected)
  PROVE  UploadInv' /\ SentOnce
<1> DEFINE A == Added(selected)
           F == {selected[i] : i \in A}
           upTo(f) == {j \in A : \E i \in DOMAIN selected : selected[i] = f /\ j <= i}
<1>1. /\ upload \in Uploads /\ ~upload.ended /\ failed \in BOOLEAN
      /\ upload' = Loaded(selected) /\ failed' = failed
      /\ buttons' = UpdateStateAfterFileDialog(Loaded(selected))
      /\ buttons.browse /\ \A i \in 1 .. n : upload.status[selected[i]] = "new"
  BY DEF UploadInv, UploadTypeOK, AddFiles
<1>2. /\ Sound(upload) /\ ~upload.isUploading /\ upload.batch = Batch({})
      /\ ButtonsFit(upload, buttons) /\ buttons.browse \in BOOLEAN
      /\ ~failed => upload.requests = {}
  BY <1>1, InvFits
<1>3. A \in SUBSET (1 .. n) /\ F \in SUBSET File
  BY DEF Added
<1>4. IsFiniteSet(A) /\ \A f \in File : Cardinality(upTo(f)) \in Nat
  <2>1. IsFiniteSet(1 .. n)
    BY FS_Interval
  <2>2. \A f \in File : upTo(f) \in SUBSET (1 .. n)
    BY <1>3
  <2> QED
    BY <1>3, <2>1, <2>2, FS_Subset, FS_CardinalityType
<1>5. InQueue(upload) \in SUBSET File /\ Cardinality(InQueue(upload)) \in Nat
  <2>1. InQueue(upload) \in SUBSET File
    BY DEF InQueue
  <2> QED
    BY <2>1, FilesCount
<1>6. /\ upload'.place = [f \in File |-> IF f \in F
                                       THEN Cardinality(InQueue(upload)) + Cardinality(upTo(f))
                                       ELSE upload.place[f]]
      /\ upload'.status = [f \in File |-> IF f \in F THEN "QUEUED" ELSE upload.status[f]]
      /\ upload'.batch = upload.batch /\ upload'.requests = upload.requests
      /\ upload'.currentXHR = upload.currentXHR
      /\ upload'.isUploading = upload.isUploading /\ upload'.ended = upload.ended
  BY <1>1 DEF Loaded, Uploads
<1> HIDE DEF A, upTo
<1>7. upload'.place \in [File -> Nat] /\ upload'.status \in [File -> Status]
  BY <1>1, <1>4, <1>5, <1>6 DEF Uploads, Status
<1>8. upload' \in Uploads
  <2>1. upload' = [upload EXCEPT !.place = upload'.place, !.status = upload'.status]
    BY <1>1 DEF Loaded, Uploads
  <2> QED
    BY <1>1, <1>7, <2>1 DEF Uploads
<1>9. \A f \in F : upload.status[f] = "new"
  BY <1>1, <1>3
<1> HIDE DEF F
<1>10. Sound(upload') /\ Steady(upload')
  <2>1. upload'.batch.left = {}
    BY <1>2, <1>6 DEF Batch
  <2>2. upload'.requests = {f \in File : upload'.status[f] = "IN_PROGRESS"}
    BY <1>2, <1>3, <1>6, <1>9 DEF Sound
  <2> QED
    BY <1>2, <1>6, <1>8, <2>1, <2>2 DEF Sound, Steady
<1>11. ButtonsFit(upload', buttons')
  <2>1. CASE ReadyFiles(upload') = {}
    <3>1. ReadyFiles(upload) = {}
      <4>1. ASSUME NEW f \in ReadyFiles(upload) PROVE f \in ReadyFiles(upload')
        <5>1. f \in File /\ f \notin F
          BY <1>9 DEF ReadyFiles, With, InQueue
        <5> QED
          BY <5>1, <1>6 DEF ReadyFiles, With, InQueue
      <4> QED
        BY <4>1, <2>1
    <3>2. buttons' = buttons
      BY <1>1, <2>1 DEF UpdateStateAfterFileDialog
    <3> QED
      BY <1>2, <2>1, <3>1, <3>2 DEF ButtonsFit
  <2>2. CASE ReadyFiles(upload') # {}
    <3>1. buttons' = IF Cardinality(ReadyFiles(upload')) = FileUploadLimit
                     THEN SetStateFull ELSE SetStateLoaded(upload')
      BY <2>2, <1>1 DEF UpdateStateAfterFileDialog
    <3> QED
      BY <2>2, <3>1, <1>2, <1>8, LoadedFits, FullFits
  <2> QED
    BY <2>1, <2>2
<1>12. /\ panel' \in [overLimit : BOOLEAN, tooLarge : BOOLEAN, shown : BOOLEAN]
       /\ panel'.shown <=> panel'.overLimit \/ panel'.tooLarge
  BY DEF AddFiles
<1>13. ASSUME ~failed', FileUploadLimit # 0
       PROVE  Cardinality(Counted(upload')) <= FileUploadLimit
  <2> DEFINE U == UploadedFiles(upload)
             R == ReadyFiles(upload)
  <2>1. /\ U \in SUBSET File /\ R \in SUBSET File /\ U \cap R = {}
        /\ Counted(upload') \subseteq Counted(upload) \cup F
    BY <1>3, <1>6 DEF Counted, UploadedFiles, ReadyFiles, With, InQueue
  <2>2. Counted(upload) = U \cup R
    BY <1>1, <1>2, <1>13 DEF Sound, Counted, UploadedFiles, ReadyFiles, With, InQueue
  <2>3. Cardinality(U \cup R) = Cardinality(U) + Cardinality(R)
    BY <2>1, DisjointFiles
  <2>4. Cardinality(U) \in Nat /\ Cardinality(R) \in Nat
    BY <2>1, FilesCount
  <2>5. Remaining = FileUploadLimit - Cardinality(U \cup R) /\ Remaining \in Int
    BY <2>3, <2>4, LimitAssumption DEF Remaining
  <2>6. Cardinality(U \cup R) <= FileUploadLimit
    BY <1>1, <1>13, <2>2 DEF UploadInv, TransfersHold, Flights
  <2>7. Cardinality(F) <= Cardinality(A) /\ Cardinality(A) \in Nat
        /\ (A = {} => F = {}) /\ (A # {} => Cardinality(A) <= Remaining)
    <3> DEFINE pick == [i \in A |-> selected[i]]
    <3>1. pick \in Surjection(A, F)
      BY DEF Surjection, F
    <3>2. Cardinality(F) <= Cardinality(A)
      BY <3>1, <1>4, FS_Surjection
    <3>3. A = {} => F = {}
      BY DEF F
    <3> QED
      BY <3>2, <3>3, <2>5, <1>13, AddedFit DEF A
  <2> HIDE DEF U, R
  <2>8. /\ Cardinality(F) \in Nat /\ Cardinality(F \cup (U \cup R)) \in Nat
        /\ Cardinality(U \cup R) \in Nat /\ Cardinality(F \cap (U \cup R)) \in Nat
        /\ Cardinality(Counted(upload')) \in Nat /\ (F = {} => Cardinality(F) = 0)
    <3>1. /\ F \cup (U \cup R) \in SUBSET File /\ U \cup R \in SUBSET File
          /\ F \cap (U \cup R) \in SUBSET File /\ Counted(upload') \in SUBSET File
      BY <1>3, <2>1 DEF Counted, With, InQueue
    <3> QED
      BY <3>1, <1>3, FilesCount
  <2>9. Cardinality(F \cup (U \cup R)) <= Cardinality(F) + Cardinality(U \cup R)
    <3>1. IsFiniteSet(F) /\ IsFiniteSet(U \cup R)
      <4>1. U \cup R \in SUBSET File
        BY <2>1
      <4> QED
        BY <4>1, <1>3, FilesCount
    <3>2. Cardinality(F \cup (U \cup R)) =
            Cardinality(F) + Cardinality(U \cup R) - Cardinality(F \cap (U \cup R))
      BY <3>1, FS_Union
    <3> QED
      BY <3>2, <2>8
  <2>10. Cardinality(Counted(upload')) <= Cardinality(F \cup (U \cup R))
    <3>1. F \cup (U \cup R) \in SUBSET File /\ Counted(upload') \in SUBSET (F \cup (U \cup R))
      BY <1>3, <2>1, <2>2
    <3> QED
      BY <3>1, FewerFiles
  <2> QED
    BY <2>5, <2>6, <2>7, <2>8, <2>9, <2>10, LimitAssumption
<1>14. UploadInv'
  BY <1>1, <1>2, <1>6, <1>10, <1>11, <1>12, <1>13, FitsInv
<1>15. SentOnce
  BY <1>3, <1>6 DEF SentOnce
<1> QED
  BY <1>14, <1>15

LEMMA UploadStep ==
  ASSUME UploadInv, [UploadNext]_uploadVars
  PROVE  UploadInv' /\ [SentOnce]_uploadVars
<1>1. ASSUME NEW s \in Selections, AddFiles(s) PROVE UploadInv' /\ SentOnce
  <2>1. PICK n \in 1 .. MaxSelected : s \in [1 .. n -> File]
    BY DEF Selections
  <2>2. n \in Nat
    BY LimitAssumption
  <2> QED
    BY <1>1, <2>1, <2>2, AddKeeps
<1>2. ASSUME NEW f \in File, RemoveFile(f) \/ FileAnswer(f) PROVE UploadInv' /\ SentOnce
  BY <1>2, RemoveKeeps, FileAnswerKeeps
<1>3. CASE StartUpload \/ StopUpload
  BY <1>3, StartKeeps, StopKeeps
<1>4. ASSUME NEW kind \in {"overLimit", "tooLarge"}, ClearSection(kind)
      PROVE  UploadInv' /\ SentOnce
  BY <1>4, ClearKeeps
<1>5. CASE UNCHANGED uploadVars
  BY <1>5 DEF uploadVars, UploadInv, UploadTypeOK, BatchAgrees, TransfersHold, Flights,
              ButtonsAgree, NumCounted, Counted, ReadyFiles, With, InQueue
<1> QED
  BY <1>1, <1>2, <1>3, <1>4, <1>5 DEF UploadNext

LEMMA UploadInitial == UploadInit => UploadInv
<1> SUFFICES ASSUME UploadInit PROVE UploadInv
  OBVIOUS
<1>1. UploadTypeOK
  BY DEF UploadInit, UploadTypeOK, Uploads, Status, Batch
<1>2. /\ InQueue(upload) = {} /\ ReadyFiles(upload) = {} /\ Counted(upload) = {}
      /\ upload.requests = {} /\ upload.batch = Batch({}) /\ upload.batch.left = {}
  BY DEF UploadInit, InQueue, ReadyFiles, Counted, With, Batch
<1>3. Cardinality({}) = 0
  BY FS_EmptySet
<1>4. Flights
  <2>1. upload.requests = {f \in File : upload.status[f] = "IN_PROGRESS"} /\ ~upload.isUploading
    BY <1>2 DEF UploadInit
  <2>2. Cardinality(upload.requests) = 0 /\ Cardinality(Counted(upload)) = 0
    BY <1>2, <1>3
  <2> QED
    BY <2>1, <2>2, LimitAssumption DEF Flights
<1>5. ButtonsAgree
  BY <1>2 DEF UploadInit, ButtonsAgree
<1>6. BatchAgrees
  BY <1>2 DEF UploadInit, BatchAgrees
<1> QED
  BY <1>1, <1>4, <1>5, <1>6 DEF UploadInv, TransfersHold

(* The uploader's inductive invariant: TransfersHold, and that one more    *)
(* file was started than was counted, the rest being ready.                *)
THEOREM UploadInvariance == UploadSpec => []UploadInv
BY UploadInitial, UploadStep, PTL DEF UploadSpec

(* However files are added, removed, sent, stopped and refused, the files  *)
(* in flight are those in progress and the buttons agree with the upload;  *)
(* until the server refuses a file one request runs at a time, and the     *)
(* limit of files holds.                                                   *)
THEOREM TransfersAreKept == UploadSpec => []TransfersHold
<1>1. UploadInv => TransfersHold
  BY DEF UploadInv
<1> QED
  BY <1>1, UploadInvariance, PTL

(* A file that was uploaded, or is on its way, is not sent again, not even *)
(* when a refused file made two uploads start.                             *)
THEOREM FilesAreSentOnce == UploadSpec => [][SentOnce]_uploadVars
BY UploadInvariance, UploadStep, PTL DEF UploadSpec

-------------------------------------------------------------------------------
(* The effects queue of FxQueue.                                           *)

(* What dequeue makes of the functions w that wait.                        *)
Begun(f, w, n) ==
  LET started == [f EXCEPT !.queue = <<"inprogress">> \o SubSeq(w, n + 1, Len(w))]
  IN  IF w[n] = "delay" THEN [started EXCEPT !.delays = @ + 1] ELSE Animate(started, w[n])

LEMMA DequeueIs ==
  ASSUME NEW f, NEW w \in Seq(FxKinds), w = Waiting(f)
  PROVE  \/ /\ \A i \in 1 .. Len(w) : NoEffect(f, w[i])
            /\ Dequeue(f) = [f EXCEPT !.queue = <<>>]
         \/ \E n \in 1 .. Len(w) :
              /\ ~NoEffect(f, w[n]) /\ \A i \in 1 .. n - 1 : NoEffect(f, w[i])
              /\ Dequeue(f) = Begun(f, w, n)
<1> DEFINE I == {i \in 1 .. Len(w) : ~NoEffect(f, w[i])}
<1> DEFINE next == SelectInSeq(w, LAMBDA job : ~NoEffect(f, job))
<1>0. Len(w) \in Nat
  OBVIOUS
<1>1. CASE I = {}
  <2>1. next = 0
    BY <1>1 DEF SelectInSeq
  <2> QED
    BY <1>1, <2>1 DEF Dequeue
<1>2. CASE I # {}
  <2>1. next = Min(I)
    BY <1>2 DEF SelectInSeq
  <2>2. \E m \in I : \A j \in I : m <= j
    <3>1. I \subseteq Nat
      BY <1>0
    <3> QED
      BY <1>2, <3>1, HasMinimum
  <2>3. next \in I /\ \A j \in I : next <= j
    BY <2>1, <2>2 DEF Min
  <2>4. Dequeue(f) = Begun(f, w, next)
    BY <2>3, <1>0 DEF Dequeue, Begun
  <2>5. ASSUME NEW i \in 1 .. next - 1 PROVE NoEffect(f, w[i])
    <3> HIDE DEF next
    <3>1. next \in 1 .. Len(w) /\ i \in 1 .. Len(w) /\ ~(next <= i)
      BY <2>3, <1>0
    <3> QED
      BY <2>3, <3>1
  <2> QED
    BY <2>3, <2>4, <2>5
<1> QED
  BY <1>1, <1>2

(* The effects after each of the animations has completed, the last first. *)
Completions(g, f, n, m) ==
  g = [k \in 0 .. m |-> IF k = 0 THEN f ELSE Completed(g[k - 1], n + 1 - k)]
OneByOne(g, f, n) ==
  g[0] = f /\ \A k \in 1 .. n : g[k] = Completed(g[k - 1], n + 1 - k)

LEMMA CompletionsExist ==
  ASSUME NEW f, NEW n \in Nat, NEW m \in Nat
  PROVE  \E g : Completions(g, f, n, m)
<1> DEFINE Ok(g, j) == Completions(g, f, n, j)
<1> DEFINE Bad == {j \in Nat : ~\E g : Ok(g, j)}
<1>1. Ok([k \in 0 .. 0 |-> f], 0)
  BY DEF Completions
<1>2. ASSUME NEW j \in Nat, NEW g, Ok(g, j) PROVE \E h : Ok(h, j + 1)
  <2> DEFINE h == [k \in 0 .. j + 1 |-> IF k <= j THEN g[k] ELSE Completed(g[j], n - j)]
  <2>1. ASSUME NEW k \in 0 .. j + 1
        PROVE  h[k] = IF k = 0 THEN f ELSE Completed(h[k - 1], n + 1 - k)
    <3>1. CASE k = 0
      BY <3>1, <1>2 DEF Completions
    <3>2. CASE k # 0 /\ k <= j
      BY <3>2, <1>2 DEF Completions
    <3>3. CASE k = j + 1
      <4>1. h[k] = Completed(g[j], n - j) /\ h[k - 1] = g[j] /\ n + 1 - k = n - j
        BY <3>3
      <4> QED
        BY <4>1, <3>3
    <3> QED
      BY <3>1, <3>2, <3>3
  <2> QED
    BY <2>1 DEF Completions
<1> HIDE DEF Ok
<1>3. Bad = {}
  <2> SUFFICES ASSUME Bad # {} PROVE FALSE
    OBVIOUS
  <2>1. PICK j \in Bad : \A i \in Bad : j <= i
    BY HasMinimum
  <2>2. j # 0
    BY <1>1
  <2>3. j - 1 \in Nat /\ j - 1 \notin Bad
    BY <2>1, <2>2
  <2> QED
    BY <1>2, <2>3
<1> QED
  BY <1>3 DEF Ok

LEMMA AllCompletedIs ==
  ASSUME NEW f, NEW n \in Nat, n = Len(f.running)
  PROVE  \E g : OneByOne(g, f, n) /\ AllCompleted(f) = g[n]
<1> DEFINE after == CHOOSE g : Completions(g, f, n, n)
<1>1. \E g : Completions(g, f, n, n)
  BY CompletionsExist
<1>2. AllCompleted(f) = after[n]
  BY DEF AllCompleted, Completions
<1>3. Completions(after, f, n, n)
  BY <1>1
<1> HIDE DEF after
<1>4. OneByOne(after, f, n)
  BY <1>3 DEF Completions, OneByOne
<1> QED
  BY <1>2, <1>4

LEMMA CompletedNone ==
  ASSUME NEW f, f.running = <<>>
  PROVE  AllCompleted(f) = f
<1>1. 0 \in Nat /\ 0 = Len(f.running)
  OBVIOUS
<1>2. PICK g : OneByOne(g, f, 0) /\ AllCompleted(f) = g[0]
  BY <1>1, AllCompletedIs
<1> QED
  BY <1>2 DEF OneByOne

LEMMA CompletedOne ==
  ASSUME NEW f, Len(f.running) = 1
  PROVE  AllCompleted(f) = Completed(f, 1)
<1>1. PICK g : OneByOne(g, f, 1) /\ AllCompleted(f) = g[1]
  BY AllCompletedIs
<1>2. g[0] = f /\ g[1] = Completed(g[0], 1)
  BY <1>1 DEF OneByOne
<1> QED
  BY <1>1, <1>2
-------------------------------------------------------------------------------
(* The effects of an element stay such, and functions wait behind the      *)
(* sentinel only.                                                          *)
LEMMA WaitsBehind ==
  ASSUME NEW f \in FxType, NEW K \in SUBSET FxKinds, Behind(f, K)
  PROVE  /\ Waiting(f) \in Seq(K) /\ Waiting(f) \in Seq(FxKinds)
         /\ Waiting(f) = IF f.queue = <<>> THEN <<>> ELSE Tail(f.queue)
<1>1. Waiting(f) = IF f.queue = <<>> THEN <<>> ELSE Tail(f.queue)
  BY DEF Waiting, Behind
<1>2. Waiting(f) \in Seq(K)
  BY <1>1 DEF Behind
<1>3. Seq(K) \subseteq Seq(FxKinds)
  BY SeqMonotonic
<1> QED
  BY <1>1, <1>2, <1>3

LEMMA QueueOf ==
  ASSUME NEW S, NEW w \in Seq(S), NEW q, q = <<"inprogress">> \o w
  PROVE  /\ q # <<>> /\ Head(q) = "inprogress" /\ Tail(q) = w
         /\ q \in Seq(S \cup {"inprogress"})
<1>1. <<"inprogress">> \in Seq(S \cup {"inprogress"}) /\ w \in Seq(S \cup {"inprogress"})
  BY SeqMonotonic
<1>2. q \in Seq(S \cup {"inprogress"}) /\ Len(q) = Len(w) + 1
  BY <1>1
<1>3. q # <<>> /\ Head(q) = "inprogress"
  BY <1>1, <1>2
<1>4. Tail(q) \in Seq(S \cup {"inprogress"}) /\ Len(Tail(q)) = Len(w)
  BY <1>2
<1>5. ASSUME NEW i \in 1 .. Len(w) PROVE Tail(q)[i] = w[i]
  BY <1>1, <1>2
<1>6. Tail(q) = w
  BY <1>1, <1>4, <1>5, SeqEqual
<1> QED
  BY <1>2, <1>3, <1>6

LEMMA WithQueue ==
  ASSUME NEW f \in FxType, NEW q \in Seq(FxKinds \cup {"inprogress"})
  PROVE  /\ [f EXCEPT !.queue = q] \in FxType
         /\ \A d \in Nat : [f EXCEPT !.queue = q, !.delays = d] \in FxType
BY DEF FxType

(* dequeue leaves what waits behind the function that it starts.           *)
LEMMA DequeueSound ==
  ASSUME NEW f \in FxType, NEW K \in SUBSET FxKinds, Waiting(f) \in Seq(K)
  PROVE  /\ Dequeue(f) \in FxType /\ Behind(Dequeue(f), K)
         /\ Len(Dequeue(f).running) \in {Len(f.running), Len(f.running) + 1}
<1> DEFINE w == Waiting(f)
<1>1. w \in Seq(FxKinds) /\ Len(w) \in Nat
  BY SeqMonotonic
<1>2. CASE Dequeue(f) = [f EXCEPT !.queue = <<>>]
  <2>1. Dequeue(f) \in FxType
    BY <1>2, EmptySeq, WithQueue
  <2>2. Dequeue(f).queue = <<>> /\ Dequeue(f).running = f.running
    BY <1>2 DEF FxType
  <2> QED
    BY <2>1, <2>2 DEF Behind
<1>3. ASSUME NEW n \in 1 .. Len(w), ~NoEffect(f, w[n]), Dequeue(f) = Begun(f, w, n)
      PROVE  /\ Dequeue(f) \in FxType /\ Behind(Dequeue(f), K)
             /\ Len(Dequeue(f).running) \in {Len(f.running), Len(f.running) + 1}
  <2> DEFINE rest == SubSeq(w, n + 1, Len(w))
  <2> DEFINE q == <<"inprogress">> \o rest
  <2>1. rest \in Seq(K)
    BY <1>1, SubSeqProperties
  <2>2. /\ q # <<>> /\ Head(q) = "inprogress" /\ Tail(q) = rest
        /\ q \in Seq(FxKinds \cup {"inprogress"})
    <3>1. rest \in Seq(FxKinds)
      BY <2>1, SeqMonotonic
    <3> HIDE DEF rest
    <3> QED
      BY <3>1, QueueOf
  <2> HIDE DEF q
  <2>3. CASE w[n] = "delay"
    <3> DEFINE d == f.delays + 1
    <3>1. Dequeue(f) = [f EXCEPT !.queue = q, !.delays = d]
      BY <1>3, <2>3 DEF Begun, q, FxType
    <3>0. d \in Nat
      BY DEF FxType
    <3> HIDE DEF d
    <3>2. Dequeue(f) \in FxType
      BY <3>0, <3>1, <2>2 DEF FxType
    <3>3. Dequeue(f).queue = q /\ Dequeue(f).running = f.running
      BY <3>1 DEF FxType
    <3> QED
      BY <3>2, <3>3, <2>1, <2>2 DEF Behind
  <2>4. CASE w[n] # "delay"
    <3>1. w[n] \in {"show", "hide"}
      BY <1>1, <2>4 DEF FxKinds
    <3> DEFINE r == Custom(f, w[n])
    <3>2. Dequeue(f) = [f EXCEPT !.queue = q, !.shown = TRUE, !.opacity = "partial",
                                 !.running = r]
      BY <1>3, <2>4 DEF Begun, Animate, Custom, q, FxType
    <3>3. r \in Seq(Animation) /\ Len(r) = Len(f.running) + 1
      <4>1. [kind |-> w[n], orig |-> f.opacity] \in Animation
        BY <3>1 DEF FxType, Animation
      <4>2. f.running \in Seq(Animation)
        BY DEF FxType
      <4> QED
        BY <4>1, <4>2 DEF Custom
    <3> HIDE DEF r
    <3>4. Dequeue(f) \in FxType
      BY <2>2, <3>2, <3>3 DEF FxType
    <3>5. Dequeue(f).queue = q /\ Dequeue(f).running = r
      BY <3>2 DEF FxType
    <3> QED
      BY <3>3, <3>4, <3>5, <2>1, <2>2 DEF Behind
  <2> QED
    BY <2>3, <2>4
<1> QED
  BY <1>1, <1>2, <1>3, DequeueIs

LEMMA CompletedSound ==
  ASSUME NEW f \in FxType, NEW K \in SUBSET FxKinds, Behind(f, K), NEW i \in DOMAIN f.running
  PROVE  /\ AnimationEnds(f, i) \in FxType
         /\ AnimationEnds(f, i).queue = f.queue /\ AnimationEnds(f, i).delays = f.delays
         /\ Len(AnimationEnds(f, i).running) = Len(f.running) - 1
         /\ Completed(f, i) \in FxType /\ Behind(Completed(f, i), K)
         /\ Len(Completed(f, i).running) \in {Len(f.running) - 1, Len(f.running)}
<1> DEFINE a == f.running[i]
<1> DEFINE rest == RemoveAt(f.running, i)
<1>1. f.running \in Seq(Animation) /\ i \in 1 .. Len(f.running) /\ Len(f.running) \in Nat
  BY DEF FxType
<1>2. a \in Animation
  BY <1>1, ElementOfSeq
<1>3. rest \in Seq(Animation) /\ Len(rest) = Len(f.running) - 1
  <2>1. /\ SubSeq(f.running, 1, i - 1) \in Seq(Animation)
        /\ Len(SubSeq(f.running, 1, i - 1)) = i - 1
    BY <1>1, SubSeqProperties
  <2>2. /\ SubSeq(f.running, i + 1, Len(f.running)) \in Seq(Animation)
        /\ Len(SubSeq(f.running, i + 1, Len(f.running))) = Len(f.running) - i
    BY <1>1, SubSeqProperties
  <2>3. rest = SubSeq(f.running, 1, i - 1) \o SubSeq(f.running, i + 1, Len(f.running))
    BY DEF RemoveAt
  <2>4. rest \in Seq(Animation) /\ Len(rest) = (i - 1) + (Len(f.running) - i)
    BY <2>1, <2>2, <2>3, ConcatProperties
  <2> QED
    BY <1>1, <2>4
<1> DEFINE s == IF a.kind = "hide" THEN FALSE ELSE f.shown
<1> DEFINE o == IF rest = <<>> THEN a.orig ELSE "partial"
<1>4. s \in BOOLEAN /\ o \in {"full", "partial"}
  BY <1>2 DEF FxType, Animation
<1>5. AnimationEnds(f, i) = [f EXCEPT !.shown = s, !.opacity = o, !.running = rest]
  BY DEF AnimationEnds, FxType
<1> HIDE DEF s, o, rest
<1>6. AnimationEnds(f, i) \in FxType
  BY <1>3, <1>4, <1>5 DEF FxType
<1>7. /\ AnimationEnds(f, i).queue = f.queue /\ AnimationEnds(f, i).delays = f.delays
      /\ AnimationEnds(f, i).running = rest
  BY <1>5 DEF FxType
<1>8. Waiting(AnimationEnds(f, i)) \in Seq(K)
  BY <1>7, WaitsBehind DEF Waiting
<1>9. /\ Completed(f, i) \in FxType /\ Behind(Completed(f, i), K)
      /\ Len(Completed(f, i).running) \in {Len(rest), Len(rest) + 1}
  BY <1>6, <1>7, <1>8, DequeueSound DEF Completed
<1> QED
  BY <1>1, <1>3, <1>6, <1>7, <1>9

LEMMA AllCompletedSound ==
  ASSUME NEW f \in FxType, NEW K \in SUBSET FxKinds, Behind(f, K)
  PROVE  AllCompleted(f) \in FxType /\ Behind(AllCompleted(f), K)
<1> DEFINE n == Len(f.running)
<1>1. n \in Nat
  BY DEF FxType
<1>2. PICK g : OneByOne(g, f, n) /\ AllCompleted(f) = g[n]
  BY <1>1, AllCompletedIs
<1> DEFINE Ok(k) == g[k] \in FxType /\ Behind(g[k], K) /\ Len(g[k].running) >= n - k
<1> DEFINE Bad == {k \in 0 .. n : ~Ok(k)}
<1>3. Ok(0)
  BY <1>1, <1>2 DEF OneByOne
<1>4. ASSUME NEW k \in 1 .. n, Ok(k - 1) PROVE Ok(k)
  <2>1. g[k] = Completed(g[k - 1], n + 1 - k)
    BY <1>2 DEF OneByOne
  <2>2. g[k - 1].running \in Seq(Animation)
    BY <1>4 DEF FxType
  <2>3. n + 1 - k \in 1 .. Len(g[k - 1].running) /\ Len(g[k - 1].running) \in Nat
    BY <1>1, <1>4, <2>2
  <2>4. n + 1 - k \in DOMAIN g[k - 1].running
    BY <2>2, <2>3
  <2>5. /\ g[k] \in FxType /\ Behind(g[k], K)
        /\ Len(g[k].running) \in {Len(g[k - 1].running) - 1, Len(g[k - 1].running)}
    BY <1>4, <2>1, <2>4, CompletedSound
  <2>6. Len(g[k].running) >= n - k
    <3> DEFINE l == Len(g[k - 1].running)
    <3>1. l \in Nat /\ l >= n - (k - 1) /\ Len(g[k].running) \in {l - 1, l}
      BY <1>4, <2>3, <2>5
    <3> HIDE DEF l
    <3> QED
      BY <1>1, <3>1
  <2> QED
    BY <2>5, <2>6
<1> HIDE DEF Ok
<1>5. Bad = {}
  <2> SUFFICES ASSUME Bad # {} PROVE FALSE
    OBVIOUS
  <2>0. Bad \subseteq Nat
    BY <1>1
  <2>1. PICK k \in Bad : \A j \in Bad : k <= j
    BY <2>0, HasMinimum
  <2>2. k # 0
    BY <1>3, <2>1
  <2>3. k \in 1 .. n /\ k - 1 \in 0 .. n /\ ~(k <= k - 1)
    BY <1>1, <2>1, <2>2
  <2>4. Ok(k - 1)
    BY <2>1, <2>3
  <2> QED
    BY <1>4, <2>1, <2>3, <2>4
<1>6. Ok(n)
  BY <1>1, <1>5
<1> QED
  BY <1>2, <1>6 DEF Ok

LEMMA QueueSound ==
  ASSUME NEW f \in FxType, NEW K \in SUBSET FxKinds, Behind(f, K), NEW job \in FxKinds
  PROVE  /\ Queue(f, job) \in FxType /\ Behind(Queue(f, job), K \cup {job})
         /\ f.queue # <<>> =>
              /\ Queue(f, job).queue # <<>> /\ Queue(f, job).running = f.running
              /\ Queue(f, job).delays = f.delays /\ Queue(f, job).shown = f.shown
              /\ Queue(f, job).opacity = f.opacity
              /\ Waiting(Queue(f, job)) = Append(Waiting(f), job)
         /\ f.queue = <<>> =>
              /\ Queue(f, job) = Dequeue([f EXCEPT !.queue = <<job>>])
              /\ Waiting([f EXCEPT !.queue = <<job>>]) = <<job>>
              /\ [f EXCEPT !.queue = <<job>>] \in FxType
<1> DEFINE J == K \cup {job}
<1> DEFINE q == Append(f.queue, job)
<1> DEFINE pushed == [f EXCEPT !.queue = q]
<1>0. job # "inprogress"
  BY DEF FxKinds
<1>1. J \in SUBSET FxKinds /\ job \in J
  OBVIOUS
<1>2. f.queue \in Seq(FxKinds \cup {"inprogress"})
  BY DEF FxType
<1>3. q \in Seq(FxKinds \cup {"inprogress"}) /\ Len(q) = Len(f.queue) + 1 /\ q # <<>>
  BY <1>2
<1> HIDE DEF q
<1>4. pushed \in FxType
  BY <1>3, WithQueue
<1>5. /\ pushed.queue = q /\ pushed.running = f.running /\ pushed.delays = f.delays
      /\ pushed.shown = f.shown /\ pushed.opacity = f.opacity
  BY DEF FxType
<1>6. CASE f.queue # <<>>
  <2>1. Head(q) = "inprogress" /\ Tail(q) = Append(Tail(f.queue), job)
    <3>1. Head(q) = Head(f.queue) /\ Tail(q) = Append(Tail(f.queue), job)
      BY <1>2, <1>6, HeadTailAppend DEF q
    <3> QED
      BY <3>1, <1>6 DEF Behind
  <2>2. Tail(f.queue) \in Seq(J)
    BY <1>6, SeqMonotonic DEF Behind
  <2>3. Append(Tail(f.queue), job) \in Seq(J)
    BY <2>2
  <2>4. Queue(f, job) = pushed
    BY <2>1, <1>5 DEF Queue, q
  <2>5. Waiting(pushed) = Append(Waiting(f), job)
    BY <2>1, <1>3, <1>5, <1>6 DEF Waiting, Behind
  <2> HIDE DEF pushed
  <2> QED
    BY <1>3, <1>4, <1>5, <1>6, <2>1, <2>3, <2>4, <2>5 DEF Behind
<1>7. CASE f.queue = <<>>
  <2>1. q = <<job>> /\ Head(q) = job
    BY <1>7 DEF q
  <2>2. Queue(f, job) = Dequeue(pushed)
    BY <2>1, <1>0, <1>5 DEF Queue, q
  <2>3. Waiting(pushed) = <<job>>
    BY <2>1, <1>0, <1>5 DEF Waiting
  <2>4. <<job>> \in Seq(J)
    BY <1>1
  <2>5. Dequeue(pushed) \in FxType /\ Behind(Dequeue(pushed), J)
    BY <1>1, <1>4, <2>3, <2>4, DequeueSound
  <2> QED
    BY <1>4, <1>7, <2>1, <2>2, <2>3, <2>5
<1> QED
  BY <1>6, <1>7

LEMMA ClearSound ==
  ASSUME NEW f \in FxType
  PROVE  ClearQueue(f) = [f EXCEPT !.queue = <<>>] /\ ClearQueue(f) \in FxType
<1> DEFINE e == [f EXCEPT !.queue = <<>>]
<1>1. e \in FxType
  BY EmptySeq, WithQueue
<1>2. e.queue = <<>> /\ [e EXCEPT !.queue = <<>>] = e
  BY DEF FxType
<1>3. Waiting(e) = <<>>
  BY <1>2 DEF Waiting
<1>4. <<>> \in Seq(FxKinds) /\ Len(<<>>) = 0
  BY EmptySeq
<1> HIDE DEF e
<1>5. Dequeue(e) = [e EXCEPT !.queue = <<>>]
  <2> DEFINE w == Waiting(e)
  <2>1. w \in Seq(FxKinds) /\ Len(w) = 0
    BY <1>3, <1>4
  <2> HIDE DEF w
  <2>2. ~\E n \in 1 .. Len(w) : TRUE
    BY <2>1
  <2> QED
    BY <2>1, <2>2, DequeueIs DEF w
<1> QED
  BY <1>1, <1>2, <1>5 DEF ClearQueue, e

LEMMA StopSound ==
  ASSUME NEW f \in FxType, NEW K \in SUBSET FxKinds, Behind(f, K),
         NEW c \in BOOLEAN, NEW e \in BOOLEAN
  PROVE  Stop(f, c, e) \in FxType /\ Behind(Stop(f, c, e), K)
<1> DEFINE cleared == IF c THEN ClearQueue(f) ELSE f
<1>1. cleared \in FxType /\ Behind(cleared, K)
  <2>1. [f EXCEPT !.queue = <<>>].queue = <<>>
    BY DEF FxType
  <2> QED
    BY <2>1, ClearSound DEF Behind
<1>2. Stop(f, c, e) = IF e THEN AllCompleted(cleared)
                          ELSE Dequeue([cleared EXCEPT !.running = <<>>])
  BY DEF Stop
<1> HIDE DEF cleared
<1>3. CASE e
  BY <1>1, <1>2, <1>3, AllCompletedSound
<1>4. CASE ~e
  <2> DEFINE s == [cleared EXCEPT !.running = <<>>]
  <2>1. <<>> \in Seq(Animation)
    BY EmptySeq
  <2>2. s \in FxType /\ s.queue = cleared.queue
    <3> DEFINE r == <<>>
    <3> HIDE DEF r
    <3>1. s = [cleared EXCEPT !.running = r] /\ r \in Seq(Animation)
      BY <2>1 DEF r
    <3> QED
      BY <1>1, <3>1 DEF FxType
  <2>3. Waiting(s) \in Seq(K)
    BY <1>1, <2>2, WaitsBehind DEF Waiting
  <2> HIDE DEF s
  <2>4. Dequeue(s) \in FxType /\ Behind(Dequeue(s), K)
    BY <2>2, <2>3, DequeueSound
  <2> QED
    BY <1>2, <1>4, <2>4 DEF s
<1> QED
  BY <1>3, <1>4

LEMMA DelaySound ==
  ASSUME NEW f \in FxType, NEW K \in SUBSET FxKinds, Behind(f, K), f.delays > 0
  PROVE  /\ DelayEnds(f) \in FxType /\ Behind(DelayEnds(f), K)
         /\ DelayEnds(f) = Dequeue([f EXCEPT !.delays = f.delays - 1])
         /\ [f EXCEPT !.delays = f.delays - 1] \in FxType
         /\ [f EXCEPT !.delays = f.delays - 1].queue = f.queue
<1> DEFINE d == f.delays - 1
<1>1. d \in Nat /\ DelayEnds(f) = Dequeue([f EXCEPT !.delays = d])
  BY DEF FxType, DelayEnds
<1> HIDE DEF d
<1>2. [f EXCEPT !.delays = d] \in FxType /\ [f EXCEPT !.delays = d].queue = f.queue
  BY <1>1 DEF FxType
<1>3. Waiting([f EXCEPT !.delays = d]) \in Seq(K)
  BY <1>2, WaitsBehind DEF Waiting
<1>4. DelayEnds(f) \in FxType /\ Behind(DelayEnds(f), K)
  BY <1>1, <1>2, <1>3, DequeueSound
<1> QED
  BY <1>1, <1>2, <1>4 DEF d

-------------------------------------------------------------------------------
(* Effects: as long as nothing was cut off, one animation or delay is      *)
(* ahead of what waits.                                                    *)
Balanced(f) == Len(f.running) + f.delays = IF f.queue = <<>> THEN 0 ELSE 1

LEMMA HasMaximum ==
  ASSUME NEW n \in Nat, NEW T \in SUBSET (1 .. n), T # {}
  PROVE  \E m \in T : \A i \in T : i <= m
<1> DEFINE D == {n - i : i \in T}
<1>1. D \subseteq Nat /\ D # {}
  <2>1. ASSUME NEW i \in T PROVE n - i \in Nat
    <3>1. i \in 1 .. n
      OBVIOUS
    <3> QED
      BY <3>1
  <2> QED
    BY <2>1
<1>2. PICK d \in D : \A e \in D : d <= e
  BY <1>1, HasMinimum
<1>3. PICK m \in T : d = n - m
  BY <1>2
<1>4. ASSUME NEW i \in T PROVE i <= m
  <2>1. n - m <= n - i
    BY <1>2, <1>3
  <2> QED
    BY <2>1
<1> QED
  BY <1>4

(* dequeue starts one function of those that wait, if there is one that    *)
(* has an effect, and the last one asked for stays the last.               *)
LEMMA DequeueBalances ==
  ASSUME NEW f \in FxType, NEW K \in SUBSET FxKinds, Waiting(f) \in Seq(K),
         f.running = <<>>, f.delays = 0
  PROVE  /\ Balanced(Dequeue(f))
         /\ f.opacity = "full" => StyleAgrees(Dequeue(f))
         /\ \A job \in {"show", "hide"} : LastAgrees(f, job) => LastAgrees(Dequeue(f), job)
<1> DEFINE w == Waiting(f)
<1> DEFINE d == Dequeue(f)
<1>1. w \in Seq(FxKinds) /\ Len(w) \in Nat /\ Asked(f) \subseteq 1 .. Len(w)
  BY SeqMonotonic DEF Asked
<1>2. Len(<<>>) = 0
  OBVIOUS
<1>3. CASE (\A i \in 1 .. Len(w) : NoEffect(f, w[i])) /\ d = [f EXCEPT !.queue = <<>>]
  <2>1. /\ d.queue = <<>> /\ d.running = <<>> /\ d.delays = 0 /\ d.shown = f.shown
        /\ d.opacity = f.opacity
    BY <1>3 DEF FxType
  <2>2. Waiting(d) = <<>> /\ Asked(d) = {}
    BY <2>1 DEF Waiting, Asked
  <2>3. ASSUME NEW job \in {"show", "hide"}, LastAgrees(f, job) PROVE f.shown <=> job = "show"
    <3>1. CASE Asked(f) = {}
      BY <2>3, <3>1 DEF LastAgrees
    <3>2. CASE Asked(f) # {}
      <4>1. PICK m \in Asked(f) : \A i \in Asked(f) : i <= m
        BY <1>1, <3>2, HasMaximum
      <4>2. w[m] = job /\ NoEffect(f, w[m])
        BY <1>1, <1>3, <2>3, <4>1 DEF LastAgrees
      <4> QED
        BY <4>2 DEF NoEffect
    <3> QED
      BY <3>1, <3>2
  <2> QED
    BY <1>2, <2>1, <2>2, <2>3 DEF Balanced, StyleAgrees, LastAgrees
<1>4. ASSUME NEW n \in 1 .. Len(w), ~NoEffect(f, w[n]),
             \A i \in 1 .. n - 1 : NoEffect(f, w[i]), d = Begun(f, w, n)
      PROVE  /\ Balanced(d)
             /\ f.opacity = "full" => StyleAgrees(d)
             /\ \A job \in {"show", "hide"} : LastAgrees(f, job) => LastAgrees(d, job)
  <2> DEFINE rest == SubSeq(w, n + 1, Len(w))
  <2> DEFINE q == <<"inprogress">> \o rest
  <2> DEFINE a == [kind |-> w[n], orig |-> f.opacity]
  <2>1. /\ rest \in Seq(FxKinds) /\ Len(rest) = Len(w) - n
        /\ \A i \in 1 .. Len(rest) : rest[i] = w[n + i]
    BY <1>1, SubSeqProperties
  <2>2. q # <<>> /\ Head(q) = "inprogress" /\ Tail(q) = rest
    <3> HIDE DEF rest
    <3> QED
      BY <2>1, QueueOf
  <2> HIDE DEF q, rest
  <2>3. w[n] \in FxKinds
    BY <1>1, ElementOfSeq
  <2>4. /\ d.queue = q
        /\ w[n] = "delay" => /\ d.delays = 1 /\ d.running = <<>> /\ d.shown = f.shown
                             /\ d.opacity = f.opacity
        /\ w[n] # "delay" => d.delays = 0 /\ d.running = Append(<<>>, a) /\ d.shown
    <3>1. CASE w[n] = "delay"
      <4>1. d = [f EXCEPT !.queue = q, !.delays = f.delays + 1]
        BY <1>4, <3>1 DEF Begun, q, rest, FxType
      <4> QED
        BY <3>1, <4>1 DEF FxType
    <3>2. CASE w[n] # "delay"
      <4>1. Custom(f, w[n]) = Append(<<>>, a)
        BY DEF Custom
      <4>2. d = [f EXCEPT !.queue = q, !.shown = TRUE, !.opacity = "partial",
                          !.running = Append(<<>>, a)]
        BY <1>4, <3>2, <4>1 DEF Begun, Animate, Custom, q, rest, FxType
      <4> QED
        BY <3>2, <4>2 DEF FxType
    <3> QED
      BY <3>1, <3>2
  <2>5. Len(Append(<<>>, a)) = 1 /\ Append(<<>>, a)[1] = a /\ Append(<<>>, a) # <<>>
    OBVIOUS
  <2>6. Balanced(d)
    <3>1. d.queue # <<>>
      BY <2>2, <2>4
    <3>2. CASE w[n] = "delay"
      <4>1. Len(d.running) = 0 /\ d.delays = 1
        BY <1>2, <2>4, <3>2
      <4> QED
        BY <3>1, <4>1 DEF Balanced
    <3>3. CASE w[n] # "delay"
      <4>1. Len(d.running) = 1 /\ d.delays = 0
        BY <2>4, <2>5, <3>3
      <4> QED
        BY <3>1, <4>1 DEF Balanced
    <3> QED
      BY <3>2, <3>3
  <2>7. f.opacity = "full" => StyleAgrees(d)
    BY <2>4, <2>5 DEF StyleAgrees
  <2>8. Waiting(d) = rest
    BY <2>2, <2>4 DEF Waiting
  <2>9. Asked(d) = {i \in 1 .. Len(w) - n : n + i \in Asked(f)}
    BY <1>1, <2>1, <2>8 DEF Asked
  <2>10. ASSUME NEW job \in {"show", "hide"}, LastAgrees(f, job) PROVE LastAgrees(d, job)
    <3>1. ASSUME NEW i \in Asked(d), \A j \in Asked(d) : j <= i PROVE Waiting(d)[i] = job
      <4>1. n + i \in Asked(f) /\ i \in 1 .. Len(w) - n
        BY <2>9
      <4>2. ASSUME NEW j \in Asked(f) PROVE j <= n + i
        <5>1. CASE j <= n
          BY <1>1, <4>1, <5>1
        <5>2. CASE ~(j <= n)
          <6>1. j - n \in 1 .. Len(w) - n /\ n + (j - n) = j
            BY <1>1, <5>2
          <6>2. j - n \in Asked(d)
            BY <2>9, <6>1
          <6> QED
            BY <1>1, <3>1, <4>1, <6>1, <6>2
        <5> QED
          BY <5>1, <5>2
      <4>3. w[n + i] = job
        BY <2>10, <4>1, <4>2 DEF LastAgrees
      <4> QED
        BY <2>1, <2>8, <4>1, <4>3
    <3>2. ASSUME Asked(d) = {}
          PROVE  /\ d.running # <<>> => d.running[1].kind = job
                 /\ d.running = <<>> => (d.shown <=> job = "show")
      <4>1. ASSUME NEW j \in Asked(f) PROVE j <= n
        <5> SUFFICES ASSUME ~(j <= n) PROVE FALSE
          OBVIOUS
        <5>1. j - n \in 1 .. Len(w) - n /\ n + (j - n) = j
          BY <1>1
        <5> QED
          BY <2>9, <3>2, <5>1
      <4>2. CASE w[n] # "delay"
        <5>1. n \in Asked(f)
          BY <1>1, <4>2 DEF Asked
        <5>2. w[n] = job
          BY <2>10, <4>1, <5>1 DEF LastAgrees
        <5>3. d.running = Append(<<>>, a)
          BY <2>4, <4>2
        <5>4. d.running # <<>> /\ d.running[1].kind = job
          BY <2>5, <5>2, <5>3
        <5> QED
          BY <5>4
      <4>3. CASE w[n] = "delay" /\ Asked(f) = {}
        BY <2>4, <2>10, <4>3 DEF LastAgrees
      <4>4. CASE w[n] = "delay" /\ Asked(f) # {}
        <5>1. PICK m \in Asked(f) : \A i \in Asked(f) : i <= m
          BY <1>1, <4>4, HasMaximum
        <5>2. w[m] = job /\ m # n
          BY <2>10, <4>4, <5>1 DEF LastAgrees
        <5>3. m \in 1 .. n - 1
          BY <1>1, <4>1, <5>1, <5>2
        <5>4. NoEffect(f, job)
          BY <1>4, <5>2, <5>3
        <5>5. f.shown <=> job = "show"
          BY <5>4 DEF NoEffect
        <5>6. d.running = <<>> /\ (d.shown <=> f.shown)
          BY <2>4, <4>4
        <5>7. d.shown <=> job = "show"
          BY <5>5, <5>6, Zenon
        <5> QED
          BY <5>6, <5>7
      <4> QED
        BY <4>2, <4>3, <4>4
    <3> QED
      BY <3>1, <3>2 DEF LastAgrees
  <2> QED
    BY <2>6, <2>7, <2>10
<1> QED
  BY <1>1, <1>3, <1>4, DequeueIs

(* What a call or a timer leaves of effects f.                             *)
Keeps(f, d) ==
  /\ Balanced(d)
  /\ StyleAgrees(f) => StyleAgrees(d)
  /\ \A job \in {"show", "hide"} : StyleAgrees(f) /\ LastAgrees(f, job) => LastAgrees(d, job)

LEMMA BalancedCases ==
  ASSUME NEW f \in FxType, Balanced(f)
  PROVE  \/ f.queue = <<>> /\ f.running = <<>> /\ f.delays = 0
         \/ f.queue # <<>> /\ Len(f.running) = 1 /\ f.delays = 0 /\ f.running # <<>>
         \/ f.queue # <<>> /\ f.running = <<>> /\ f.delays = 1
<1>1. f.running \in Seq(Animation) /\ Len(f.running) \in Nat /\ f.delays \in Nat
  BY DEF FxType
<1>2. Len(f.running) = 0 <=> f.running = <<>>
  BY <1>1, EmptySeq
<1>3. CASE f.queue = <<>>
  <2>1. Len(f.running) + f.delays = 0
    BY <1>3 DEF Balanced
  <2> QED
    BY <1>1, <1>2, <1>3, <2>1
<1>4. CASE f.queue # <<>>
  <2>1. Len(f.running) + f.delays = 1
    BY <1>4 DEF Balanced
  <2>2. CASE Len(f.running) = 0
    <3>1. f.running = <<>> /\ f.delays = 1
      BY <1>1, <1>2, <2>1, <2>2
    <3> QED
      BY <1>4, <3>1
  <2>3. CASE Len(f.running) = 1
    <3>1. f.running # <<>> /\ f.delays = 0
      BY <1>1, <1>2, <2>1, <2>3
    <3> QED
      BY <1>4, <2>3, <3>1
  <2>4. Len(f.running) = 0 \/ Len(f.running) = 1
    <3>1. \A m, n \in Nat : m + n = 1 => m = 0 \/ m = 1
      OBVIOUS
    <3> QED
      BY <1>1, <2>1, <3>1
  <2> QED
    BY <2>2, <2>3, <2>4
<1> QED
  BY <1>3, <1>4

LEMMA CompletedKeeps ==
  ASSUME NEW f \in FxType, Behind(f, FxKinds), Balanced(f), NEW i \in DOMAIN f.running
  PROVE  i = 1 /\ Keeps(f, Completed(f, i))
<1> DEFINE e == AnimationEnds(f, i)
<1>1. f.running \in Seq(Animation) /\ Len(f.running) \in Nat /\ i \in 1 .. Len(f.running)
  BY DEF FxType
<1>2. Len(f.running) = 1 /\ f.delays = 0 /\ f.running # <<>> /\ i = 1
  <2>1. f.running # <<>>
    BY <1>1, EmptySeq
  <2> QED
    BY <1>1, <2>1, BalancedCases
<1>3. /\ e \in FxType /\ e.queue = f.queue /\ e.delays = 0 /\ Len(e.running) = 0
  <2>1. FxKinds \in SUBSET FxKinds
    OBVIOUS
  <2>2. /\ e \in FxType /\ e.queue = f.queue /\ e.delays = f.delays
        /\ Len(e.running) = Len(f.running) - 1
    BY <2>1, CompletedSound
  <2> QED
    BY <1>2, <2>2
<1>4. e.running = <<>>
  BY <1>3, EmptySeq DEF FxType
<1>5. /\ e.opacity = f.running[1].orig
      /\ e.shown = (IF f.running[1].kind = "hide" THEN FALSE ELSE f.shown)
  <2> DEFINE rest == RemoveAt(f.running, i)
  <2>1. e = [f EXCEPT !.running = rest,
                      !.shown = IF f.running[i].kind = "hide" THEN FALSE ELSE @,
                      !.opacity = IF rest = <<>> THEN f.running[i].orig ELSE "partial"]
    BY DEF AnimationEnds
  <2> HIDE DEF rest
  <2>2. rest = <<>>
    BY <1>4, <2>1 DEF FxType
  <2> QED
    BY <1>2, <2>1, <2>2 DEF FxType
<1>6. Waiting(e) = Waiting(f) /\ Asked(e) = Asked(f)
  BY <1>3 DEF Waiting, Asked
<1>7. Waiting(e) \in Seq(FxKinds)
  BY <1>6, WaitsBehind
<1>8. f.running[1].kind \in {"show", "hide"}
  <2>1. f.running[1] \in Animation
    BY <1>1, <1>2, ElementOfSeq
  <2> QED
    BY <2>1 DEF Animation
<1> HIDE DEF e
<1>9. ASSUME NEW job \in {"show", "hide"}, StyleAgrees(f), LastAgrees(f, job)
      PROVE  LastAgrees(e, job)
  <2>1. f.shown = TRUE
    BY <1>2, <1>9 DEF StyleAgrees, FxType
  <2>2. Asked(f) = {} => (e.shown <=> job = "show")
    BY <1>2, <1>5, <1>8, <1>9, <2>1 DEF LastAgrees
  <2> QED
    BY <1>4, <1>6, <1>9, <2>2 DEF LastAgrees
<1>10. StyleAgrees(f) => e.opacity = "full"
  BY <1>2, <1>5 DEF StyleAgrees
<1> QED
  BY <1>2, <1>3, <1>4, <1>7, <1>9, <1>10, DequeueBalances DEF Completed, Keeps, e

LEMMA QueueKeeps ==
  ASSUME NEW f \in FxType, Behind(f, FxKinds), Balanced(f), NEW job \in FxKinds
  PROVE  /\ Balanced(Queue(f, job))
         /\ StyleAgrees(f) => StyleAgrees(Queue(f, job))
         /\ job # "delay" => LastAgrees(Queue(f, job), job)
         /\ job = "delay" => \A l \in {"show", "hide"} :
                               LastAgrees(f, l) => LastAgrees(Queue(f, job), l)
<1> DEFINE d == Queue(f, job)
<1> DEFINE w == Waiting(f)
<1>1. w \in Seq(FxKinds) /\ Len(w) \in Nat
  BY WaitsBehind
<1>2. CASE f.queue # <<>>
  <2>1. /\ d.queue # <<>> /\ d.running = f.running /\ d.delays = f.delays
        /\ d.shown = f.shown /\ d.opacity = f.opacity /\ Waiting(d) = Append(w, job)
    BY <1>2, QueueSound
  <2>2. Balanced(d) /\ (StyleAgrees(f) => StyleAgrees(d))
    BY <1>2, <2>1 DEF Balanced, StyleAgrees
  <2>3. /\ Len(Waiting(d)) = Len(w) + 1 /\ Waiting(d)[Len(w) + 1] = job
        /\ \A i \in 1 .. Len(w) : Waiting(d)[i] = w[i]
        /\ DOMAIN Waiting(d) = 1 .. Len(w) + 1 /\ DOMAIN w = 1 .. Len(w)
    BY <1>1, <2>1
  <2>4. CASE job # "delay"
    <3>1. Len(w) + 1 \in Asked(d)
      BY <1>1, <2>3, <2>4 DEF Asked
    <3>2. ASSUME NEW i \in Asked(d), \A j \in Asked(d) : j <= i PROVE Waiting(d)[i] = job
      <4>1. i = Len(w) + 1
        BY <1>1, <2>3, <3>1, <3>2 DEF Asked
      <4> QED
        BY <2>3, <4>1
    <3>3. LastAgrees(d, job)
      BY <3>1, <3>2 DEF LastAgrees
    <3> QED
      BY <2>2, <2>4, <3>3
  <2>5. CASE job = "delay"
    <3>1. Asked(d) = Asked(f)
      BY <1>1, <2>3, <2>5 DEF Asked
    <3>2. \A i \in Asked(f) : Waiting(d)[i] = w[i]
      BY <2>3 DEF Asked
    <3>3. \A l \in {"show", "hide"} : LastAgrees(f, l) => LastAgrees(d, l)
      BY <2>1, <3>1, <3>2 DEF LastAgrees
    <3> QED
      BY <2>2, <2>5, <3>3
  <2> QED
    BY <2>4, <2>5
<1>3. CASE f.queue = <<>>
  <2> DEFINE p == [f EXCEPT !.queue = <<job>>]
  <2>1. d = Dequeue(p) /\ Waiting(p) = <<job>> /\ p \in FxType
    BY <1>3, QueueSound
  <2>2. f.running = <<>> /\ f.delays = 0
    BY <1>3, BalancedCases
  <2>3. /\ p.running = <<>> /\ p.delays = 0 /\ p.opacity = f.opacity
        /\ p.shown = f.shown
    BY <2>2 DEF FxType
  <2> HIDE DEF p
  <2>4. Waiting(p) \in Seq(FxKinds) /\ DOMAIN Waiting(p) = {1} /\ Waiting(p)[1] = job
    BY <2>1
  <2>5. Balanced(d) /\ (StyleAgrees(f) => StyleAgrees(d))
    BY <2>1, <2>2, <2>3, <2>4, DequeueBalances DEF StyleAgrees
  <2>6. CASE job # "delay"
    <3>1. Asked(p) = {1}
      BY <2>4, <2>6 DEF Asked
    <3>2. LastAgrees(p, job) /\ job \in {"show", "hide"}
      BY <2>4, <2>6, <3>1 DEF LastAgrees, FxKinds
    <3> QED
      BY <2>1, <2>3, <2>4, <2>5, <2>6, <3>2, DequeueBalances
  <2>7. CASE job = "delay"
    <3>1. Asked(p) = {}
      BY <2>4, <2>7 DEF Asked
    <3>2. Asked(f) = {}
      BY <1>3 DEF Asked, Waiting
    <3>3. ASSUME NEW l \in {"show", "hide"}, LastAgrees(f, l) PROVE LastAgrees(p, l)
      <4>1. f.shown <=> l = "show"
        BY <2>2, <3>2, <3>3 DEF LastAgrees
      <4>2. p.shown <=> l = "show"
        BY <4>1, <2>3
      <4> QED
        BY <2>3, <3>1, <4>2 DEF LastAgrees
    <3>4. \A l \in {"show", "hide"} : LastAgrees(f, l) => LastAgrees(d, l)
      BY <2>1, <2>3, <2>4, <3>3, DequeueBalances
    <3> QED
      BY <2>5, <2>7, <3>4
  <2> QED
    BY <2>6, <2>7
<1> QED
  BY <1>2, <1>3

LEMMA AllCompletedKeeps ==
  ASSUME NEW f \in FxType, Behind(f, FxKinds), Balanced(f)
  PROVE  Keeps(f, AllCompleted(f))
<1>1. CASE f.running = <<>>
  <2>1. AllCompleted(f) = f
    BY <1>1, CompletedNone
  <2> QED
    BY <2>1 DEF Keeps
<1>2. CASE Len(f.running) = 1
  <2>1. AllCompleted(f) = Completed(f, 1)
    BY <1>2, CompletedOne
  <2>2. 1 \in DOMAIN f.running
    BY <1>2 DEF FxType
  <2> QED
    BY <2>1, <2>2, CompletedKeeps
<1> QED
  BY <1>1, <1>2, BalancedCases

LEMMA ClearQueueKeeps ==
  ASSUME NEW f \in FxType, f.queue = <<>>
  PROVE  ClearQueue(f) = f
<1>1. [f EXCEPT !.queue = <<>>] = f
  BY DEF FxType
<1> QED
  BY <1>1, ClearSound

(* Stopping cuts nothing off if nothing is to be cleared but when the      *)
(* element rests, and no delay is pending when animations are dropped.     *)
LEMMA StopFxKeeps ==
  ASSUME NEW f \in FxType, Behind(f, FxKinds), Balanced(f), NEW c \in BOOLEAN, NEW e \in BOOLEAN,
         c => f.queue = <<>>, ~e => f.delays = 0
  PROVE  /\ Balanced(Stop(f, c, e))
         /\ e \/ f.running = <<>> => Keeps(f, Stop(f, c, e))
<1>1. Stop(f, c, e) = IF e THEN AllCompleted(f) ELSE Dequeue([f EXCEPT !.running = <<>>])
  BY ClearQueueKeeps DEF Stop
<1>2. CASE e
  BY <1>1, <1>2, AllCompletedKeeps DEF Keeps
<1>3. CASE ~e
  <2> DEFINE s == [f EXCEPT !.running = <<>>]
  <2>1. /\ s.queue = f.queue /\ s.running = <<>> /\ s.delays = 0 /\ s.shown = f.shown
        /\ s.opacity = f.opacity
    BY <1>3 DEF FxType
  <2>2. s \in FxType
    <3> DEFINE r == <<>>
    <3>1. r \in Seq(Animation)
      BY EmptySeq
    <3> HIDE DEF r
    <3>2. s = [f EXCEPT !.running = r]
      BY DEF r
    <3> QED
      BY <3>1, <3>2 DEF FxType
  <2>3. Waiting(s) = Waiting(f) /\ Waiting(s) \in Seq(FxKinds)
    BY <2>1, WaitsBehind DEF Waiting
  <2> HIDE DEF s
  <2>4. Balanced(Dequeue(s))
    BY <2>1, <2>2, <2>3, DequeueBalances
  <2>5. ASSUME f.running = <<>> PROVE Keeps(f, Dequeue(s))
    <3>1. StyleAgrees(f) => s.opacity = "full"
      BY <2>1, <2>5 DEF StyleAgrees
    <3>2. ASSUME NEW job \in {"show", "hide"}, LastAgrees(f, job) PROVE LastAgrees(s, job)
      BY <2>1, <2>3, <2>5, <3>2 DEF LastAgrees, Asked
    <3> QED
      BY <2>1, <2>2, <2>3, <2>4, <3>1, <3>2, DequeueBalances DEF Keeps
  <2> QED
    BY <1>1, <1>3, <2>4, <2>5 DEF s
<1> QED
  BY <1>2, <1>3

LEMMA DelayKeeps ==
  ASSUME NEW f \in FxType, Behind(f, FxKinds), Balanced(f), f.delays > 0
  PROVE  Keeps(f, DelayEnds(f))
<1> DEFINE s == [f EXCEPT !.delays = f.delays - 1]
<1>1. FxKinds \in SUBSET FxKinds
  OBVIOUS
<1>2. DelayEnds(f) = Dequeue(s) /\ s \in FxType /\ s.queue = f.queue
  BY <1>1, DelaySound
<1>3. f.running = <<>> /\ f.delays = 1
  BY BalancedCases DEF FxType
<1>4. s.running = <<>> /\ s.delays = 0 /\ s.shown = f.shown /\ s.opacity = f.opacity
  BY <1>3 DEF FxType
<1>5. Waiting(s) = Waiting(f) /\ Waiting(s) \in Seq(FxKinds)
  BY <1>1, <1>2, WaitsBehind DEF Waiting
<1> HIDE DEF s
<1>6. StyleAgrees(f) => s.opacity = "full"
  BY <1>3, <1>4 DEF StyleAgrees
<1>7. ASSUME NEW job \in {"show", "hide"}, LastAgrees(f, job) PROVE LastAgrees(s, job)
  BY <1>3, <1>4, <1>5, <1>7 DEF LastAgrees, Asked
<1> QED
  BY <1>2, <1>4, <1>5, <1>6, <1>7, DequeueBalances DEF Keeps

-------------------------------------------------------------------------------
(* What the invariant says of the effects f, when m was misused and l      *)
(* asked for last.                                                         *)
Agrees(f, m, l) ==
  /\ "cut" \notin m => Balanced(f)
  /\ m = {} => StyleAgrees(f) /\ (l # "lost" => LastAgrees(f, l))

LEMMA IdleAgrees ==
  ASSUME NEW f, NEW m, NEW l, Agrees(f, m, l), m = {}, f.queue = <<>>, f.running = <<>>
  PROVE  f.opacity = "full" /\ (l # "lost" => (f.shown <=> l = "show"))
<1>1. f.opacity = "full"
  BY DEF Agrees, StyleAgrees
<1>2. Asked(f) = {}
  BY DEF Asked, Waiting
<1>3. ASSUME l # "lost" PROVE f.shown <=> l = "show"
  BY <1>2, <1>3 DEF Agrees, LastAgrees
<1> QED
  BY <1>1, <1>3

LEMMA InvAgrees ==
  ASSUME EffectsInv
  PROVE  EffectsTypeOK /\ fx \in FxType /\ Behind(fx, FxKinds) /\ Agrees(fx, misused, last)
BY DEF EffectsInv, EffectsTypeOK, EffectsHold, Agrees, Balanced

LEMMA AgreesInv ==
  ASSUME EffectsTypeOK', Behind(fx', FxKinds), Agrees(fx', misused', last')
  PROVE  EffectsInv'
<1>1. "cut" \notin misused' => Balanced(fx')
  BY DEF Agrees
<1>2. ASSUME misused' = {}, fx'.queue = <<>>, fx'.running = <<>>
      PROVE  fx'.opacity = "full" /\ (last' # "lost" => (fx'.shown <=> last' = "show"))
  BY <1>2, IdleAgrees
<1>3. EffectsHold'
  BY <1>1, <1>2 DEF EffectsHold, Balanced
<1> QED
  BY <1>3 DEF EffectsInv, Agrees

LEMMA QueueJobStep ==
  ASSUME EffectsInv, NEW job \in FxKinds, QueueJob(job)
  PROVE  EffectsInv' /\ PromiseWaits
<1>1. /\ fx \in FxType /\ Behind(fx, FxKinds) /\ Agrees(fx, misused, last) /\ EffectsTypeOK
      /\ fx' = Queue(fx, job) /\ UNCHANGED <<promise, misused>>
      /\ last' = IF job = "delay" THEN last ELSE job
  BY InvAgrees DEF QueueJob, FxStep
<1>2. FxKinds \cup {job} = FxKinds /\ FxKinds \in SUBSET FxKinds
  OBVIOUS
<1>3. fx' \in FxType /\ Behind(fx', FxKinds)
  BY <1>1, <1>2, QueueSound
<1>4. EffectsTypeOK'
  BY <1>1, <1>3 DEF QueueJob, FxStep, EffectsTypeOK, HandleQueueMarkDefer, FxKinds
<1>5. Agrees(fx', misused', last')
  <2>1. ASSUME "cut" \notin misused
        PROVE  /\ Balanced(fx')
               /\ StyleAgrees(fx) => StyleAgrees(fx')
               /\ job # "delay" => LastAgrees(fx', job)
               /\ job = "delay" => \A l \in {"show", "hide"} :
                                     LastAgrees(fx, l) => LastAgrees(fx', l)
    BY <1>1, <2>1, QueueKeeps DEF Agrees
  <2>2. last \in {"show", "hide", "lost"}
    BY <1>1 DEF EffectsTypeOK
  <2> QED
    BY <1>1, <2>1, <2>2 DEF Agrees
<1>6. PromiseWaits
  BY <1>1 DEF PromiseWaits
<1> QED
  BY <1>3, <1>4, <1>5, <1>6, AgreesInv

(* A step that keeps balanced effects in agreement, and cuts nothing off.  *)
LEMMA KeptStep ==
  ASSUME EffectsInv, Keeps(fx, fx'), misused' = misused, last' = last
  PROVE  Agrees(fx', misused', last')
<1>1. Agrees(fx, misused, last) /\ last \in {"show", "hide", "lost"}
  BY InvAgrees DEF EffectsTypeOK
<1> QED
  BY <1>1 DEF Keeps, Agrees

LEMMA InterruptNothing ==
  ASSUME NEW c \in BOOLEAN, c => fx.queue = <<>>, Interrupt(c)
  PROVE  last' = last
<1>1. CASE c
  <2>1. ~\E i \in DOMAIN fx.queue : fx.queue[i] # "inprogress"
    BY <1>1
  <2> QED
    BY <2>1 DEF Interrupt
<1>2. CASE ~c
  BY <1>2 DEF Interrupt
<1> QED
  BY <1>1, <1>2

LEMMA StopCallStep ==
  ASSUME EffectsInv, NEW c \in BOOLEAN, NEW e \in BOOLEAN, StopCall(c, e)
  PROVE  EffectsInv' /\ PromiseWaits
<1>1. EffectsTypeOK /\ fx \in FxType /\ Behind(fx, FxKinds) /\ Agrees(fx, misused, last)
  BY InvAgrees
<1>2. /\ fx' = Stop(fx, c, e) /\ promise' = promise /\ Interrupt(c)
      /\ checks' = HandleQueueMarkDefer(fx')
      /\ misused' = misused \cup (IF fx.running # <<>> /\ ~e THEN {"stopped"} ELSE {})
                            \cup (IF fx.delays > 0 /\ (c \/ ~e) THEN {"cut"} ELSE {})
                            \cup (IF fx.running # <<>> /\ c THEN {"cut"} ELSE {})
  BY DEF StopCall, FxStep
<1>3. FxKinds \in SUBSET FxKinds
  OBVIOUS
<1>4. fx' \in FxType /\ Behind(fx', FxKinds)
  BY <1>1, <1>2, <1>3, StopSound
<1>5. EffectsTypeOK'
  <2>1. checks' \in Nat
    BY <1>1, <1>2 DEF HandleQueueMarkDefer, EffectsTypeOK
  <2>2. last' \in {"show", "hide", "lost"}
    BY <1>1, <1>2 DEF Interrupt, EffectsTypeOK
  <2>3. misused' \subseteq {"stopped", "cut"}
    BY <1>1, <1>2 DEF EffectsTypeOK
  <2> QED
    BY <1>1, <1>2, <1>4, <2>1, <2>2, <2>3 DEF EffectsTypeOK
<1>6. Agrees(fx', misused', last')
  <2>1. ASSUME "cut" \notin misused' PROVE Agrees(fx', misused', last')
    <3>1. "cut" \notin misused /\ Balanced(fx)
      BY <1>1, <1>2, <2>1 DEF Agrees
    <3>2. fx.delays > 0 => ~c /\ e
      BY <1>2, <2>1
    <3>3. fx.running # <<>> => ~c
      BY <1>2, <2>1
    <3>4. c => fx.queue = <<>>
      BY <1>1, <3>1, <3>2, <3>3, BalancedCases
    <3>5. ~e => fx.delays = 0
      BY <1>1, <3>2 DEF FxType
    <3>6. Balanced(fx') /\ (e \/ fx.running = <<>> => Keeps(fx, fx'))
      BY <1>1, <1>2, <3>1, <3>4, <3>5, StopFxKeeps
    <3>7. last' = last
      BY <1>2, <3>4, InterruptNothing
    <3>8. CASE misused' = {}
      <4>1. misused' = misused /\ (e \/ fx.running = <<>>)
        BY <1>2, <3>8
      <4> QED
        BY <3>6, <3>7, <4>1, KeptStep
    <3>9. CASE misused' # {}
      BY <3>6, <3>9 DEF Agrees
    <3> QED
      BY <3>8, <3>9
  <2>2. ASSUME "cut" \in misused' PROVE Agrees(fx', misused', last')
    BY <2>2 DEF Agrees
  <2> QED
    BY <2>1, <2>2
<1>7. PromiseWaits
  BY <1>2 DEF PromiseWaits
<1> QED
  BY <1>4, <1>5, <1>6, <1>7, AgreesInv

LEMMA ClearQueueStep ==
  ASSUME EffectsInv, ClearQueueCall
  PROVE  EffectsInv' /\ PromiseWaits
<1>1. EffectsTypeOK /\ fx \in FxType /\ Behind(fx, FxKinds) /\ Agrees(fx, misused, last)
  BY InvAgrees
<1>2. /\ fx' = ClearQueue(fx) /\ promise' = promise /\ Interrupt(TRUE)
      /\ checks' = HandleQueueMarkDefer(fx')
      /\ misused' = IF fx.running # <<>> \/ fx.delays > 0 THEN misused \cup {"cut"} ELSE misused
  BY DEF ClearQueueCall, FxStep
<1>3. fx' = [fx EXCEPT !.queue = <<>>] /\ fx' \in FxType
  BY <1>1, <1>2, ClearSound
<1>4. Behind(fx', FxKinds)
  BY <1>1, <1>3 DEF Behind, FxType
<1>5. EffectsTypeOK'
  <2>1. checks' \in Nat
    BY <1>1, <1>2 DEF HandleQueueMarkDefer, EffectsTypeOK
  <2>2. last' \in {"show", "hide", "lost"} /\ misused' \subseteq {"stopped", "cut"}
    BY <1>1, <1>2 DEF Interrupt, EffectsTypeOK
  <2> QED
    BY <1>1, <1>2, <1>3, <2>1, <2>2 DEF EffectsTypeOK
<1>6. Agrees(fx', misused', last')
  <2>1. CASE fx.running = <<>> /\ ~(fx.delays > 0) /\ "cut" \notin misused
    <3>1. Balanced(fx) /\ misused' = misused
      BY <1>1, <1>2, <2>1 DEF Agrees
    <3>2. fx.queue = <<>>
      BY <1>1, <2>1, <3>1, BalancedCases
    <3>3. fx' = fx /\ last' = last
      BY <1>1, <1>2, <3>2, ClearQueueKeeps, InterruptNothing
    <3> QED
      BY <1>1, <3>1, <3>3
  <2>2. CASE "cut" \in misused'
    BY <2>2 DEF Agrees
  <2> QED
    BY <1>2, <2>1, <2>2
<1>7. PromiseWaits
  BY <1>2 DEF PromiseWaits
<1> QED
  BY <1>4, <1>5, <1>6, <1>7, AgreesInv

LEMMA TimerSteps ==
  ASSUME EffectsInv, FxTick \/ DelayTimer
  PROVE  EffectsInv' /\ PromiseWaits
<1>1. EffectsTypeOK /\ fx \in FxType /\ Behind(fx, FxKinds) /\ Agrees(fx, misused, last)
  BY InvAgrees
<1>2. FxKinds \in SUBSET FxKinds
  OBVIOUS
<1>3. /\ promise' = promise /\ misused' = misused /\ last' = last
      /\ checks' = HandleQueueMarkDefer(fx')
  BY DEF FxTick, DelayTimer, FxStep
<1>4. /\ fx' \in FxType /\ Behind(fx', FxKinds)
      /\ "cut" \notin misused => Keeps(fx, fx')
  <2>1. CASE FxTick
    <3>1. PICK i \in DOMAIN fx.running : fx' = Completed(fx, i)
      BY <2>1 DEF FxTick, FxStep
    <3>2. fx' \in FxType /\ Behind(fx', FxKinds)
      BY <1>1, <1>2, <3>1, CompletedSound
    <3>3. "cut" \notin misused => Keeps(fx, fx')
      BY <1>1, <3>1, CompletedKeeps DEF Agrees
    <3> QED
      BY <3>2, <3>3
  <2>2. CASE DelayTimer
    <3>1. fx.delays > 0 /\ fx' = DelayEnds(fx)
      BY <2>2 DEF DelayTimer, FxStep
    <3>2. fx' \in FxType /\ Behind(fx', FxKinds)
      BY <1>1, <1>2, <3>1, DelaySound
    <3>3. "cut" \notin misused => Keeps(fx, fx')
      BY <1>1, <3>1, DelayKeeps DEF Agrees
    <3> QED
      BY <3>2, <3>3
  <2> QED
    BY <2>1, <2>2
<1>5. EffectsTypeOK'
  BY <1>1, <1>3, <1>4 DEF EffectsTypeOK, HandleQueueMarkDefer
<1>6. Agrees(fx', misused', last')
  <2>1. CASE "cut" \notin misused
    BY <1>3, <1>4, <2>1, KeptStep
  <2>2. CASE "cut" \in misused
    BY <1>3, <2>2 DEF Agrees
  <2> QED
    BY <2>1, <2>2
<1>7. PromiseWaits
  BY <1>3 DEF PromiseWaits
<1> QED
  BY <1>4, <1>5, <1>6, <1>7, AgreesInv

(* A promise is resolved only with an empty queue, and then nothing runs.  *)
LEMMA PromiseSteps ==
  ASSUME EffectsInv, Promise \/ CheckTimer
  PROVE  EffectsInv' /\ PromiseWaits
<1>1. EffectsTypeOK /\ fx \in FxType /\ Behind(fx, FxKinds) /\ Agrees(fx, misused, last)
  BY InvAgrees
<1>2. /\ fx' = fx /\ misused' = misused /\ last' = last
      /\ promise = "waiting" /\ promise' = "resolved" => fx.queue = <<>>
      /\ promise' \in {promise, "waiting", "resolved"}
      /\ checks' = checks \/ (checks > 0 /\ checks' = checks - 1)
  BY DEF Promise, CheckTimer
<1>3. EffectsTypeOK'
  BY <1>1, <1>2 DEF EffectsTypeOK
<1>4. ASSUME fx.queue = <<>>, "cut" \notin misused PROVE fx.running = <<>>
  <2>1. Balanced(fx)
    BY <1>1, <1>4 DEF Agrees
  <2> QED
    BY <1>1, <1>4, <2>1, BalancedCases
<1>5. PromiseWaits
  BY <1>2, <1>4 DEF PromiseWaits
<1> QED
  BY <1>1, <1>2, <1>3, <1>5, AgreesInv

LEMMA EffectsStep ==
  ASSUME EffectsInv, [EffectsNext]_effectsVars
  PROVE  EffectsInv' /\ [PromiseWaits]_effectsVars
<1>1. CASE UNCHANGED effectsVars
  <2>1. EffectsTypeOK' /\ fx' = fx /\ misused' = misused /\ last' = last
    BY <1>1, InvAgrees DEF effectsVars, EffectsTypeOK
  <2> QED
    BY <1>1, <2>1, InvAgrees, AgreesInv
<1>2. CASE EffectsNext
  BY <1>2, QueueJobStep, StopCallStep, ClearQueueStep, TimerSteps, PromiseSteps DEF EffectsNext
<1> QED
  BY <1>1, <1>2

LEMMA EffectsInitial == EffectsInit => EffectsInv
<1> SUFFICES ASSUME EffectsInit PROVE EffectsInv
  OBVIOUS
<1>1. PICK s \in BOOLEAN : fx = Fx(s)
  BY DEF EffectsInit
<1>2. /\ fx.shown = s /\ fx.opacity = "full" /\ fx.queue = <<>> /\ fx.running = <<>>
      /\ fx.delays = 0
  BY <1>1 DEF Fx
<1>3. fx \in FxType
  BY <1>1, EmptySeq DEF Fx, FxType
<1>4. EffectsTypeOK
  BY <1>3 DEF EffectsInit, EffectsTypeOK
<1>5. Behind(fx, FxKinds) /\ Asked(fx) = {}
  BY <1>2 DEF Behind, Asked, Waiting
<1>6. misused = {} /\ (fx.shown <=> last = "show")
  BY DEF EffectsInit
<1>7. StyleAgrees(fx) /\ LastAgrees(fx, last)
  BY <1>2, <1>5, <1>6 DEF StyleAgrees, LastAgrees
<1>8. Len(fx.running) + fx.delays = 0
  BY <1>2
<1> QED
  BY <1>2, <1>4, <1>5, <1>6, <1>7, <1>8 DEF EffectsInv, EffectsHold

(* Unless page code cut the queue off, something runs while anything       *)
(* waits, one at a time; unless it misused it, the last animation asked    *)
(* for is the last that waits, runs or has left the element: EffectsInv.   *)
THEOREM EffectsInvariance == EffectsSpec => []EffectsInv
BY EffectsInitial, EffectsStep, PTL DEF EffectsSpec

(* Effects run one at a time, and when all are done the element is as the  *)
(* last one asked for leaves it, whatever delays, stops and clears a page  *)
(* puts between them, as far as its misuse allows.                         *)
THEOREM EffectsAreSequential == EffectsSpec => []EffectsHold
<1>1. EffectsInv => EffectsHold
  BY DEF EffectsInv
<1> QED
  BY <1>1, EffectsInvariance, PTL

(* A promise that waited is resolved when nothing is queued and, unless    *)
(* the queue was cut off, nothing runs.                                    *)
THEOREM PromisesAreKept == EffectsSpec => [][PromiseWaits]_effectsVars
BY EffectsInvariance, EffectsStep, PTL DEF EffectsSpec

-------------------------------------------------------------------------------
(* The tooltip.  dequeue leaves what runs alone or adds an animation that  *)
(* has an effect.                                                          *)
LEMMA DequeueRuns ==
  ASSUME NEW f \in FxType, NEW K \in SUBSET FxKinds, Waiting(f) \in Seq(K)
  PROVE  \/ Dequeue(f).running = f.running /\ Dequeue(f).shown = f.shown
         \/ \E job \in K \ {"delay"} :
              /\ ~NoEffect(f, job) /\ Dequeue(f).shown = TRUE /\ Dequeue(f).queue # <<>>
              /\ Dequeue(f).running = Append(f.running, [kind |-> job, orig |-> f.opacity])
<1> DEFINE w == Waiting(f)
<1> DEFINE d == Dequeue(f)
<1>1. w \in Seq(FxKinds) /\ Len(w) \in Nat
  BY SeqMonotonic
<1>2. CASE d = [f EXCEPT !.queue = <<>>]
  BY <1>2 DEF FxType
<1>3. ASSUME NEW n \in 1 .. Len(w), ~NoEffect(f, w[n]), d = Begun(f, w, n)
      PROVE  \/ d.running = f.running /\ d.shown = f.shown
             \/ \E job \in K \ {"delay"} :
                  /\ ~NoEffect(f, job) /\ d.shown = TRUE /\ d.queue # <<>>
                  /\ d.running = Append(f.running, [kind |-> job, orig |-> f.opacity])
  <2> DEFINE q == <<"inprogress">> \o SubSeq(w, n + 1, Len(w))
  <2>1. q # <<>>
    <3>1. SubSeq(w, n + 1, Len(w)) \in Seq(FxKinds)
      BY <1>1, SubSeqProperties
    <3> QED
      BY <3>1, QueueOf
  <2> HIDE DEF q
  <2>2. w[n] \in K
    BY ElementOfSeq
  <2>3. CASE w[n] = "delay"
    <3>1. d = [f EXCEPT !.queue = q, !.delays = f.delays + 1]
      BY <1>3, <2>3 DEF Begun, q, FxType
    <3> QED
      BY <3>1 DEF FxType
  <2>4. CASE w[n] # "delay"
    <3> DEFINE r == Custom(f, w[n])
    <3>1. d = [f EXCEPT !.queue = q, !.shown = TRUE, !.opacity = "partial", !.running = r]
      BY <1>3, <2>4 DEF Begun, Animate, Custom, q, FxType
    <3> HIDE DEF r
    <3>2. d.shown = TRUE /\ d.queue = q /\ d.running = r
      BY <3>1 DEF FxType
    <3> HIDE DEF d
    <3> QED
      BY <1>3, <2>1, <2>2, <2>4, <3>2 DEF r, Custom
  <2> QED
    BY <2>3, <2>4
<1> QED
  BY <1>1, <1>2, <1>3, DequeueIs

Shows == {"show", "delay"}

(* Effects that only show: what runs shows, and is alone.                  *)
ShowsOnly(f) ==
  /\ f \in FxType /\ Behind(f, Shows)
  /\ f.running # <<>> => Len(f.running) = 1 /\ f.running[1].kind = "show"
Live(f) == f.running # <<>> => f.shown = TRUE
Ahead(f) == f.running # <<>> => f.queue # <<>>

LEMMA ShowsAreKinds == Shows \in SUBSET FxKinds /\ "show" \in Shows /\ "delay" \in Shows
BY DEF Shows, FxKinds

LEMMA DequeueShows ==
  ASSUME NEW f \in FxType, Waiting(f) \in Seq(Shows), Live(f),
         f.running # <<>> => Len(f.running) = 1 /\ f.running[1].kind = "show"
  PROVE  /\ ShowsOnly(Dequeue(f)) /\ Live(Dequeue(f))
         /\ f.running = <<>> => Ahead(Dequeue(f))
         /\ f.shown = TRUE => Dequeue(f).running = f.running
<1> DEFINE d == Dequeue(f)
<1>1. d \in FxType /\ Behind(d, Shows)
  BY ShowsAreKinds, DequeueSound
<1>2. CASE d.running = f.running /\ d.shown = f.shown
  BY <1>1, <1>2 DEF ShowsOnly, Live, Ahead
<1>3. ASSUME NEW job \in Shows \ {"delay"}, ~NoEffect(f, job), d.shown = TRUE, d.queue # <<>>,
             d.running = Append(f.running, [kind |-> job, orig |-> f.opacity])
      PROVE  ShowsOnly(d) /\ Live(d) /\ Ahead(d) /\ f.shown # TRUE
  <2> DEFINE a == [kind |-> job, orig |-> f.opacity]
  <2>1. job = "show" /\ a.kind = "show"
    BY DEF Shows
  <2>2. f.shown # TRUE
    BY <1>3, <2>1 DEF NoEffect
  <2>3. f.running = <<>>
    BY <2>2 DEF Live
  <2>4. d.running = Append(<<>>, a)
    BY <1>3, <2>3
  <2> HIDE DEF a
  <2>5. Len(Append(<<>>, a)) = 1 /\ Append(<<>>, a)[1] = a
    OBVIOUS
  <2> HIDE DEF d
  <2> QED
    BY <1>1, <1>3, <2>1, <2>2, <2>4, <2>5 DEF ShowsOnly, Live, Ahead
<1> QED
  BY <1>2, <1>3, ShowsAreKinds, DequeueRuns

LEMMA EndShows ==
  ASSUME NEW f, ShowsOnly(f), NEW i \in DOMAIN f.running
  PROVE  /\ i = 1 /\ AnimationEnds(f, i) \in FxType /\ AnimationEnds(f, i).running = <<>>
         /\ AnimationEnds(f, i).shown = f.shown /\ Waiting(AnimationEnds(f, i)) \in Seq(Shows)
<1> DEFINE e == AnimationEnds(f, i)
<1>1. f \in FxType /\ Behind(f, Shows)
  BY DEF ShowsOnly
<1>2. f.running \in Seq(Animation) /\ i \in 1 .. Len(f.running) /\ Len(f.running) \in Nat
  BY <1>1 DEF FxType
<1>3. f.running # <<>>
  BY <1>2, EmptySeq
<1>4. i = 1 /\ Len(f.running) = 1 /\ f.running[1].kind = "show"
  BY <1>2, <1>3 DEF ShowsOnly
<1>5. e \in FxType /\ e.queue = f.queue /\ Len(e.running) = 0
  <2>1. e \in FxType /\ e.queue = f.queue /\ Len(e.running) = Len(f.running) - 1
    BY <1>1, ShowsAreKinds, CompletedSound
  <2> QED
    BY <1>4, <2>1
<1>6. e.running = <<>>
  BY <1>5, EmptySeq DEF FxType
<1>7. e.shown = f.shown
  <2>1. f.running[i].kind # "hide"
    BY <1>4
  <2> QED
    BY <1>1, <2>1 DEF AnimationEnds, FxType
<1>8. Waiting(e) \in Seq(Shows)
  BY <1>1, <1>5, ShowsAreKinds, WaitsBehind DEF Waiting
<1> QED
  BY <1>4, <1>5, <1>6, <1>7, <1>8

LEMMA StopShows ==
  ASSUME NEW f, ShowsOnly(f)
  PROVE  LET s == Stop(f, FALSE, TRUE)
         IN  ShowsOnly(s) /\ Live(s) /\ (f.running # <<>> => Ahead(s)) /\ (Live(f) => s.running = <<>>)
<1>1. Stop(f, FALSE, TRUE) = AllCompleted(f)
  BY DEF Stop
<1>2. CASE f.running = <<>>
  <2>1. AllCompleted(f) = f
    BY <1>2, CompletedNone
  <2> QED
    BY <1>1, <1>2, <2>1 DEF Live
<1>3. CASE f.running # <<>>
  <2>1. Len(f.running) = 1 /\ 1 \in DOMAIN f.running
    BY <1>3 DEF ShowsOnly, FxType
  <2> DEFINE e == AnimationEnds(f, 1)
  <2>2. AllCompleted(f) = Dequeue(e)
    BY <2>1, CompletedOne DEF Completed
  <2>3. /\ e \in FxType /\ e.running = <<>> /\ e.shown = f.shown /\ Waiting(e) \in Seq(Shows)
    BY <2>1, EndShows
  <2> HIDE DEF e
  <2>4. /\ ShowsOnly(Dequeue(e)) /\ Live(Dequeue(e)) /\ Ahead(Dequeue(e))
        /\ e.shown = TRUE => Dequeue(e).running = <<>>
    BY <2>3, DequeueShows DEF Live
  <2> QED
    BY <1>1, <1>3, <2>2, <2>3, <2>4 DEF Live
<1> QED
  BY <1>2, <1>3

LEMMA QueueShows ==
  ASSUME NEW f, ShowsOnly(f), Live(f), Ahead(f), NEW job \in Shows
  PROVE  LET q == Queue(f, job)
         IN  /\ ShowsOnly(q) /\ Live(q)
             /\ f.queue # <<>> => q.running = f.running /\ q.queue # <<>>
             /\ job = "delay" => q.running = f.running
<1> DEFINE q == Queue(f, job)
<1>1. f \in FxType /\ Behind(f, Shows) /\ job \in FxKinds /\ Shows \cup {job} = Shows
  BY ShowsAreKinds DEF ShowsOnly
<1>2. q \in FxType /\ Behind(q, Shows)
  BY <1>1, ShowsAreKinds, QueueSound
<1>3. CASE f.queue # <<>>
  <2>1. q.queue # <<>> /\ q.running = f.running /\ q.shown = f.shown
    BY <1>1, <1>3, ShowsAreKinds, QueueSound
  <2> HIDE DEF q
  <2> QED
    BY <1>2, <1>3, <2>1 DEF ShowsOnly, Live, q
<1>4. CASE f.queue = <<>>
  <2> DEFINE p == [f EXCEPT !.queue = <<job>>]
  <2>1. q = Dequeue(p) /\ Waiting(p) = <<job>> /\ p \in FxType
    BY <1>1, <1>4, ShowsAreKinds, QueueSound
  <2>2. f.running = <<>>
    BY <1>4 DEF Ahead
  <2>3. p.running = <<>>
    BY <1>1, <2>2 DEF FxType
  <2> HIDE DEF p
  <2>4. Waiting(p) \in Seq(Shows) /\ Waiting(p) \in Seq({job}) /\ {job} \in SUBSET FxKinds
    BY <1>1, <2>1
  <2>5. ShowsOnly(q) /\ Live(q)
    BY <2>1, <2>3, <2>4, DequeueShows DEF Live
  <2>6. job = "delay" => q.running = <<>>
    BY <2>1, <2>3, <2>4, DequeueRuns
  <2> QED
    BY <1>4, <2>2, <2>5, <2>6
<1> QED
  BY <1>3, <1>4

LEMMA HideShows ==
  ASSUME NEW f, ShowsOnly(f)
  PROVE  /\ ShowsOnly(Hide(f)) /\ Hide(f).shown = FALSE /\ Hide(f).queue = f.queue
         /\ Hide(f).running = f.running
<1>1. f \in FxType /\ Hide(f) = [f EXCEPT !.shown = FALSE]
  BY DEF ShowsOnly, Hide
<1>2. /\ Hide(f).shown = FALSE /\ Hide(f).queue = f.queue /\ Hide(f).running = f.running
      /\ Hide(f) \in FxType
  BY <1>1 DEF FxType
<1> QED
  BY <1>2 DEF ShowsOnly, Behind

(* An opening tooltip is hidden and not animated, and waits for its delay. *)
LEMMA OpenShows ==
  ASSUME NEW f, ShowsOnly(f)
  PROVE  ShowsOnly(OpenEffects(f)) /\ OpenEffects(f).running = <<>>
<1> DEFINE s1 == Stop(f, FALSE, TRUE)
<1> DEFINE q1 == Queue(s1, "show")
<1> DEFINE s2 == Stop(q1, FALSE, TRUE)
<1> DEFINE h == Hide(s2)
<1> DEFINE q2 == Queue(h, "delay")
<1> DEFINE q3 == Queue(q2, "show")
<1>1. OpenEffects(f) = q3
  BY DEF OpenEffects
<1>2. ShowsOnly(s1) /\ Live(s1) /\ Ahead(s1)
  <2>1. CASE f.running # <<>>
    BY <2>1, StopShows
  <2>2. CASE f.running = <<>>
    <3>1. s1.running = <<>>
      BY <2>2, StopShows DEF Live
    <3> QED
      BY <3>1, StopShows DEF Live, Ahead
  <2> QED
    BY <2>1, <2>2
<1> HIDE DEF s1
<1>3. ShowsOnly(q1) /\ Live(q1)
  BY <1>2, ShowsAreKinds, QueueShows
<1> HIDE DEF q1
<1>4. ShowsOnly(s2) /\ s2.running = <<>>
  BY <1>3, StopShows
<1> HIDE DEF s2
<1>5. ShowsOnly(h) /\ h.running = <<>>
  BY <1>4, HideShows
<1> HIDE DEF h
<1>6. ShowsOnly(q2) /\ q2.running = <<>>
  BY <1>5, ShowsAreKinds, QueueShows DEF Live, Ahead
<1>7. q2.queue # <<>>
  <2>1. h \in FxType /\ Behind(h, Shows)
    BY <1>5 DEF ShowsOnly
  <2>2. CASE h.queue # <<>>
    BY <2>1, <2>2, ShowsAreKinds, QueueSound
  <2>3. CASE h.queue = <<>>
    <3> DEFINE p == [h EXCEPT !.queue = <<"delay">>]
    <3>1. "delay" \in FxKinds
      BY ShowsAreKinds
    <3>2. q2 = Dequeue(p) /\ Waiting(p) = <<"delay">> /\ p \in FxType
      BY <2>1, <2>3, <3>1, ShowsAreKinds, QueueSound
    <3> HIDE DEF p
    <3>3. Waiting(p) \in Seq(FxKinds) /\ Len(Waiting(p)) = 1 /\ Waiting(p)[1] = "delay"
      BY <3>1, <3>2
    <3>4. ~NoEffect(p, "delay")
      BY DEF NoEffect
    <3>5. Dequeue(p) = Begun(p, Waiting(p), 1)
      <4> DEFINE w == Waiting(p)
      <4>1. w \in Seq(FxKinds) /\ Len(w) = 1 /\ ~NoEffect(p, w[1])
        BY <3>3, <3>4
      <4> HIDE DEF w
      <4>2. \A n \in 1 .. Len(w) : n = 1
        BY <4>1
      <4>3. 1 \in 1 .. Len(w)
        BY <4>1
      <4> QED
        BY <4>1, <4>2, <4>3, DequeueIs DEF w
    <3> DEFINE rest == SubSeq(Waiting(p), 2, Len(Waiting(p)))
    <3> DEFINE q == <<"inprogress">> \o rest
    <3>6. q # <<>>
      <4>1. rest \in Seq(FxKinds)
        BY <3>3, SubSeqProperties
      <4> HIDE DEF rest
      <4> QED
        BY <4>1, QueueOf
    <3> HIDE DEF q
    <3>7. Begun(p, Waiting(p), 1) = [p EXCEPT !.queue = q, !.delays = p.delays + 1]
      BY <3>3 DEF Begun, q
    <3> QED
      BY <3>2, <3>5, <3>6, <3>7 DEF FxType
  <2> QED
    BY <2>2, <2>3
<1> HIDE DEF q2
<1>8. ShowsOnly(q3) /\ q3.running = <<>>
  BY <1>6, <1>7, ShowsAreKinds, QueueShows DEF Live, Ahead
<1> QED
  BY <1>1, <1>8

(* A closed tooltip is hidden, with nothing that waits or runs.            *)
LEMMA CloseShows ==
  ASSUME NEW f, ShowsOnly(f), Live(f)
  PROVE  LET d == CloseEffects(f)
         IN  d \in FxType /\ d.shown = FALSE /\ d.queue = <<>> /\ d.running = <<>>
<1> DEFINE s1 == Stop(f, FALSE, TRUE)
<1> DEFINE faded == Queue(s1, "hide")
<1> DEFINE s2 == Stop(faded, FALSE, TRUE)
<1> DEFINE h == Hide(s2)
<1>1. CloseEffects(f) = ClearQueue(h)
  BY DEF CloseEffects
<1>2. ShowsOnly(s1) /\ s1.running = <<>> /\ s1 \in FxType /\ Behind(s1, Shows)
  BY StopShows DEF ShowsOnly
<1> HIDE DEF s1
<1>3. s2 = AllCompleted(faded)
  BY DEF Stop
<1>4. "hide" \in FxKinds /\ {"hide"} \in SUBSET FxKinds
  BY DEF FxKinds
<1>5. s2 \in FxType /\ s2.running = <<>>
  <2>1. CASE s1.queue # <<>>
    <3>1. faded \in FxType /\ faded.running = <<>>
      BY <1>2, <1>4, <2>1, ShowsAreKinds, QueueSound
    <3> QED
      BY <1>3, <3>1, CompletedNone
  <2>2. CASE s1.queue = <<>>
    <3> DEFINE p == [s1 EXCEPT !.queue = <<"hide">>]
    <3>1. faded = Dequeue(p) /\ Waiting(p) = <<"hide">> /\ p \in FxType
      BY <1>2, <1>4, <2>2, ShowsAreKinds, QueueSound
    <3>2. p.running = <<>>
      BY <1>2 DEF FxType
    <3> HIDE DEF p, faded
    <3>3. Waiting(p) \in Seq({"hide"})
      BY <3>1
    <3>4. faded \in FxType /\ Behind(faded, {"hide"})
      BY <1>4, <3>1, <3>3, DequeueSound
    <3>5. CASE faded.running = <<>>
      BY <1>3, <3>4, <3>5, CompletedNone
    <3>6. CASE faded.running # <<>>
      <4> DEFINE a == [kind |-> "hide", orig |-> p.opacity]
      <4>1. faded.running = Append(<<>>, a)
        BY <1>4, <3>1, <3>2, <3>3, <3>6, DequeueRuns
      <4>2. a.kind = "hide" /\ Len(Append(<<>>, a)) = 1 /\ Append(<<>>, a)[1] = a
        OBVIOUS
      <4> HIDE DEF a
      <4>3. Len(faded.running) = 1 /\ faded.running[1].kind = "hide"
        BY <4>1, <4>2
      <4>4. 1 \in DOMAIN faded.running
        BY <3>4, <4>3 DEF FxType
      <4> DEFINE e == AnimationEnds(faded, 1)
      <4>5. AllCompleted(faded) = Dequeue(e)
        BY <4>3, CompletedOne DEF Completed
      <4>6. e \in FxType /\ e.queue = faded.queue /\ Len(e.running) = 0
        <5>1. e \in FxType /\ e.queue = faded.queue /\ Len(e.running) = Len(faded.running) - 1
          BY <1>4, <3>4, <4>4, CompletedSound
        <5> QED
          BY <4>3, <5>1
      <4>7. e.running = <<>>
        BY <4>6, EmptySeq DEF FxType
      <4>8. e.shown = FALSE
        BY <3>4, <4>3 DEF AnimationEnds, FxType
      <4>9. Waiting(e) \in Seq({"hide"})
        BY <1>4, <3>4, <4>6, WaitsBehind DEF Waiting
      <4> HIDE DEF e
      <4>10. NoEffect(e, "hide")
        BY <4>8 DEF NoEffect
      <4>11. Dequeue(e).running = <<>>
        BY <1>4, <4>6, <4>7, <4>9, <4>10, DequeueRuns
      <4>12. Dequeue(e) \in FxType
        BY <1>4, <4>6, <4>9, DequeueSound
      <4> QED
        BY <1>3, <4>5, <4>11, <4>12
    <3> QED
      BY <3>5, <3>6
  <2> QED
    BY <2>1, <2>2
<1> HIDE DEF s2
<1>6. h \in FxType /\ h.shown = FALSE /\ h.running = <<>>
  <2>1. h = [s2 EXCEPT !.shown = FALSE]
    BY DEF Hide
  <2> QED
    BY <1>5, <2>1 DEF FxType
<1> HIDE DEF h
<1>7. ClearQueue(h) = [h EXCEPT !.queue = <<>>] /\ ClearQueue(h) \in FxType
  BY <1>6, ClearSound
<1>8. ClearQueue(h).shown = FALSE /\ ClearQueue(h).queue = <<>> /\ ClearQueue(h).running = <<>>
  BY <1>6, <1>7 DEF FxType
<1> QED
  BY <1>1, <1>7, <1>8

(* The invariant of the tooltip, of its effects f and of what is open.     *)
Tipped(f, c) ==
  /\ ShowsOnly(f) /\ Live(f)
  /\ c = NoTarget => f.shown = FALSE /\ f.queue = <<>> /\ f.running = <<>>
Titles(c, ts, s, r) ==
  /\ c \in Target \cup {NoTarget} /\ ts \subseteq Target /\ s \in BOOLEAN
  /\ \A t \in Target \ r : t \in ts <=> t # c
  /\ c \notin r \cup {NoTarget} => s

LEMMA InvTipped ==
  ASSUME TipInv
  PROVE  Tipped(tip, current) /\ Titles(current, title, saved, replaced)
<1>1. /\ tip \in FxType /\ Behind(tip, Shows) /\ Len(tip.running) <= 1
      /\ tip.running # <<>> => tip.shown /\ tip.running[1].kind = "show"
      /\ current = NoTarget => ~tip.shown /\ tip.queue = <<>> /\ tip.running = <<>>
  BY DEF TipInv, TipTypeOK, ClosedStaysHidden, TipAgrees, Shows
<1>2. tip.shown \in BOOLEAN /\ Len(tip.running) \in Nat
  BY <1>1 DEF FxType
<1>3. tip.running # <<>> => Len(tip.running) = 1
  <2> SUFFICES ASSUME tip.running # <<>> PROVE Len(tip.running) = 1
    OBVIOUS
  <2>1. Len(tip.running) # 0
    BY <1>1, EmptySeq DEF FxType
  <2> DEFINE n == Len(tip.running)
  <2>2. n \in Nat /\ n <= 1 /\ n # 0
    BY <1>1, <1>2, <2>1
  <2> HIDE DEF n
  <2>3. n = 1
    BY <2>2
  <2> QED
    BY <2>3 DEF n
<1>4. Tipped(tip, current)
  BY <1>1, <1>2, <1>3 DEF Tipped, ShowsOnly, Live
<1>5. Titles(current, title, saved, replaced)
  BY DEF TipInv, TipTypeOK, ClosedStaysHidden, TipAgrees, Titles
<1> QED
  BY <1>4, <1>5

LEMMA TippedInv ==
  ASSUME Tipped(tip', current'), Titles(current', title', saved', replaced')
  PROVE  TipInv'
<1>1. /\ tip' \in FxType /\ Behind(tip', Shows)
      /\ tip'.running # <<>> =>
           tip'.shown = TRUE /\ Len(tip'.running) = 1 /\ tip'.running[1].kind = "show"
      /\ current' = NoTarget => tip'.shown = FALSE /\ tip'.queue = <<>> /\ tip'.running = <<>>
  BY DEF Tipped, ShowsOnly, Live
<1>2. Len(tip'.running) <= 1
  <2>1. CASE tip'.running = <<>>
    <3>1. Len(tip'.running) = 0
      BY <1>1, <2>1, EmptySeq DEF FxType
    <3> QED
      BY <3>1
  <2>2. CASE tip'.running # <<>>
    <3>1. Len(tip'.running) = 1
      BY <1>1, <2>2
    <3> QED
      BY <3>1
  <2> QED
    BY <2>1, <2>2
<1>3. TipTypeOK'
  BY <1>1 DEF TipTypeOK, Titles
<1>4. ClosedStaysHidden'
  BY <1>1, <1>2 DEF ClosedStaysHidden, Titles
<1>5. TipAgrees'
  BY <1>1 DEF TipAgrees, Titles, Shows
<1> QED
  BY <1>3, <1>4, <1>5 DEF TipInv

LEMMA TipInitial == TipInit => TipInv
<1> SUFFICES ASSUME TipInit PROVE TipInv
  OBVIOUS
<1>1. /\ tip.shown = FALSE /\ tip.queue = <<>> /\ tip.running = <<>>
      /\ tip \in FxType /\ Len(tip.running) = 0
  BY EmptySeq DEF TipInit, Fx, FxType
<1>2. current = NoTarget /\ title = Target /\ saved = FALSE /\ replaced = {}
  BY DEF TipInit
<1>3. TipTypeOK
  BY <1>1, <1>2 DEF TipTypeOK
<1>4. ClosedStaysHidden
  BY <1>1, <1>2, TargetAssumption DEF ClosedStaysHidden
<1>5. TipAgrees
  BY <1>1, <1>2 DEF TipAgrees, Behind
<1> QED
  BY <1>3, <1>4, <1>5 DEF TipInv

(* An element whose tooltip opens gives up its title until it closes.      *)
LEMMA OpenStep ==
  ASSUME TipInv, NEW t \in Target, OpenTip(t)
  PROVE  TipInv'
<1>1. Tipped(tip, current) /\ Titles(current, title, saved, replaced)
  BY InvTipped
<1>2. CASE t = current
  <2>1. UNCHANGED <<tip, current, title, saved, replaced>>
    BY <1>2 DEF OpenTip
  <2> QED
    BY <1>1, <2>1, TippedInv
<1>3. CASE t # current
  <2>1. /\ tip' = OpenEffects(Hide(tip)) /\ current' = t /\ saved' = (t \in title)
        /\ title' = title \ {t}
        /\ replaced' = IF current = NoTarget THEN replaced ELSE replaced \cup {current}
    BY <1>3 DEF OpenTip
  <2>2. t # NoTarget
    BY TargetAssumption
  <2>3. ShowsOnly(tip') /\ tip'.running = <<>>
    <3>1. ShowsOnly(Hide(tip))
      BY <1>1, HideShows DEF Tipped
    <3> QED
      BY <2>1, <3>1, OpenShows
  <2>4. Tipped(tip', current')
    BY <2>1, <2>2, <2>3 DEF Tipped, Live
  <2>5. Titles(current', title', saved', replaced')
    <3>1. \A u \in Target \ replaced' : u \in title' <=> u # current'
      BY <1>1, <2>1, <2>2, TargetAssumption DEF Titles
    <3>2. ASSUME t \notin replaced' PROVE saved' = TRUE
      BY <1>1, <1>3, <2>1, <3>2 DEF Titles
    <3>3. current' \in Target /\ title' \subseteq Target /\ saved' \in BOOLEAN
      BY <1>1, <2>1 DEF Titles
    <3> QED
      BY <2>1, <3>1, <3>2, <3>3 DEF Titles
  <2> QED
    BY <2>4, <2>5, TippedInv
<1> QED
  BY <1>2, <1>3

LEMMA CloseStep ==
  ASSUME TipInv, CloseTip
  PROVE  TipInv'
<1>1. Tipped(tip, current) /\ Titles(current, title, saved, replaced)
  BY InvTipped
<1>2. CASE current = NoTarget
  <2>1. UNCHANGED <<tip, current, title, saved, replaced>>
    BY <1>2 DEF CloseTip
  <2> QED
    BY <1>1, <2>1, TippedInv
<1>3. CASE current # NoTarget
  <2>1. /\ tip' = CloseEffects(tip) /\ current' = NoTarget
        /\ title' = IF saved THEN title \cup {current} ELSE title
        /\ saved' = saved /\ replaced' = replaced
    BY <1>3 DEF CloseTip
  <2>2. tip' \in FxType /\ tip'.shown = FALSE /\ tip'.queue = <<>> /\ tip'.running = <<>>
    BY <1>1, <2>1, CloseShows DEF Tipped
  <2>3. Tipped(tip', current')
    BY <2>2 DEF Tipped, ShowsOnly, Live, Behind
  <2>4. Titles(current', title', saved', replaced')
    BY <1>1, <1>3, <2>1, TargetAssumption DEF Titles
  <2> QED
    BY <2>3, <2>4, TippedInv
<1> QED
  BY <1>2, <1>3

LEMMA TipTickStep ==
  ASSUME TipInv, TipTick
  PROVE  TipInv'
<1>1. Tipped(tip, current) /\ Titles(current, title, saved, replaced)
  BY InvTipped
<1>2. PICK i \in DOMAIN tip.running : tip' = Completed(tip, i)
  BY DEF TipTick
<1>3. UNCHANGED <<current, title, saved, replaced>>
  BY DEF TipTick
<1>4. ShowsOnly(tip)
  BY <1>1 DEF Tipped
<1> DEFINE e == AnimationEnds(tip, i)
<1>5. e \in FxType /\ e.running = <<>> /\ Waiting(e) \in Seq(Shows)
  BY <1>4, EndShows
<1>6. tip' = Dequeue(e)
  BY <1>2 DEF Completed
<1> HIDE DEF e
<1>7. ShowsOnly(tip') /\ Live(tip')
  BY <1>5, <1>6, DequeueShows DEF Live
<1>8. current # NoTarget
  <2>1. SUFFICES ASSUME current = NoTarget PROVE FALSE
    OBVIOUS
  <2>2. tip.running = <<>>
    BY <1>1, <2>1 DEF Tipped
  <2> QED
    BY <2>2
<1>9. Tipped(tip', current')
  BY <1>3, <1>7, <1>8 DEF Tipped
<1> QED
  BY <1>1, <1>3, <1>9, TippedInv

(* The timer of a delay, which nothing cancels, may find its tooltip       *)
(* closed, or open anew.                                                   *)
LEMMA TipDelayStep ==
  ASSUME TipInv, TipDelayTimer
  PROVE  TipInv'
<1>1. Tipped(tip, current) /\ Titles(current, title, saved, replaced)
  BY InvTipped
<1> DEFINE f == [tip EXCEPT !.delays = @ - 1]
<1>2. tip' = Dequeue(f) /\ tip.delays > 0 /\ UNCHANGED <<current, title, saved, replaced>>
  BY DEF TipDelayTimer, DelayEnds
<1>3. /\ tip \in FxType /\ Behind(tip, Shows) /\ Live(tip)
      /\ tip.running # <<>> => Len(tip.running) = 1 /\ tip.running[1].kind = "show"
  BY <1>1 DEF Tipped, ShowsOnly
<1>4. /\ f \in FxType /\ f.running = tip.running /\ f.shown = tip.shown /\ f.queue = tip.queue
  BY <1>2, <1>3 DEF FxType
<1> HIDE DEF f
<1>5. Waiting(f) = Waiting(tip) /\ Waiting(tip) \in Seq(Shows)
  BY <1>3, <1>4, ShowsAreKinds, WaitsBehind DEF Waiting
<1>6. ShowsOnly(tip') /\ Live(tip')
  BY <1>2, <1>3, <1>4, <1>5, DequeueShows DEF Live
<1>7. ASSUME current = NoTarget
      PROVE  tip'.shown = FALSE /\ tip'.queue = <<>> /\ tip'.running = <<>>
  <2>1. f.shown = FALSE /\ f.queue = <<>> /\ f.running = <<>>
    BY <1>1, <1>4, <1>7 DEF Tipped
  <2>2. Waiting(f) = <<>> /\ <<>> \in Seq(FxKinds) /\ 1 .. Len(<<>>) = {}
    BY <2>1 DEF Waiting
  <2>3. Dequeue(f) = [f EXCEPT !.queue = <<>>]
    BY <2>2, DequeueIs
  <2> QED
    BY <1>2, <1>4, <2>1, <2>3 DEF FxType
<1>8. Tipped(tip', current')
  BY <1>2, <1>6, <1>7 DEF Tipped
<1> QED
  BY <1>1, <1>2, <1>8, TippedInv

LEMMA TipStep ==
  ASSUME TipInv, [TipNext]_tipVars
  PROVE  TipInv'
<1>1. CASE UNCHANGED tipVars
  <2>1. UNCHANGED <<tip, current, title, saved, replaced>>
    BY <1>1 DEF tipVars
  <2> QED
    BY <2>1, InvTipped, TippedInv
<1>2. CASE TipNext
  BY <1>2, OpenStep, CloseStep, TipTickStep, TipDelayStep DEF TipNext, Leave, Enter
<1> QED
  BY <1>1, <1>2

(* The effects of the tooltip only show it, and are alone: TipInv.         *)
THEOREM TipInvariance == TipSpec => []TipInv
BY TipInitial, TipStep, PTL DEF TipSpec

(* A closed tooltip is hidden and stays so, whatever timers are left over, *)
(* it is never animated twice at a time, and titles come back.             *)
THEOREM ClosedTooltipsStayHidden == TipSpec => []ClosedStaysHidden
<1>1. TipInv => ClosedStaysHidden
  BY DEF TipInv
<1> QED
  BY <1>1, TipInvariance, PTL
===============================================================================
