-------------------------------- MODULE Ajax --------------------------------
(***************************************************************************)
(* jQuery.ajax as the pages use it (MyInfusion.js): the life of a request  *)
(* object from its options to its callbacks, with the deferred lists that  *)
(* run them, the timeout timer, abort, synchronous requests and JSONP.     *)
(*                                                                         *)
(* The browser runs one event at a time: the answer of a request, its      *)
(* timer, a call of abort and a late registration are separate events, in  *)
(* any order.  A synchronous request ends before any other event.          *)
(* Conditional requests and caching by URL are not represented.            *)
(***************************************************************************)
EXTENDS Naturals, Sequences, FiniteSets

CONSTANTS
  Request,       \* request objects
  MaxCallbacks,  \* bound: callbacks registered on one list of a request
  Unset

ASSUME RequestAssumption == IsFiniteSet(Request) /\ Unset \notin Request
ASSUME CallbacksAssumption == MaxCallbacks \in Nat \ {0}

VARIABLES
  state,      \* 0 before, 1 while sent and 2 once done
  opts,       \* the options of a request
  done,       \* the _Deferred of its success callbacks
  fail,       \* the _Deferred of its error callbacks
  complete,   \* the _Deferred of its complete callbacks
  ran,        \* history: the callbacks that ran, in order
  count,      \* callbacks registered on each of the two lists
  data,       \* the request whose response the success callbacks received
  timer,      \* requests with a running timeout timer
  active,     \* jQuery.active
  broken,     \* history: requests whose end a failing callback cut short
  window,     \* the JSONP callback installed under each name: its request
  name,       \* the JSONP callback name of a request
  previous,   \* what a JSONP request found installed
  container,  \* its responseContainer: whose response it was given
  jsc         \* the counter of generated callback names

lists == <<done, fail, complete, ran, count>>
jsonp == <<window, name, previous, container, jsc>>
ajaxVars == <<state, opts, lists, data, timer, active, broken, jsonp>>

Options == [async : BOOLEAN, timeout : BOOLEAN, jsonp : BOOLEAN, throws : BOOLEAN]
Name == 0 .. Cardinality(Request)

(***************************************************************************)
(* jQuery._Deferred: registered callbacks wait until the list is resolved, *)
(* then each is taken off the list and run.  One that fails leaves the     *)
(* rest waiting for the next registration, and the list counts as fired.   *)
(***************************************************************************)
List(callbacks) == [callbacks |-> callbacks, fired |-> FALSE, cancelled |-> FALSE]
Fired(callbacks) == [callbacks |-> callbacks, fired |-> TRUE, cancelled |-> FALSE]
Cancel(d) == [callbacks |-> <<>>, fired |-> d.fired, cancelled |-> TRUE]

(* What runs when the list is resolved: everything, or up to the callback  *)
(* that fails.  Only the callback of the options, number 1, may fail.      *)
Running(d, throws) ==
  IF d.cancelled \/ d.fired THEN <<>>
  ELSE IF throws /\ d.callbacks # <<>> THEN <<Head(d.callbacks)>>
  ELSE d.callbacks

ResolveWith(d, throws) ==
  IF d.cancelled \/ d.fired THEN d
  ELSE Fired(SubSeq(d.callbacks, Len(Running(d, throws)) + 1, Len(d.callbacks)))

(* A registration on a list that has fired runs at once, after whatever a  *)
(* failure left waiting.                                                   *)
Pushed(d, id) == List(Append(d.callbacks, id))     \* d is not cancelled
(* a bug: a registration on a list that has fired waits with the rest.     *)
RegisteredWaits(d, id) == IF d.cancelled THEN d ELSE Pushed(d, id)
Registered(d, id) ==
  IF d.cancelled THEN d
  ELSE IF d.fired THEN ResolveWith(Pushed(d, id), FALSE)
  ELSE Pushed(d, id)
(* a bug: it passes what a failure left waiting.                           *)
RunsAlone(d, id) == IF d.fired /\ ~d.cancelled THEN <<id>> ELSE <<>>
RunsAtOnce(d, id) ==
  IF d.fired /\ ~d.cancelled THEN Running(Pushed(d, id), FALSE) ELSE <<>>

Named(kind, ids) == [i \in 1 .. Len(ids) |-> <<kind, ids[i]>>]

AjaxInit ==
  /\ state = [r \in Request |-> 0]
  /\ opts = [r \in Request |-> Unset]
  /\ done = [r \in Request |-> List(<<>>)]
  /\ fail = [r \in Request |-> List(<<>>)]
  /\ complete = [r \in Request |-> List(<<>>)]
  /\ ran = [r \in Request |-> <<>>]
  /\ count = [r \in Request |-> 0]
  /\ data = [r \in Request |-> Unset]
  /\ timer = {} /\ active = 0 /\ broken = {}
  /\ window = [n \in Name |-> Unset]
  /\ name = [r \in Request |-> Unset]
  /\ previous = [r \in Request |-> Unset]
  /\ container = [r \in Request |-> Unset]
  /\ jsc = 0

FireGlobals(o) == ~o.jsonp     \* a script of another site fires no globals

(* Whether the end of a request is counted in jQuery.active.               *)
(* a bug: the end of every request is counted, as its beginning is not.    *)
EveryEndCounts(o) == ~o.throws
EndCounts(o) == FireGlobals(o) /\ ~o.throws

(***************************************************************************)
(* The inner function done: the first end of a request runs its callbacks; *)
(* every later one returns at once.  When a callback fails, the rest of    *)
(* the function is skipped: complete callbacks and the global counter.     *)
(***************************************************************************)
Converted(r, answer) == answer = "ok" /\ (opts[r].jsonp => container[r] # Unset)

Finish(r, success) ==
  LET throws == opts[r].throws
      winner == Running(IF success THEN done[r] ELSE fail[r], throws)
      first  == Named(IF success THEN "done" ELSE "fail", winner)
      rest   == IF throws THEN <<>> ELSE Named("complete", Running(complete[r], FALSE))
  IN  /\ done' = [done EXCEPT ![r] = IF success THEN ResolveWith(@, throws) ELSE Cancel(@)]
      /\ fail' = [fail EXCEPT ![r] = IF success THEN Cancel(@) ELSE ResolveWith(@, throws)]
      /\ complete' = [complete EXCEPT ![r] = IF throws THEN @ ELSE ResolveWith(@, FALSE)]
      /\ ran' = [ran EXCEPT ![r] = @ \o first \o rest]
      /\ active' = IF EndCounts(opts[r]) THEN active - 1 ELSE active
      /\ broken' = IF throws THEN broken \cup {r} ELSE broken
      /\ UNCHANGED count

(* A JSONP request first puts back what it found under its name, and hands *)
(* over its response when that was a function.                             *)
PutBack(r) ==
  IF opts[r].jsonp
  THEN /\ window' = [window EXCEPT ![name[r]] = previous[r]]
       /\ container' = IF container[r] # Unset /\ previous[r] # Unset
                       THEN [container EXCEPT ![previous[r]] = container[r]]
                       ELSE container
  ELSE UNCHANGED <<window, container>>

Done(r, answer) ==
  IF state[r] = 2 THEN UNCHANGED ajaxVars
  ELSE /\ state' = [state EXCEPT ![r] = 2]
       /\ timer' = timer \ {r}
       /\ data' = [data EXCEPT ![r] =
                     IF ~Converted(r, answer) THEN @
                     ELSE IF opts[r].jsonp THEN container[r] ELSE r]
       /\ Finish(r, Converted(r, answer))
       /\ PutBack(r)
       /\ UNCHANGED <<opts, name, previous, jsc>>

(***************************************************************************)
(* jQuery.ajax up to transport.send.  The JSONP prefilter installs a       *)
(* function under a generated name.                                        *)
(***************************************************************************)
(* a bug: the name is not changed for the next one.                        *)
SameName(r, o) ==
  IF o.jsonp
  THEN /\ name' = [name EXCEPT ![r] = jsc]
       /\ previous' = [previous EXCEPT ![r] = window[jsc]]
       /\ window' = [window EXCEPT ![jsc] = r]
       /\ UNCHANGED jsc
  ELSE UNCHANGED <<name, previous, window, jsc>>
JsonpPrefilter(r, o) ==
  IF o.jsonp
  THEN /\ name' = [name EXCEPT ![r] = jsc]
       /\ previous' = [previous EXCEPT ![r] = window[jsc]]
       /\ window' = [window EXCEPT ![jsc] = r]
       /\ jsc' = jsc + 1
  ELSE UNCHANGED <<name, previous, window, jsc>>

Send(r, o) ==
  /\ state[r] = 0
  /\ o.jsonp \/ o.timeout => o.async
  /\ opts' = [opts EXCEPT ![r] = o]
  /\ done' = [done EXCEPT ![r] = List(<<1>>)]
  /\ fail' = [fail EXCEPT ![r] = List(<<1>>)]
  /\ complete' = [complete EXCEPT ![r] = List(<<1>>)]
  /\ count' = [count EXCEPT ![r] = 1]
  /\ JsonpPrefilter(r, o)
  /\ active' = IF FireGlobals(o) THEN active + 1 ELSE active
  /\ timer' = IF o.timeout THEN timer \cup {r} ELSE timer
  /\ state' = [state EXCEPT ![r] = 1]
  /\ UNCHANGED <<ran, data, broken, container>>

(* The answer: a body, a body that does not convert, or an error status.   *)
Answer(r) ==
  /\ state[r] = 1
  /\ \E answer \in IF opts[r].jsonp THEN {"ok"} ELSE {"ok", "parsererror", "error"} :
        Done(r, answer)

(* A script runs before its load event: it calls the function found under  *)
(* the name it was asked for.                                              *)
ScriptRuns(r) ==
  /\ state[r] = 1 /\ opts[r].jsonp
  /\ container[r] = Unset /\ window[name[r]] # Unset
  /\ container' = [container EXCEPT ![window[name[r]]] = r]
  /\ UNCHANGED <<state, opts, lists, data, timer, active, broken, window, name,
                 previous, jsc>>

(* No load event tells that a script could not be fetched.                 *)
NetworkError(r) == state[r] = 1 /\ ~opts[r].jsonp /\ Done(r, "neterror")
Timeout(r)      == r \in timer /\ Done(r, "timeout")
Abort(r)        == state[r] # 0 /\ Done(r, "abort")

(* always on the request object, before or after its end.                  *)
Always(r) ==
  /\ state[r] # 0 /\ count[r] < MaxCallbacks
  /\ LET id == count[r] + 1
     IN  /\ count' = [count EXCEPT ![r] = id]
         /\ done' = [done EXCEPT ![r] = Registered(@, id)]
         /\ fail' = [fail EXCEPT ![r] = Registered(@, id)]
         /\ ran' = [ran EXCEPT ![r] = @ \o Named("done", RunsAtOnce(done[r], id))
                                        \o Named("fail", RunsAtOnce(fail[r], id))]
  /\ UNCHANGED <<state, opts, complete, data, timer, active, broken, jsonp>>

(* A synchronous request is sent, answered and done in one call: no other  *)
(* event comes between.  A failure of its callback is caught around send,  *)
(* where done is called again and returns, the request being done.         *)
InCall == {r \in Request : state[r] = 1 /\ ~opts[r].async}
SyncEnds(r) == r \in InCall /\ (Answer(r) \/ NetworkError(r))

Event(r) ==
  /\ InCall = {}
  /\ \/ \E o \in Options : Send(r, o)
     \/ Answer(r) \/ ScriptRuns(r) \/ NetworkError(r)
     \/ Timeout(r) \/ Abort(r) \/ Always(r)

AjaxNext == \E r \in Request : SyncEnds(r) \/ Event(r)

TimesOut(r) == InCall = {} /\ Timeout(r)

(* The browser ends synchronous calls and runs its timers; answers of the  *)
(* network are not promised.                                               *)
AjaxFairness ==
  \A r \in Request : WF_ajaxVars(SyncEnds(r)) /\ WF_ajaxVars(TimesOut(r))

AjaxSpec == AjaxInit /\ [][AjaxNext]_ajaxVars /\ AjaxFairness

-----------------------------------------------------------------------------
(* Every variable has the values the code gives it.                        *)
Deferred == [callbacks : Seq(1 .. MaxCallbacks), fired : BOOLEAN, cancelled : BOOLEAN]
AjaxTypeOK ==
  /\ state \in [Request -> 0 .. 2]
  /\ opts \in [Request -> Options \cup {Unset}]
  /\ done \in [Request -> Deferred] /\ fail \in [Request -> Deferred]
  /\ complete \in [Request -> Deferred]
  /\ count \in [Request -> 0 .. MaxCallbacks]
  /\ ran \in [Request -> Seq({"done", "fail", "complete"} \X (1 .. MaxCallbacks))]
  /\ data \in [Request -> Request \cup {Unset}]
  /\ timer \subseteq Request /\ broken \subseteq Request
  /\ active \in 0 .. Cardinality(Request)
  /\ window \in [Name -> Request \cup {Unset}] /\ name \in [Request -> Name \cup {Unset}]
  /\ previous \in [Request -> Request \cup {Unset}]
  /\ container \in [Request -> Request \cup {Unset}]
  /\ jsc \in Name

(* Whatever the order of answer, timer, abort and late registrations, a    *)
(* request either succeeds or fails, and its callbacks run once each, in   *)
(* the order they were registered, the complete callback after those of    *)
(* the options.                                                            *)
OneEnd ==
  \A r \in Request : LET calls == ran[r] IN
    \A i, j \in DOMAIN calls :
      /\ calls[i][1] = "done" => calls[j][1] # "fail"
      /\ calls[i][1] = "complete" /\ calls[j][1] = "complete" => i = j
      /\ i < j /\ calls[i][1] = calls[j][1] => calls[i][2] < calls[j][2]
      /\ calls[i][1] # "complete" /\ calls[i][2] > 1 =>
           \E k \in 1 .. i - 1 : calls[k] = <<calls[i][1], calls[i][2] - 1>>

(* jQuery.active counts the requests that have not ended, and for ever     *)
(* those whose end a failing callback cut short: ajaxStop fires when, and  *)
(* only when, nothing is pending, unless a callback failed.                *)
ActiveCounts ==
  active = Cardinality({r \in Request : state[r] = 1 /\ FireGlobals(opts[r])})
           + Cardinality({r \in broken : FireGlobals(opts[r])})

(* A callback registered in time is never forgotten: once a request has    *)
(* ended, nothing waits on its lists unless a callback failed.             *)
NothingWaits ==
  \A r \in Request : state[r] = 2 /\ r \notin broken =>
    done[r].callbacks \o fail[r].callbacks \o complete[r].callbacks = <<>>

(* Scripts that arrive while other JSONP requests are open never deliver   *)
(* one request's response to another.                                      *)
OwnAnswer == \A r \in Request : data[r] \in {r, Unset}

-----------------------------------------------------------------------------
(* The inductive invariant, with which the proofs argue.                   *)

(* The callbacks n + 1, ..., m, in this order.                             *)
Upto(n, m) == [k \in 1 .. m - n |-> n + k]

(* The first n callbacks of one kind ran, each once and in order, and none *)
(* of the other kind.                                                      *)
RanFirst(calls, kind, n) ==
  /\ \A i \in DOMAIN calls :
       calls[i][1] = "complete" \/ (calls[i][1] = kind /\ calls[i][2] \in 1 .. n)
  /\ \A i, j \in DOMAIN calls :
       i < j /\ calls[i][1] = kind /\ calls[j][1] = kind => calls[i][2] < calls[j][2]
  /\ \A i, j \in DOMAIN calls :
       calls[i][1] = "complete" /\ calls[j][1] = "complete" => i = j
  /\ \A k \in 1 .. n : \E i \in DOMAIN calls : calls[i] = <<kind, k>>

(* Of a request that has ended, one list has fired, and what is left on it *)
(* a failing callback left there; the other is cancelled.                  *)
Ended(r, kind, winner, loser) ==
  /\ loser = Cancel(List(<<>>))
  /\ \E n \in 1 .. count[r] :
       /\ winner = Fired(Upto(n, count[r]))
       /\ RanFirst(ran[r], kind, n)
       /\ r \notin broken => n = count[r]
  /\ r \notin broken => complete[r].callbacks = <<>>

(* The lists of a request go with its state.                               *)
Follows(r) ==
  /\ state[r] = 0 => count[r] = 0 /\ ran[r] = <<>>
  /\ state[r] = 1 => /\ count[r] >= 1 /\ ran[r] = <<>>
                     /\ done[r] = List(Upto(0, count[r])) /\ fail[r] = List(Upto(0, count[r]))
                     /\ complete[r] = List(<<1>>)
  /\ state[r] = 2 => Ended(r, "done", done[r], fail[r]) \/ Ended(r, "fail", fail[r], done[r])
  /\ state[r] # 0 => opts[r] \in Options
  /\ r \in timer => state[r] = 1
  /\ r \in broken => state[r] = 2
ListsFollow == \A r \in Request : Follows(r)

(* Every JSONP request has a name of its own, under which nobody else's    *)
(* function is ever found.                                                 *)
Sent == {r \in Request : state[r] # 0 /\ opts[r].jsonp}
NamesOwn ==
  /\ jsc = Cardinality(Sent)
  /\ \A r \in Sent : name[r] \in 0 .. jsc - 1
  /\ \A q, r \in Sent : name[q] = name[r] => q = r
  /\ \A n \in Name : window[n] # Unset => window[n] \in Sent /\ name[window[n]] = n
  /\ \A r \in Request : previous[r] = Unset /\ container[r] \in {r, Unset}

AjaxInv == AjaxTypeOK /\ ListsFollow /\ NamesOwn /\ ActiveCounts /\ OwnAnswer

(* A request with a timeout ends, whatever the network does.               *)
TimeoutEnds == \A r \in Request : r \in timer ~> state[r] = 2
=============================================================================
