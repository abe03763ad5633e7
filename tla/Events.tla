------------------------------- MODULE Events -------------------------------
(***************************************************************************)
(* jQuery's events and the data cache under them (MyInfusion.js): handlers *)
(* bound, bound once, unbound and delegated while an event bubbles from    *)
(* its target to the document.                                             *)
(*                                                                         *)
(* The elements lie on one path, and the events are of one type.  Code     *)
(* that binds or unbinds may run between any two handlers of an event, as  *)
(* a part of the earlier one.  An event that a handler triggers itself,    *)
(* nested in another, and the emulation of bubbling in old browsers are    *)
(* not represented.                                                        *)
(*                                                                         *)
(* A list of bindings is in the order they were made, since add appends    *)
(* and remove keeps the order: the set of its numbered bindings stands for *)
(* it.                                                                     *)
(***************************************************************************)
EXTENDS Naturals, Sequences

CONSTANTS
  Depth,        \* the levels are 1 .. Depth, from the target to the document
  Fn,           \* functions: all bindings of one have its guid
  Namespace,    \* namespaces, beside none
  NoNamespace,
  MaxBindings   \* bound: bindings made

ASSUME DepthAssumption    == Depth \in Nat \ {0}
ASSUME BindingsAssumption == MaxBindings \in Nat

VARIABLES
  handlers,   \* the list events[type] of the element at each level
  live,       \* the list events.live of each element
  listening,  \* elements with a native listener
  userData,   \* elements with data of the page
  cache,      \* elements with an entry in jQuery.cache
  dispatch,   \* the event under way
  ran,        \* history: the bindings that ran for it, in order
  before,     \* history: the bindings on the path when it began
  ids         \* bindings made so far, which number them

bound == <<handlers, live, listening, userData, cache>>
eventVars == <<bound, dispatch, ran, before, ids>>

Level      == 1 .. Depth
NoDispatch == [at |-> 0, snap |-> {}, liveQ |-> {}, maxLevel |-> 0, liveFired |-> 0,
               stopped |-> FALSE]

EventsInit ==
  /\ handlers = [e \in Level |-> {}] /\ live = [e \in Level |-> {}]
  /\ listening = {} /\ userData = {} /\ cache = {}
  /\ dispatch = NoDispatch /\ ran = <<>> /\ before = {} /\ ids = 0

(***************************************************************************)
(* event.add: the first handler makes the cache entry and the listener.    *)
(***************************************************************************)
AddTo(e, binding) ==
  /\ handlers' = [handlers EXCEPT ![e] = @ \cup {binding}]
  /\ listening' = listening \cup {e}
  /\ cache' = cache \cup {e}

Bind(e, fn, ns, once) ==
  /\ ids < MaxBindings /\ ids' = ids + 1
  /\ AddTo(e, [id |-> ids', fn |-> fn, ns |-> ns, once |-> once, proxy |-> FALSE])
  /\ UNCHANGED <<live, userData, dispatch, ran, before>>

(* live: an entry in the list live, whose special.add binds liveHandler    *)
(* under the guid of the function and the selector as a namespace.         *)
Live(e, sel, fn) ==
  /\ ids < MaxBindings /\ ids' = ids + 1
  /\ sel < e
  /\ live' = [live EXCEPT ![e] = @ \cup {[id |-> ids', fn |-> fn, sel |-> sel]}]
  /\ AddTo(e, [id |-> ids', fn |-> fn, ns |-> sel, once |-> FALSE, proxy |-> TRUE])
  /\ UNCHANGED <<userData, dispatch, ran, before>>

(***************************************************************************)
(* event.remove: by function or by namespace.  A function is found by its  *)
(* guid, so the handler that delegates to it goes too, and its entry in    *)
(* the list live stays behind.  The last handler takes the listener along, *)
(* and the cache entry if nothing else is kept there.                      *)
(***************************************************************************)
(* a bug: the listener stays with nothing to call.                         *)
StillListening(e, rest) == listening
Listening(e, rest) == IF rest = {} THEN listening \ {e} ELSE listening

RemoveFrom(e, gone) ==
  LET rest == handlers[e] \ gone
  IN  /\ handlers' = [handlers EXCEPT ![e] = rest]
      /\ listening' = Listening(e, rest)
      /\ cache' = IF rest = {} /\ live'[e] = {} /\ e \notin userData
                  THEN cache \ {e} ELSE cache

Unbind(e, fns, namespaces) ==
  /\ handlers[e] # {}
  /\ UNCHANGED <<live, userData, dispatch, ran, before, ids>>
  /\ RemoveFrom(e, {b \in handlers[e] : b.fn \in fns /\ b.ns \in namespaces})

Die(e, sel, fn) ==
  /\ live[e] # {}
  /\ live' = [live EXCEPT ![e] = {l \in @ : l.sel # sel \/ l.fn # fn}]
  /\ RemoveFrom(e, {b \in handlers[e] : b.proxy /\ b.ns = sel /\ b.fn = fn})
  /\ UNCHANGED <<userData, dispatch, ran, before, ids>>

(* cleanData, when an element is removed from the document.                *)
CleanData(e) ==
  /\ handlers' = [handlers EXCEPT ![e] = {}] /\ live' = [live EXCEPT ![e] = {}]
  /\ listening' = listening \ {e} /\ userData' = userData \ {e} /\ cache' = cache \ {e}
  /\ UNCHANGED <<dispatch, ran, before, ids>>

Data(e) ==
  /\ userData' = userData \cup {e} /\ cache' = cache \cup {e}
  /\ UNCHANGED <<handlers, live, listening, dispatch, ran, before, ids>>

RemoveData(e) ==
  /\ e \in userData
  /\ userData' = userData \ {e}
  /\ cache' = IF handlers[e] = {} /\ live[e] = {} THEN cache \ {e} ELSE cache
  /\ UNCHANGED <<handlers, live, listening, dispatch, ran, before, ids>>

(***************************************************************************)
(* An event.  handle runs over a copy of the list of each element on the   *)
(* way up.                                                                 *)
(***************************************************************************)
Ids(list) == {b.id : b \in list}
AllIds == UNION {Ids(handlers[e]) : e \in Level}
Earliest(list) == CHOOSE b \in list : \A c \in list : b.id <= c.id

Arrive(e, d) == [d EXCEPT !.at = e, !.snap = IF e \in listening THEN handlers[e] ELSE {}]

Fire ==
  /\ dispatch = NoDispatch
  /\ dispatch' = Arrive(1, NoDispatch)
  /\ ran' = <<>> /\ before' = AllIds
  /\ UNCHANGED <<bound, ids>>

(* A handler returns nothing, returns FALSE, or stops the event at once.   *)
Outcome == {"none", "false", "immediate"}

Running == dispatch.liveQ = {} /\ dispatch.snap # {}
Current == Earliest(dispatch.snap)

RunHandler(outcome) ==
  /\ Running /\ ~Current.proxy
  /\ ran' = Append(ran, Current.id)
  /\ dispatch' = [dispatch EXCEPT
                    !.snap = IF outcome = "immediate" THEN {} ELSE @ \ {Current},
                    !.stopped = @ \/ outcome # "none"]
  /\ UNCHANGED <<live, userData, before, ids>>
  /\ IF Current.once       \* unbinds every binding of its function
     THEN RemoveFrom(dispatch.at, {b \in handlers[dispatch.at] : b.fn = Current.fn})
     ELSE UNCHANGED <<handlers, listening, cache>>

(* liveHandler: the entries whose selector matches an element below, the   *)
(* closest first; once for an event.                                       *)
Matches(e)    == {l \in live[e] : l.sel < e}
Nearest(list) == Earliest({l \in list : \A k \in list : l.sel <= k.sel})

LiveHandler ==
  /\ Running /\ Current.proxy
  /\ dispatch' = IF dispatch.liveFired = dispatch.at \/ live[dispatch.at] = {}
                 THEN [dispatch EXCEPT !.snap = @ \ {Current}]
                 ELSE [dispatch EXCEPT !.snap = @ \ {Current}, !.liveFired = dispatch.at,
                         !.liveQ = Matches(dispatch.at), !.maxLevel = 0]
  /\ UNCHANGED <<bound, ran, before, ids>>

(* A function that stops the event lets those of the same element run.     *)
RunLive(outcome) ==
  /\ dispatch.liveQ # {}
  /\ LET l       == Nearest(dispatch.liveQ)
         stopped == dispatch.stopped \/ outcome # "none"
     IN  IF dispatch.maxLevel > 0 /\ l.sel > dispatch.maxLevel
         THEN /\ outcome = "none"
              /\ dispatch' = [dispatch EXCEPT !.liveQ = {}]
              /\ UNCHANGED ran
         ELSE /\ ran' = Append(ran, l.id)
              /\ dispatch' = [dispatch EXCEPT
                    !.liveQ = IF outcome = "immediate" THEN {} ELSE @ \ {l},
                    !.snap = IF outcome = "immediate" THEN {} ELSE @,
                    !.maxLevel = IF stopped THEN l.sel ELSE @,
                    !.stopped = stopped]
  /\ UNCHANGED <<bound, before, ids>>

BubbleUp ==
  /\ dispatch # NoDispatch /\ dispatch.liveQ = {} /\ dispatch.snap = {}
  /\ dispatch' = IF dispatch.stopped \/ dispatch.at = Depth THEN NoDispatch
                 ELSE Arrive(dispatch.at + 1, dispatch)
  /\ UNCHANGED <<bound, ran, before, ids>>

EventsNext ==
  \/ \E e \in Level, fn \in Fn :
       \/ \E ns \in Namespace \cup {NoNamespace}, once \in BOOLEAN : Bind(e, fn, ns, once)
       \/ \E sel \in Level : Live(e, sel, fn) \/ Die(e, sel, fn)
       \/ Unbind(e, {fn}, Namespace \cup {NoNamespace} \cup Level)
  \/ \E e \in Level, ns \in Namespace : Unbind(e, Fn, {ns})
  \/ \E e \in Level : CleanData(e) \/ Data(e) \/ RemoveData(e)
  \/ Fire \/ LiveHandler \/ BubbleUp
  \/ \E o \in Outcome : RunHandler(o) \/ RunLive(o)

EventsSpec == EventsInit /\ [][EventsNext]_eventVars

-----------------------------------------------------------------------------
Number  == 1 .. MaxBindings
Binding == [id : Number, fn : Fn, ns : Namespace \cup {NoNamespace} \cup Level,
            once : BOOLEAN, proxy : BOOLEAN]
Entry   == [id : Number, fn : Fn, sel : Level]

EventsTypeOK ==
  /\ handlers \in [Level -> SUBSET Binding] /\ live \in [Level -> SUBSET Entry]
  /\ listening \subseteq Level /\ userData \subseteq Level /\ cache \subseteq Level
  /\ dispatch \in [at : 0 .. Depth, snap : SUBSET Binding, liveQ : SUBSET Entry,
                   maxLevel : 0 .. Depth, liveFired : 0 .. Depth, stopped : BOOLEAN]
  /\ ran \in Seq(1 .. ids) /\ before \subseteq 1 .. ids /\ ids \in 0 .. MaxBindings

(* No sequence of binding, unbinding, cleaning and dispatching leaves a    *)
(* listener without a handler, a handler without a listener, a handler     *)
(* that delegates to nothing, or an entry of the cache that nothing needs. *)
Proxies(e) == {b \in handlers[e] : b.proxy}
NothingLeaks ==
  /\ listening = {e \in Level : handlers[e] # {}}
  /\ cache = listening \cup userData \cup {e \in Level : live[e] # {}}
  /\ \A e \in Level : Ids(Proxies(e)) \subseteq Ids(live[e])

(* A binding runs at most once for an event, though several handlers may   *)
(* lead to it; an event that nobody stops reaches every binding that was   *)
(* there when it began and is there when it ends, and none that came later *)
(* to an element it had passed.                                            *)
Sent(d) == d.snap = {} /\ d.liveQ = {} /\ d.at = Depth /\ ~d.stopped
EachOnce ==
  /\ \A i, j \in DOMAIN ran : ran[i] = ran[j] => i = j
  /\ Sent(dispatch) => before \cap AllIds \subseteq {ran[i] : i \in DOMAIN ran}

EventsHold == NothingLeaks /\ EachOnce

(***************************************************************************)
(* What makes these inductive.  The bindings and entries that an element   *)
(* has, or that the event holds of it:                                     *)
(***************************************************************************)
Handlers(e) == handlers[e] \cup (IF e = dispatch.at THEN dispatch.snap ELSE {})
Entries(e)  == live[e] \cup (IF e = dispatch.at THEN dispatch.liveQ ELSE {})

(* A number belongs to one binding, or to one entry with its proxy.        *)
Numbered ==
  \A e, f \in Level :
    /\ \A b \in Handlers(e) : b.id <= ids
    /\ \A l \in Entries(e) : l.id <= ids
    /\ \A b \in Handlers(e), c \in Handlers(f) : b.id = c.id => e = f /\ b = c
    /\ \A l \in Entries(e), k \in Entries(f) : l.id = k.id => e = f /\ l = k
    /\ \A b \in Handlers(e), l \in Entries(f) :
         b.id = l.id => e = f /\ b.proxy /\ b.fn = l.fn /\ b.ns = l.sel

(* Who delegates lies above whom it delegates for.                         *)
DelegatesDown == \A e \in Level : \A l \in live[e] : l.sel < e

(* Where the event is: delegation is done once at a level, and only a      *)
(* function that stops the event sets the level to stop at.                *)
DispatchOK ==
  /\ dispatch.at = 0 => dispatch = NoDispatch
  /\ dispatch.liveFired <= dispatch.at
  /\ dispatch.liveQ # {} => dispatch.liveFired = dispatch.at
  /\ dispatch.maxLevel > 0 => dispatch.stopped

(* What may still run for the event has not run.                           *)
HasRun(id) == \E i \in DOMAIN ran : ran[i] = id
AheadIsNew ==
  dispatch.at > 0 =>
    /\ \A b \in dispatch.snap : ~b.proxy => ~HasRun(b.id)
    /\ \A l \in dispatch.liveQ : ~HasRun(l.id)
    /\ \A e \in Level : e > dispatch.at => \A b \in handlers[e] : ~HasRun(b.id)
    /\ \A e \in Level : e > dispatch.at \/ (e = dispatch.at /\ dispatch.liveFired < e)
         => \A l \in live[e] : ~HasRun(l.id)

(* What was there at the beginning, is there and was passed, has run or is *)
(* about to, unless the event was stopped.                                 *)
AboutToRun(b) ==
  \/ b \in dispatch.snap /\ (b.proxy => dispatch.liveFired < dispatch.at)
  \/ \E l \in dispatch.liveQ : l.id = b.id
NoneIsPassed ==
  ~dispatch.stopped =>
    \A e \in 1 .. dispatch.at : \A b \in handlers[e] :
      b.id \in before => HasRun(b.id) \/ (e = dispatch.at /\ AboutToRun(b))

EventsInv ==
  /\ EventsTypeOK /\ EventsHold
  /\ Numbered /\ DelegatesDown /\ DispatchOK /\ AheadIsNew /\ NoneIsPassed
=============================================================================
