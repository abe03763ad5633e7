-------------------------------- MODULE Tabs --------------------------------
(***************************************************************************)
(* The tabs widget (ui.tabs in MyInfusion.js): one tab is selected and its *)
(* panel shown; a tab with a URL loads its panel from the server.  The     *)
(* selection is kept three times, as an index in the options, as a class   *)
(* of the tabs and as the visibility of the panels; with effects, the      *)
(* three change at different times.                                        *)
(*                                                                         *)
(* A call of the widget runs to its end before the next event, so each     *)
(* operation is one action; the operators from widget to widget are the    *)
(* functions it calls.  Rotation, cookies, events for listeners, changes   *)
(* of a tab's URL and changes of the list in the middle of an effect (when *)
(* the selection is read back too early) are not represented.              *)
(***************************************************************************)
EXTENDS Integers, Sequences, FiniteSets, SequencesExt

CONSTANTS
  Tab,       \* tabs
  HasUrl,    \* those whose panel is loaded from the server
  First,     \* the tabs of the page, in order
  NoTab

VARIABLES
  opt,       \* the options collapsible, cache and fx
  tab,       \* the widget, see TypeOK
  current,   \* tabs with aria-selected (and tabindex 0, and a panel not aria-hidden)
  named,     \* tabs that went through _ariaInit
  strayed    \* the last word was one that does not follow the selection

vars == <<opt, tab>>
aria == <<current, named, strayed>>

At(w, i)    == w.list[i + 1]                 \* indices count from 0
IndexIn(w, t) == SelectInSeq(w.list, LAMBDA x : x = t) - 1
Panels(w)   == ToSet(w.list)

(***************************************************************************)
(* The queue "tabs" holds at most one hiding and then one showing.         *)
(***************************************************************************)
Queued(w, f) == [w EXCEPT !.queue = Append(@, f)]
Hiding(w)    == [op |-> "hide", panels |-> w.shown]
Showing(t)   == [op |-> "show", panels |-> {t}]
Still        == [op |-> "none", panels |-> {}]

ShowTab(w, f) ==
  [w EXCEPT !.marked = @ \cup f.panels, !.shown = @ \cup f.panels,
            !.anim = IF opt.fx THEN f ELSE Still]

DequeueShow(w) ==
  IF w.queue = <<>> THEN w
  ELSE ShowTab([w EXCEPT !.queue = Tail(@)], Head(w.queue))

(* The end of hideTab, after its animation if it has one.                  *)
Hidden(w, f) ==
  DequeueShow([w EXCEPT !.marked = {}, !.shown = @ \ f.panels, !.anim = Still])

Dequeue(w) ==
  IF w.queue = <<>> \/ Head(w.queue).op = "show" THEN DequeueShow(w)
  ELSE LET rest == [w EXCEPT !.queue = Tail(@)]
       IN  IF opt.fx THEN [rest EXCEPT !.anim = Head(w.queue)]
           ELSE Hidden(rest, Head(w.queue))

(***************************************************************************)
(* stop(false, true) brings the animations of the panels to their end, in  *)
(* the order of the panels: the showing that the end of a hiding starts is *)
(* ended as well if its panel comes later.                                 *)
(***************************************************************************)
Quiet == tab.anim = Still

Comes(w, f, g) ==
  \E i, j \in DOMAIN w.list : i < j /\ w.list[i] \in f.panels /\ w.list[j] \in g.panels

Stop(w) ==
  IF w.anim = Still THEN w
  ELSE IF w.anim.op = "show" THEN [w EXCEPT !.anim = Still]
  ELSE LET next == Hidden(w, w.anim)
       IN  IF Comes(w, w.anim, next.anim) THEN [next EXCEPT !.anim = Still] ELSE next

Cleanup(w) == [w EXCEPT !.processing = {}]

Abort(w) ==
  LET s == Stop(w)
  IN  Cleanup([s EXCEPT !.xhr = NoTab,
                 !.queue = SubSeq(@, IF Len(@) > 2 THEN Len(@) - 1 ELSE 1, Len(@))])

Load(w, t) ==
  LET a == Abort(w)
  IN  IF t \notin HasUrl \/ (a.queue # <<>> /\ t \in a.cached) THEN Dequeue(a)
      ELSE Dequeue([a EXCEPT !.processing = {t}, !.xhr = t, !.failed = @ \ {t},
                             !.cut = @ \ {t}])

(***************************************************************************)
(* A click, or a call of select.                                           *)
(***************************************************************************)
Refused(w, t) ==
  \/ t \in w.marked /\ ~opt.collapsible
  \/ t \in w.disabledClass
  \/ t \in w.processing
  \/ w.anim # Still

Clicked(w, t) ==
  IF Refused(w, t) THEN w
  ELSE LET hide == Hiding(w)
           a    == Abort([w EXCEPT !.selected = IndexIn(w, t)])
       IN  IF opt.collapsible /\ t \in w.marked
           THEN Dequeue(Queued([a EXCEPT !.selected = -1], hide))
           ELSE Load(Queued(IF hide.panels = {} THEN a ELSE Queued(a, hide), Showing(t)), t)

Click(t) ==
  /\ t \in Panels(tab)
  /\ tab' = Clicked(tab, t)
  /\ UNCHANGED opt

(* load, called by a script for any tab, takes the one request slot.       *)
Reload(t) ==
  /\ t \in Panels(tab)
  /\ tab' = Load([tab EXCEPT !.cut = @ \cup (({tab.xhr} \cap Panels(tab)) \ {t})], t)
  /\ UNCHANGED opt

Success ==
  /\ tab.xhr # NoTab
  /\ LET t == tab.xhr
     IN  tab' = Cleanup([tab EXCEPT !.xhr = NoTab,
                  !.loaded = @ \cup ({t} \cap Panels(tab)),
                  !.cached = IF opt.cache THEN @ \cup ({t} \cap Panels(tab)) ELSE @])
  /\ UNCHANGED opt

Failure ==
  /\ tab.xhr # NoTab
  /\ tab' = Cleanup([tab EXCEPT !.xhr = NoTab, !.failed = @ \cup ({tab.xhr} \cap Panels(tab))])
  /\ UNCHANGED opt

AnimationEnds ==
  /\ tab.anim # Still
  /\ tab' = IF tab.anim.op = "hide" THEN Hidden(tab, tab.anim)
            ELSE [tab EXCEPT !.anim = Still]
  /\ UNCHANGED opt

(***************************************************************************)
(* _tabify after a change of the list reads the selection back from the    *)
(* class of the tabs, and puts the class of disabled tabs where the list   *)
(* of disabled indices says.                                               *)
(***************************************************************************)
Tabify(w) ==
  [w EXCEPT !.selected = SelectInSeq(w.list, LAMBDA x : x \in w.marked) - 1,
            !.disabledClass = {t \in Panels(w) : IndexIn(w, t) \in w.disabled} \ w.marked,
            !.cached = IF opt.cache THEN @ ELSE {}]

Add(t, index) ==
  /\ Quiet /\ t \notin Panels(tab) \cup {tab.xhr}
  /\ index \in 0 .. Len(tab.list)
  /\ LET w == Tabify([tab EXCEPT !.list = InsertAt(@, index + 1, t),
                        !.disabled = {IF n >= index THEN n + 1 ELSE n : n \in @}])
     IN  tab' = IF Len(w.list) > 1 THEN w
                ELSE Load([w EXCEPT !.selected = 0, !.marked = {t}, !.shown = {t}], t)
  /\ UNCHANGED opt

(* The anchors still hold the removed tab while its neighbour is selected. *)
Without(w, t) ==
  [w EXCEPT !.list = Remove(@, t), !.marked = @ \ {t}, !.shown = @ \ {t},
            !.processing = @ \ {t}, !.disabledClass = @ \ {t}, !.cached = @ \ {t},
            !.loaded = @ \ {t}, !.failed = @ \ {t}, !.cut = @ \ {t}]

RemoveTab(index) ==
  /\ Quiet /\ (opt.fx => tab.marked # {At(tab, index)})
  /\ index \in 0 .. Len(tab.list) - 1
  /\ LET t    == At(tab, index)
         last == index + 1 = Len(tab.list)
         w    == IF t \in tab.marked /\ Len(tab.list) > 1
                 THEN Clicked(tab, At(tab, IF last THEN index - 1 ELSE index + 1))
                 ELSE tab
     IN  tab' = Tabify([Without(w, t) EXCEPT
                  !.disabled = {IF n >= index THEN n - 1 ELSE n : n \in @ \ {index}}])
  /\ UNCHANGED opt

Enable(index) ==
  /\ index \in tab.disabled
  /\ tab' = [tab EXCEPT !.disabled = @ \ {index}, !.disabledClass = @ \ {At(tab, index)}]
  /\ UNCHANGED opt

Disable(index) ==
  /\ index \in 0 .. Len(tab.list) - 1
  /\ index # tab.selected
  /\ tab' = [tab EXCEPT !.disabled = @ \cup {index}, !.disabledClass = @ \cup {At(tab, index)}]
  /\ UNCHANGED opt

(* _create: the first tab is selected, shown and loaded.                   *)
Init ==
  /\ opt \in [collapsible : BOOLEAN, cache : BOOLEAN, fx : BOOLEAN]
  /\ tab = Load([list |-> First, selected |-> 0, marked |-> {First[1]},
                 shown |-> {First[1]}, queue |-> <<>>, anim |-> Still,
                 processing |-> {}, xhr |-> NoTab, disabled |-> {}, disabledClass |-> {},
                 cached |-> {}, loaded |-> {}, failed |-> {}, cut |-> {}], First[1])

(***************************************************************************)
(* The accessible tabs of Fluid Infusion (MyInfusion.js): load, add and    *)
(* remove of the tabs widget are replaced by functions that call the       *)
(* originals and say which tab is selected to assistive technology, too;   *)
(* the cursor keys select.  The addresses of jQuery Address, which the     *)
(* file does not contain, and the virtual buffer are not represented.      *)
(***************************************************************************)
(* The last of these is _ariaSet(t, the panel is visible), which a widget  *)
(* that can be collapsed does after each click on a tab.                   *)
AriaSet(set, t, state) == IF state THEN set \cup {t} ELSE set \ {t}
AfterClick(set, w, t) ==
  IF opt.collapsible /\ t \in named THEN AriaSet(set, t, t \in w.shown) ELSE set

Loads(t) == ~Refused(tab, t) /\ ~(opt.collapsible /\ t \in tab.marked)
Delayed  == opt.collapsible /\ opt.fx
Untold(t) == opt.collapsible /\ t \notin named /\ t \in tab.marked

AriaInit ==
  /\ Init
  /\ current = {First[1]} /\ named = ToSet(First) /\ strayed = FALSE

AriaClick(t) ==
  /\ Click(t)
  /\ current' = AfterClick(IF Loads(t) THEN {t} ELSE current, tab', t)
  /\ strayed' = IF Loads(t) THEN Delayed ELSE strayed \/ Delayed \/ Untold(t)
  /\ UNCHANGED named

(* select: an index below the first stands for the selected tab if the     *)
(* widget can be collapsed; one behind the last selects nothing.           *)
Key(index) ==
  LET i == IF index < 0 /\ opt.collapsible THEN tab.selected ELSE index
  IN  i \in 0 .. Len(tab.list) - 1 /\ AriaClick(At(tab, i))

KeyDown ==
  \/ Key(tab.selected + 1) \/ Key(tab.selected - 1)    \* right, left
  \/ Key(0) \/ Key(Len(tab.list) - 1)                  \* home, end

AriaLoad(t) ==
  /\ Reload(t)
  /\ current' = {t}
  /\ strayed' = (t \notin tab'.marked)
  /\ UNCHANGED named

(* An index of 0 is taken for none, which means the last tab.              *)
AriaAdd(t, index) ==
  /\ Add(t, index)
  /\ LET alone == tab.list = <<>>
         told  == IF index > 0 THEN t ELSE Last(tab'.list)
     IN  /\ current' = (IF alone THEN {t} ELSE current) \ {told}
         /\ named' = named \cup {told}
         /\ strayed' = (strayed \/ told \in tab'.marked)

AriaRemove(index) ==
  /\ RemoveTab(index)
  /\ LET t    == At(tab, index)
         next == At(tab, IF index + 1 = Len(tab.list) THEN index - 1 ELSE index + 1)
         goes == t \in tab.marked /\ Len(tab.list) > 1
     IN  IF goes
         THEN /\ current' = AfterClick(IF Loads(next) THEN {next} ELSE current, tab', next) \ {t}
              /\ strayed' = IF Loads(next) THEN Delayed ELSE strayed \/ Delayed
         ELSE /\ current' = current \ {t}
              /\ strayed' = strayed
  /\ named' = named \ {At(tab, index)}

AriaNext ==
  \/ \E t \in Tab : AriaClick(t) \/ AriaLoad(t)
  \/ KeyDown
  \/ (Success \/ Failure \/ AnimationEnds) /\ UNCHANGED aria
  \/ \E t \in Tab : \E i \in 0 .. Len(tab.list) : AriaAdd(t, i)
  \/ \E i \in 0 .. Len(tab.list) - 1 : AriaRemove(i)
  \/ \E i \in 0 .. Len(tab.list) - 1 : (Enable(i) \/ Disable(i)) /\ UNCHANGED aria

AriaSpec == AriaInit /\ [][AriaNext]_<<vars, aria>>

-----------------------------------------------------------------------------
(* The widget's fields, and of what assistive technology is told.          *)
Function == [op : {"hide", "show", "none"}, panels : SUBSET Tab]
TypeOK ==
  /\ opt \in [collapsible : BOOLEAN, cache : BOOLEAN, fx : BOOLEAN]
  /\ Panels(tab) \subseteq Tab /\ Len(tab.list) = Cardinality(Panels(tab))
  /\ tab.selected \in -1 .. Len(tab.list) - 1
  /\ tab.marked \subseteq Panels(tab) /\ tab.shown \subseteq Panels(tab)
  /\ \A i \in DOMAIN tab.queue : tab.queue[i] \in Function
  /\ tab.anim \in Function
  /\ tab.xhr \in Tab \cup {NoTab}
  /\ tab.disabled \subseteq 0 .. Len(tab.list) - 1
  /\ UNION {tab.processing, tab.disabledClass, tab.cached, tab.loaded, tab.failed,
            tab.cut} \subseteq Panels(tab)
  /\ current \subseteq Panels(tab) /\ named \subseteq Panels(tab)
  /\ strayed \in BOOLEAN

(* Once nothing moves, the index, the class and the visible panel name the *)
(* same tab, whatever was clicked, added or removed.                       *)
SelectionAgrees ==
  Quiet =>
    /\ tab.queue = <<>>
    /\ tab.shown = tab.marked
    /\ tab.marked = IF tab.selected = -1 THEN {} ELSE {At(tab, tab.selected)}

(* A tab says that it is loading as long as its request is on the way, and *)
(* not longer: no sequence of clicks, aborts and answers leaves the mark,  *)
(* which would make the tab refuse clicks for ever.                        *)
ProcessingEnds == tab.processing = {tab.xhr} \cap Panels(tab)

(* A visible panel with a URL has its contents, waits for them or failed   *)
(* to get them: an aborted request is made again when its tab comes back.  *)
(* Only a script that loads another tab meanwhile takes the request away.  *)
ShownIsLoaded ==
  Quiet => \A t \in tab.shown \cap HasUrl :
             t \in tab.loaded \cup tab.failed \cup tab.cut \cup {tab.xhr}

(* Adding and removing tabs shifts the disabled indices with their tabs.   *)
DisabledAgrees == tab.disabledClass = {At(tab, i) : i \in tab.disabled}

(* Assistive technology is told of the tab that is selected, after any     *)
(* clicks, keys, additions and removals, but for the words listed in       *)
(* strayed: a script loads a tab that is not selected, a tab is added to   *)
(* an empty list or at index 0 while the last tab is selected, a tab that  *)
(* was never named collapses, or collapsing tabs have effects.             *)
AriaFollows == (Quiet /\ ~strayed) => current = tab.marked
=============================================================================
