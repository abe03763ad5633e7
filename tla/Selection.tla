----------------------------- MODULE Selection ------------------------------
(***************************************************************************)
(* fluid.selectable (MyInfusion.js): a container that is one stop for the  *)
(* Tab key and whose items are reached with the arrow keys.  The context   *)
(* remembers the active item by its place in the list; refresh reads the   *)
(* list again, whatever has happened to it, and items that left it keep    *)
(* their handlers.                                                         *)
(*                                                                         *)
(* Giving the focus to an element runs its handlers, then takes the focus  *)
(* from the element that had it, whose handlers run as well.               *)
(***************************************************************************)
EXTENDS Integers, Sequences, SequencesExt

CONSTANTS
  Item,            \* elements of the container
  RememberSelectionState,
  Container, Elsewhere,
  MaxItems         \* bound: items at a time

ASSUME SelectionAssumption ==
  Container \notin Item /\ Elsewhere \notin Item \cup {Container} /\ MaxItems \in Nat

VARIABLES
  selectables,     \* the items of the context, in order
  activeItemIndex, \* from 0; NO_SELECTION before the first selection
  leaving,         \* focusIsLeavingContainer
  focused,         \* an item, the container, or something else on the page
  drawn,           \* items that onSelect drew and onUnselect has not erased
  tabStops,        \* items with tabindex 0
  known            \* items that ever were selectable: they have the handlers

selectionVars == <<selectables, activeItemIndex, leaving, focused, drawn, tabStops, known>>

NO_SELECTION == -32768
Lists == {s \in UNION {[1 .. n -> Item] : n \in 0 .. MaxItems} : IsInjective(s)}

(* The state that the handlers pass on: the index, what is drawn, which    *)
(* items are tab stops and where the focus is.                             *)
Now == [index |-> activeItemIndex, drawn |-> drawn, stops |-> tabStops, focused |-> focused]

SelectedElement(list, index) ==
  IF index \in 0 .. Len(list) - 1 THEN {list[index + 1]} ELSE {}

UnselectElement(s, items) == [s EXCEPT !.drawn = @ \ items]

SelectElement(list, s, item) ==
  LET erased == UnselectElement(s, SelectedElement(list, s.index))
      place  == SelectInSeq(list, LAMBDA i : i = item)
  IN  IF place = 0 THEN erased
      ELSE [erased EXCEPT !.index = place - 1, !.drawn = @ \cup {item}]

FocusHandler(list, s, item) ==
  SelectElement(list, [s EXCEPT !.stops = @ \cup {item}], item)
BlurHandler(s, item) ==
  UnselectElement([s EXCEPT !.stops = @ \ {item}], {item})

(* The browser moves the focus: the handlers of the new element, then      *)
(* those of the old one.  Only items with handlers have a tabindex.        *)
FocusItem(list, s, item) ==
  LET after == FocusHandler(list, s, item)
      lost  == IF s.focused \in known \ {item} THEN BlurHandler(after, s.focused) ELSE after
  IN  [lost EXCEPT !.focused = item]
LeaveItem(s, to) ==
  LET lost == IF s.focused \in known THEN BlurHandler(s, s.focused) ELSE s
  IN  [lost EXCEPT !.focused = to]

ReifyIndex(list, s) ==
  LET n == Len(list)
      i == IF s.index >= n THEN 0
           ELSE IF s.index < 0 /\ s.index # NO_SELECTION THEN n - 1
           ELSE s.index
      t == [s EXCEPT !.index = i]
  IN  IF i \in 0 .. n - 1 THEN FocusItem(list, t, list[i + 1]) ELSE t

(* fluid.blur on the active item runs its handlers even when it has no     *)
(* focus to lose.                                                          *)
PrepareShift(s) ==
  LET active == SelectedElement(selectables, s.index)
      gone   == [s EXCEPT !.stops = @ \ active, !.drawn = @ \ active,
                   !.focused = IF @ \in active THEN Elsewhere ELSE @]
  IN  [gone EXCEPT !.index = IF @ = NO_SELECTION THEN -1 ELSE @]

Becomes(s) ==
  /\ activeItemIndex' = s.index /\ drawn' = s.drawn
  /\ tabStops' = s.stops /\ focused' = s.focused

SelectionInit ==
  /\ selectables \in Lists
  /\ activeItemIndex = NO_SELECTION
  /\ leaving = FALSE
  /\ focused = Elsewhere
  /\ drawn = {} /\ tabStops = {}
  /\ known = ToSet(selectables)

(***************************************************************************)
(* The events.                                                             *)
(***************************************************************************)
Inside == focused # Elsewhere

ArrowKey(step) ==
  /\ Inside
  /\ LET s == PrepareShift(Now)
     IN  Becomes(ReifyIndex(selectables, [s EXCEPT !.index = @ + step]))
  /\ leaving' = IF focused = Container /\ focused' # Container THEN FALSE ELSE leaving
  /\ UNCHANGED <<selectables, known>>

(* cleanUpWhenLeavingContainer, then the browser's move: Shift+Tab goes    *)
(* from an item to the container, any other Tab leaves.                    *)
CleanedUp(s) ==
  LET erased == UnselectElement(s, SelectedElement(selectables, s.index))
  IN  IF RememberSelectionState THEN erased ELSE [erased EXCEPT !.index = NO_SELECTION]

TabKey(shift) ==
  /\ Inside
  /\ LET back == shift /\ focused # Container
     IN  /\ Becomes(LeaveItem(CleanedUp(Now), IF back THEN Container ELSE Elsewhere))
         /\ leaving' = back
  /\ UNCHANGED <<selectables, known>>

(* The container gets the focus, by Tab or by a click.                     *)
EnterContainer ==
  /\ focused # Container
  /\ LET at == IF activeItemIndex = NO_SELECTION THEN 0 ELSE activeItemIndex
         s  == [LeaveItem(Now, Container) EXCEPT !.index = at]
         to == SelectedElement(selectables, at)
     IN  Becomes(IF to = {} THEN s
                 ELSE FocusItem(selectables, s, CHOOSE i \in to : TRUE))
  /\ leaving' = FALSE
  /\ UNCHANGED <<selectables, known>>

(* An item gets the focus by a click or from a script; or the focus goes   *)
(* elsewhere without a Tab key.                                            *)
FocusOn(i) ==
  /\ i \in known \ {focused}
  /\ Becomes(FocusItem(selectables, Now, i))
  /\ leaving' = FALSE
  /\ UNCHANGED <<selectables, known>>

LeaveContainer ==
  /\ Inside
  /\ Becomes(LeaveItem(Now, Elsewhere))
  /\ leaving' = FALSE
  /\ UNCHANGED <<selectables, known>>

(* The list is read again; selectablesUpdated rebinds its items and, as no *)
(* focused item is named, gives the focus to the item at the active index. *)
Reread(list) ==
  /\ list # selectables
  /\ selectables' = list
  /\ known' = known \cup ToSet(list)
  /\ Becomes(ReifyIndex(list, [Now EXCEPT !.stops = @ \ ToSet(list)]))
  /\ leaving' = IF focused = Container /\ focused' # Container THEN FALSE ELSE leaving

SelectionNext ==
  \/ \E step \in {-1, 1} : ArrowKey(step)
  \/ \E shift \in BOOLEAN : TabKey(shift)
  \/ EnterContainer \/ LeaveContainer
  \/ \E i \in Item : FocusOn(i)
  \/ \E list \in Lists : Reread(list)

SelectionSpec == SelectionInit /\ [][SelectionNext]_selectionVars

-----------------------------------------------------------------------------
SelectionTypeOK ==
  /\ selectables \in Lists /\ activeItemIndex \in Int /\ leaving \in BOOLEAN
  /\ known \subseteq Item /\ ToSet(selectables) \subseteq known
  /\ drawn \subseteq known /\ tabStops \subseteq known
  /\ focused \in known \cup {Container, Elsewhere}

(* At most one item is drawn as selected, the one with the focus, and it   *)
(* is the active one; an item that is not selected is no stop for Tab, so  *)
(* that the container stays a single stop; and the context knows that the  *)
(* focus is leaving only while the container has it, or a later Tab into   *)
(* the container would select nothing.                                     *)
SelectionHolds ==
  /\ drawn \subseteq {focused} /\ tabStops \subseteq {focused}
  /\ focused \in ToSet(selectables) /\ activeItemIndex # NO_SELECTION =>
       /\ drawn = {focused}
       /\ SelectedElement(selectables, activeItemIndex) = {focused}
  /\ leaving => focused = Container

SelectionInv == SelectionTypeOK /\ SelectionHolds
=============================================================================
