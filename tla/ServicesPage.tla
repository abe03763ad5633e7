---------------------------- MODULE ServicesPage ----------------------------
(***************************************************************************)
(* The script of the services management page: an administrator reorders   *)
(* the table of registered services with the mouse or the keyboard, and    *)
(* every move asks the server, with a synchronous request, to save a new   *)
(* evaluation order before the row may move.  The module follows           *)
(* services.js and cas.js through the code they run in MyInfusion.js: the  *)
(* reorderer, its drop manager, the draggable rows, the selection context  *)
(* and the synchronous path of jQuery.ajax.                                *)
(*                                                                         *)
(* No key is pressed while a row hangs on the mouse; whitespace between    *)
(* the rows is not represented.                                            *)
(***************************************************************************)
EXTENDS Integers, Sequences, SequencesExt

CONSTANTS
  Service,      \* ids of the registered services; their names sort like them
  InitialOrders, \* the evaluation orders the services may start with
  MaxChanges,   \* bound: requests to move and changes by others in a run
  MaxOrder,     \* bound: evaluation orders stay in -MaxOrder .. MaxOrder
  Deleted,       \* the order of a service that another administrator deleted
  Really,       \* the question in the cells of a row about to be deleted
  NoRow

ASSUME ServiceAssumption == Service \subseteq Nat
ASSUME OrderAssumption   == MaxOrder \in Nat
ASSUME ChangesAssumption == MaxChanges \in Nat
ASSUME InitialAssumption == InitialOrders \subseteq [Service -> -MaxOrder .. MaxOrder]
ASSUME MarkAssumption    == Deleted \notin Int /\ NoRow \notin Int /\ Really \notin Int

VARIABLES
  server,     \* the evaluation order of each service in the services manager
  rows,       \* the rows of the table, in document order
  cell,       \* the order shown in column td8 of a row
  active,     \* reorderer.activeItem
  focus,      \* the row with the keyboard focus
  grabbed,    \* the row that carries the style of a keyboard drag
  drag,       \* the row on the mouse and the last drop target under it
  lastClosest,
  stuck,      \* rows whose draggable still holds a helper
  unbound,    \* rows whose blur handler requestMovement has removed
  selIndex,   \* activeItemIndex of the selection context, 0 for none
  errors,     \* the error box is shown
  currentRow, editInnerHTML, buttons,   \* the confirmation of a deletion
  unsure,     \* rows that need not agree with the server (see Agree)
  changes     \* the requests and changes so far, for the bound

mouse == <<drag, lastClosest>>
confirm == <<currentRow, editInnerHTML, buttons>>
tableVars == <<server, rows, cell, active, focus, grabbed, mouse, stuck,
               unbound, selIndex, errors, confirm, unsure, changes>>

Orders == -MaxOrder .. MaxOrder
BEFORE == "before"
AFTER  == "after"
Listed == ToSet(rows)

(***************************************************************************)
(* The list of the page: services by evaluation order, then by name.       *)
(***************************************************************************)
ServiceList(orders) ==
  SetToSortSeq({s \in Service : orders[s] # Deleted},
    LAMBDA s, t : orders[s] < orders[t] \/ (orders[s] = orders[t] /\ s < t))

TableInit ==
  /\ server \in InitialOrders
  /\ rows = ServiceList(server) /\ cell = server
  /\ active = NoRow /\ focus = NoRow /\ grabbed = NoRow
  /\ drag = NoRow /\ lastClosest = NoRow
  /\ stuck = {} /\ unbound = {}
  /\ selIndex = 0
  /\ errors = FALSE
  /\ currentRow = NoRow /\ editInnerHTML = NoRow
  /\ buttons = [s \in Service |-> s]
  /\ unsure = {}
  /\ changes = 0

(* The page is loaded again and its script starts anew.                    *)
Load(orders) ==
  /\ rows' = ServiceList(orders) /\ cell' = orders
  /\ active' = NoRow /\ focus' = NoRow /\ grabbed' = NoRow
  /\ drag' = NoRow /\ lastClosest' = NoRow
  /\ stuck' = {} /\ unbound' = {}
  /\ selIndex' = 0
  /\ errors' = FALSE
  /\ currentRow' = NoRow /\ editInnerHTML' = NoRow
  /\ buttons' = [s \in Service |-> s]
  /\ unsure' = {}
  /\ UNCHANGED changes

(***************************************************************************)
(* Moving elements in the document.                                        *)
(***************************************************************************)
MoveDom(list, source, target, position) ==
  IF source = target THEN list
  ELSE LET rest == Remove(list, source)
           at   == SelectInSeq(rest, LAMBDA r : r = target)
       IN  InsertAt(rest, IF position = BEFORE THEN at ELSE at + 1, source)

IndexOf(list, r) == SelectInSeq(list, LAMBDA x : x = r)

(* permuteDom within one list: the element moves to its target, then the   *)
(* loops put every element between the two places next to its neighbour.   *)
(* The two moves that follow the loops bring the neighbours of the old     *)
(* place next to the text that surrounded it, which moves no row.          *)
PermuteDom(list, element, target, position) ==
  LET source == IndexOf(list, element)
      goal   == IndexOf(list, target)
      moved  == MoveDom(list, element, target, position)
      front  == IF position = BEFORE THEN goal - 2 ELSE goal - 1
      back   == IF position = AFTER THEN goal + 1 ELSE goal
      Follow(l, i) == MoveDom(l, list[i + 1], list[i], AFTER)
      Lead(l, i)   == MoveDom(l, list[i], list[i + 1], BEFORE)
      Down(hi, lo) == [k \in 1 .. hi - lo + 1 |-> hi - k + 1]
      Up(lo, hi)   == [k \in 1 .. hi - lo + 1 |-> lo + k - 1]
  IN  IF goal > source
      THEN FoldLeft(Follow, moved, Down(front, source + 1))
      ELSE FoldLeft(Lead, moved, Up(back, source - 2))

(***************************************************************************)
(* Selection.  Focus reaches a row by a click, by Tab into the table or    *)
(* from the script; the previous item loses the styles of selection and of *)
(* a keyboard drag, on its blur or when the new one is selected.           *)
(***************************************************************************)
SelectItem(r, keepsGrab) ==
  /\ active' = r
  /\ focus' = r
  /\ selIndex' = IndexOf(rows, r)
  /\ grabbed' = IF keepsGrab /\ active = r THEN grabbed ELSE NoRow

Idle == drag = NoRow

FocusRow(r) ==
  /\ Idle
  /\ r \in Listed
  /\ SelectItem(r, TRUE)
  /\ UNCHANGED <<server, rows, cell, mouse, stuck, unbound, errors, confirm,
                 unsure, changes>>

FocusContainer ==
  /\ Idle
  /\ rows # <<>>
  /\ focus = NoRow
  /\ SelectItem(rows[IF selIndex = 0 THEN 1 ELSE selIndex], TRUE)
  /\ UNCHANGED <<server, rows, cell, mouse, stuck, unbound, errors, confirm,
                 unsure, changes>>

Leave ==
  /\ Idle
  /\ focus # NoRow
  /\ focus' = NoRow
  /\ grabbed' = IF focus \in unbound THEN grabbed ELSE NoRow
  /\ UNCHANGED <<server, rows, cell, active, mouse, stuck, unbound, selIndex,
                 errors, confirm, unsure, changes>>

(***************************************************************************)
(* A request to move: the onMove listener asks the server, and the row     *)
(* moves when the listener has not returned FALSE.  The answers are        *)
(*   saved    the server saved the order and said so                       *)
(*   login    the session was over: the login page came back as a success  *)
(*   refused  the service is gone: an error status                         *)
(*   cut      the connection failed before the server saw the request      *)
(*   lost     the connection failed after the server saved                 *)
(* An error callback shows the box and then fails on an undefined name.    *)
(* jQuery.ajax swallows that failure after an error status, because the    *)
(* request counts as completed; after a failed connection it escapes.      *)
(***************************************************************************)
Answers(item) ==
  IF server[item] = Deleted THEN {"refused", "login", "cut"}
  ELSE {"saved", "login", "cut", "lost"}

(* a bug: a connection that failed counts as an answer.                    *)
SuccessUnlessRefused(answer) == answer # "refused"
Success(answer) == answer \in {"saved", "login"}
Throws(answer)  == answer \in {"cut", "lost"}

(* a bug: before and after are confused.                                   *)
NewOrderSwapped(at) == cell[at.element] + (IF at.position = BEFORE THEN 1 ELSE -1)
NewOrder(at) == cell[at.element] + (IF at.position = BEFORE THEN -1 ELSE 1)

UpdateRegisteredServiceOrder(item, at, answer) ==
  /\ NewOrder(at) \in Orders /\ changes < MaxChanges
  /\ changes' = changes + 1
  /\ server' = [server EXCEPT ![item] =
                  IF answer \in {"saved", "lost"} THEN NewOrder(at) ELSE @]
  /\ cell' = [cell EXCEPT ![item] = IF Success(answer) THEN NewOrder(at) ELSE @]
  /\ errors' = ~Success(answer)
  /\ unsure' = CASE answer = "saved" -> unsure \ {item}
                 [] answer \in {"login", "lost"} -> unsure \cup {item}
                 [] OTHER -> unsure

NoRequest ==
  /\ errors' = FALSE
  /\ UNCHANGED <<server, rows, cell, focus, selIndex, unbound, unsure, changes>>

(* After a move the active item has the focus and the selection context    *)
(* holds the rows in their new order.                                      *)
RequestMovement(item, at, answer) ==
  /\ UpdateRegisteredServiceOrder(item, at, answer)
  /\ unbound' = unbound \cup {active}
  /\ IF Success(answer)
     THEN /\ rows' = PermuteDom(rows, item, at.element, at.position)
          /\ focus' = active
          /\ selIndex' = IndexOf(rows', active)
     ELSE UNCHANGED <<rows, focus, selIndex>>

(***************************************************************************)
(* The keyboard: Ctrl grabs the active row, Ctrl with an arrow moves it    *)
(* past its neighbour, a plain arrow moves the focus.                      *)
(***************************************************************************)
Directed(dir) ==       \* logicalFrom: the neighbour, round the end of the list
  LET n == Len(rows)
      i == IndexOf(rows, active)
  IN  IF dir = "up"
      THEN [element |-> rows[IF i = 1 THEN n ELSE i - 1], position |-> BEFORE]
      ELSE [element |-> rows[IF i = n THEN 1 ELSE i + 1], position |-> AFTER]

HasKeys == Idle /\ focus # NoRow

HandleKeyDownGrab ==
  /\ HasKeys
  /\ grabbed # focus
  /\ grabbed' = focus
  /\ UNCHANGED <<server, rows, cell, active, focus, mouse, stuck, unbound,
                 selIndex, errors, confirm, unsure, changes>>

HandleKeyDownMove(dir) ==
  /\ HasKeys
  /\ grabbed = focus
  /\ LET at == Directed(dir)
     IN  IF at.element = active THEN NoRequest
         ELSE \E answer \in Answers(active) : RequestMovement(active, at, answer)
  /\ UNCHANGED <<active, grabbed, mouse, stuck, confirm>>

HandleKeyDownArrow(dir) ==
  /\ HasKeys
  /\ SelectItem(Directed(dir).element, active \in unbound)
  /\ UNCHANGED <<server, rows, cell, mouse, stuck, unbound, errors, confirm,
                 unsure, changes>>

HandleKeyUp ==
  /\ HasKeys
  /\ grabbed = focus
  /\ grabbed' = NoRow
  /\ UNCHANGED <<server, rows, cell, active, focus, mouse, stuck, unbound,
                 selIndex, errors, confirm, unsure, changes>>

(***************************************************************************)
(* The mouse.  A draggable that still holds a helper captures no press.    *)
(***************************************************************************)
StartDrag == lastClosest' = NoRow

MouseStart(r) ==
  /\ Idle
  /\ r \in Listed \ stuck
  /\ SelectItem(r, FALSE)
  /\ drag' = r
  /\ StartDrag
  /\ errors' = FALSE
  /\ UNCHANGED <<server, rows, cell, stuck, unbound, confirm, unsure, changes>>

(* The closest target is one half of a row; the dragged row is one, too.   *)
MouseMove(t, position) ==
  /\ ~Idle
  /\ t \in Listed
  /\ lastClosest # [element |-> t, position |-> position]
  /\ lastClosest' = [element |-> t, position |-> position]
  /\ UNCHANGED <<server, rows, cell, active, focus, grabbed, drag, stuck,
                 unbound, selIndex, errors, confirm, unsure, changes>>

(* stop runs before the draggable clears its helper: when the listener     *)
(* fails, the helper stays.  (lastClosest keeps its value in the code,     *)
(* which startDrag overwrites before it is read again.)                    *)
MouseStop ==
  /\ ~Idle
  /\ drag' = NoRow /\ lastClosest' = NoRow
  /\ IF lastClosest = NoRow \/ lastClosest.element = drag
     THEN NoRequest /\ UNCHANGED stuck
     ELSE \E answer \in Answers(drag) :
            /\ RequestMovement(drag, lastClosest, answer)
            /\ stuck' = IF Throws(answer) THEN stuck \cup {drag} ELSE stuck
  /\ UNCHANGED <<active, grabbed, confirm>>

(***************************************************************************)
(* cas.js: deleting asks once more, in the cells of the row.               *)
(***************************************************************************)
(* a bug: the row that asked before keeps asking.                          *)
NothingRestored == buttons
Restored ==
  IF currentRow = NoRow THEN buttons
  ELSE [buttons EXCEPT ![currentRow] = editInnerHTML]

SwapButtonsForConfirm(r) ==
  /\ Idle
  /\ r \in Listed
  /\ Restored[r] # Really
  /\ editInnerHTML' = Restored[r]
  /\ currentRow' = r
  /\ buttons' = [Restored EXCEPT ![r] = Really]
  /\ UNCHANGED <<server, rows, cell, active, focus, grabbed, mouse, stuck,
                 unbound, selIndex, errors, unsure, changes>>

ResetOldValue ==
  /\ Idle
  /\ currentRow # NoRow
  /\ buttons' = Restored
  /\ currentRow' = NoRow /\ editInnerHTML' = NoRow
  /\ UNCHANGED <<server, rows, cell, active, focus, grabbed, mouse, stuck,
                 unbound, selIndex, errors, unsure, changes>>

(* Yes: the service is deleted and the page is shown again.                *)
DeleteRegisteredService ==
  /\ Idle
  /\ currentRow # NoRow
  /\ server' = [server EXCEPT ![currentRow] = Deleted]
  /\ Load(server')

Manage ==
  /\ Idle
  /\ UNCHANGED server
  /\ Load(server)

(***************************************************************************)
(* Another administrator edits or deletes a service meanwhile.             *)
(***************************************************************************)
OtherAdministrator(s, order) ==
  /\ server[s] \notin {Deleted, order} /\ changes < MaxChanges
  /\ changes' = changes + 1
  /\ server' = [server EXCEPT ![s] = order]
  /\ unsure' = unsure \cup {s}
  /\ UNCHANGED <<rows, cell, active, focus, grabbed, mouse, stuck, unbound,
                 selIndex, errors, confirm>>

TableNext ==
  \/ \E r \in Service : FocusRow(r) \/ MouseStart(r) \/ SwapButtonsForConfirm(r)
  \/ FocusContainer \/ Leave \/ HandleKeyDownGrab \/ HandleKeyUp
  \/ \E dir \in {"up", "down"} :
        HandleKeyDownArrow(dir) \/ HandleKeyDownMove(dir)
  \/ \E r \in Service, p \in {BEFORE, AFTER} : MouseMove(r, p)
  \/ MouseStop \/ ResetOldValue \/ DeleteRegisteredService \/ Manage
  \/ \E s \in Service, o \in {MaxOrder, Deleted} : OtherAdministrator(s, o)

TableSpec == TableInit /\ [][TableNext]_tableVars

-----------------------------------------------------------------------------
(* Every variable has the values the scripts give it.                      *)
TableTypeOK ==
  /\ server \in [Service -> Orders \cup {Deleted}]
  /\ cell \in [Service -> Orders \cup {Deleted}]
  /\ Listed \subseteq Service
  /\ {active, focus, grabbed, drag, currentRow} \subseteq Listed \cup {NoRow}
  /\ lastClosest \in [element : Listed, position : {BEFORE, AFTER}] \cup {NoRow}
  /\ stuck \subseteq Listed /\ unbound \subseteq Listed
  /\ selIndex \in 0 .. Len(rows)
  /\ errors \in BOOLEAN
  /\ unsure \subseteq Service

(* The order shown for a service is the one the server has, unless a reply *)
(* was lost, the session was over, or another administrator changed it.    *)
Agree == \A s \in Service : cell[s] # server[s] => s \in unsure

(* After a move the selection still points at the row that was moved: the  *)
(* arrow keys go on from where the administrator is.                       *)
SelectionFollows == active # NoRow => rows[selIndex] = active

(* At most one row asks "Really?", and every other row shows its own       *)
(* buttons, whatever was clicked in which order.                           *)
OneConfirmation ==
  \A r \in Service : buttons[r] = IF r = currentRow THEN Really ELSE r

(* The buttons put aside are those of the row that asks.                   *)
AsideIsOwn == currentRow # NoRow => editInnerHTML = currentRow

(* The inductive invariant behind Agree and OneConfirmation.               *)
TableInv ==
  /\ {server, cell} \subseteq [Service -> Orders \cup {Deleted}]
  /\ buttons \in [Service -> Service \cup {Really}] /\ currentRow \in Service \cup {NoRow}
  /\ Agree /\ OneConfirmation /\ AsideIsOwn

Increasing(Before(_, _)) ==
  \A i \in 1 .. Len(rows) - 1 : Before(cell[rows[i]], cell[rows[i + 1]])

(* A row dropped or moved by the keyboard in a page whose orders strictly  *)
(* increase leaves the page in the order the server will evaluate, up to   *)
(* ties: the order sent fits between the row's new neighbours.  (Loading   *)
(* the page forgets the active item.)                                      *)
MoveKeepsOrder ==
  [][active' # NoRow /\ Increasing(<) => Increasing(<=)']_<<rows, cell>>

(* A move changes the place of one row, leaves the others in their order,  *)
(* and never happens when the page reports that the order was not updated. *)
OthersStay ==
  [][active' # NoRow =>
       ~errors' /\ \E r \in Listed : Remove(rows, r) = Remove(rows', r)]_rows
=============================================================================
