------------------------------- MODULE Dialog -------------------------------
(***************************************************************************)
(* The dialogs of a page (ui.dialog in MyInfusion.js): their stacking      *)
(* order, the overlays under the modal ones, which are kept for reuse, and *)
(* the handlers of the document that block the page under an overlay and   *)
(* close a dialog on Escape.                                               *)
(*                                                                         *)
(* A handler runs to its end before the next event; the timer that binds   *)
(* the blocking handler is an event.  Sizes, positions, buttons, dragging  *)
(* and the animations of showing and hiding are not represented.           *)
(***************************************************************************)
EXTENDS Integers, Sequences, FiniteSets, FiniteSetsExt

CONSTANTS
  Dialog,      \* the dialogs of the page
  Modal,       \* those with the option modal
  Stack,       \* those with the option stack
  ZIndex,      \* the option zIndex of every dialog
  MaxZ,        \* bound: z-indices stay below
  MaxTimers,   \* bound: timers that have not fired
  NoDialog

VARIABLES
  exists,      \* dialogs that have not been destroyed
  isOpen,      \* those that are open
  z,           \* the z-index of a dialog's element
  overlay,     \* the element of the overlay a dialog last had
  instances,   \* the elements of overlays in use, with their z-indices
  oldInstances, \* elements kept for reuse
  maxZ,        \* $.ui.dialog.maxZ
  overlayMaxZ, \* $.ui.dialog.overlay.maxZ
  escape,      \* the dialog that the document's Escape handler closes
  blocking,    \* the handler that blocks the page under the overlays
  bindTimers,  \* timers that will bind it
  bubbling,    \* an Escape is on its way from a dialog to the document
  stale        \* history: a dialog that was not open took down an overlay

stacking == <<z, maxZ>>
overlays == <<overlay, instances, oldInstances, overlayMaxZ, escape, blocking,
              bindTimers>>
dialogVars == <<exists, isOpen, stacking, overlays, bubbling, stale>>

Element == 1 .. Cardinality(Modal)
Highest(S) == IF S = {} THEN 0 ELSE Max(S)
InUse == DOMAIN instances

ASSUME DialogAssumption ==
  /\ Modal \subseteq Dialog /\ IsFiniteSet(Modal)
  /\ NoDialog \notin Dialog \cup Element
ASSUME NumberAssumption ==
  ZIndex \in Nat /\ MaxZ \in Nat /\ ZIndex <= MaxZ /\ MaxTimers \in Nat

DialogInit ==
  /\ exists = Dialog /\ isOpen = {}
  /\ z = [d \in Dialog |-> ZIndex]
  /\ overlay = [d \in Dialog |-> NoDialog]
  /\ instances = << >> /\ oldInstances = <<>>
  /\ maxZ = 0 /\ overlayMaxZ = 0
  /\ escape = NoDialog /\ blocking = FALSE /\ bindTimers = 0
  /\ bubbling = FALSE /\ stale = FALSE

(***************************************************************************)
(* overlay.create: a kept element, or a new one; the first overlay binds   *)
(* the Escape handler for its dialog and starts the timer.                 *)
(***************************************************************************)
Kept == oldInstances # <<>>
NextElement ==
  IF Kept THEN oldInstances[Len(oldInstances)]
  ELSE CHOOSE e \in Element : e \notin InUse

CreateOverlay(d, at) ==
  /\ overlay' = [overlay EXCEPT ![d] = NextElement]
  /\ oldInstances' = IF Kept THEN SubSeq(oldInstances, 1, Len(oldInstances) - 1)
                     ELSE oldInstances
  /\ instances' = [e \in InUse \cup {NextElement} |->
                     IF e = NextElement THEN at ELSE instances[e]]
  /\ overlayMaxZ' = at
  /\ escape' = IF InUse = {} THEN d ELSE escape
  /\ bindTimers' = IF InUse = {} THEN bindTimers + 1 ELSE bindTimers
  /\ UNCHANGED blocking

(* overlay.destroy: the last overlay takes the document's handlers along.  *)
DestroyOverlay(e) ==
  LET rest == InUse \ {e}
  IN  /\ oldInstances' = IF e \in InUse THEN Append(oldInstances, e) ELSE oldInstances
      /\ instances' = [r \in rest |-> instances[r]]
      /\ overlayMaxZ' = Highest({instances[r] : r \in rest})
      /\ escape' = IF rest = {} THEN NoDialog ELSE escape
      /\ blocking' = (blocking /\ rest # {})
      /\ UNCHANGED <<overlay, bindTimers>>

(* a bug: the handler is bound though the overlays are gone by then.       *)
BindUnchecked ==
  /\ bindTimers > 0
  /\ bindTimers' = bindTimers - 1
  /\ blocking' = TRUE
  /\ UNCHANGED <<exists, isOpen, stacking, overlay, instances, oldInstances,
                 overlayMaxZ, escape, bubbling, stale>>
BindBlocking ==
  /\ bindTimers > 0
  /\ bindTimers' = bindTimers - 1
  /\ blocking' = (blocking \/ InUse # {})
  /\ UNCHANGED <<exists, isOpen, stacking, overlay, instances, oldInstances,
                 overlayMaxZ, escape, bubbling, stale>>

(***************************************************************************)
(* moveToTop: one step above everything for a modal dialog's overlay, and  *)
(* one for the dialog.                                                     *)
(***************************************************************************)
Below(d) == IF ZIndex > maxZ THEN ZIndex ELSE maxZ

Raise(d, steps) ==
  /\ maxZ' = Below(d) + steps
  /\ z' = [z EXCEPT ![d] = Below(d) + steps]

OpenDialog(d) ==
  /\ d \in exists \ isOpen
  /\ Below(d) + 2 <= MaxZ
  /\ d \in Modal /\ InUse = {} => bindTimers < MaxTimers
  /\ isOpen' = isOpen \cup {d}
  /\ IF d \in Modal
     THEN CreateOverlay(d, Below(d) + 1) /\ Raise(d, 2)
     ELSE /\ IF d \in Stack THEN Raise(d, 1) ELSE UNCHANGED stacking
          /\ overlay' = [overlay EXCEPT ![d] = NoDialog]
          /\ UNCHANGED <<instances, oldInstances, overlayMaxZ, escape, blocking,
                         bindTimers>>
  /\ UNCHANGED <<exists, bubbling, stale>>

(* A press of the mouse reaches a dialog that no overlay covers.           *)
PressDialog(d) ==
  /\ d \in isOpen /\ \A e \in InUse : instances[e] < z[d]
  /\ d \in Stack \ Modal
  /\ Below(d) + 1 <= MaxZ
  /\ Raise(d, 1)
  /\ UNCHANGED <<exists, isOpen, overlays, bubbling, stale>>

(***************************************************************************)
(* close takes down the overlay the dialog had, whether the dialog is open *)
(* or not, and looks for the highest of the other dialogs.                 *)
(***************************************************************************)
TakeDown(d) ==
  /\ stale' = (stale \/ (d \notin isOpen /\ overlay[d] \in InUse))
  /\ IF overlay[d] = NoDialog THEN UNCHANGED overlays
     ELSE DestroyOverlay(overlay[d])

CloseDialog(d) ==
  /\ TakeDown(d)
  /\ isOpen' = isOpen \ {d}
  /\ maxZ' = IF d \in Modal THEN Highest({z[e] : e \in exists \ {d}}) ELSE maxZ
  /\ UNCHANGED <<exists, z>>

CloseCall(d) == d \in exists /\ CloseDialog(d) /\ UNCHANGED bubbling

(* Escape in a dialog closes it, and goes on to the document, whose        *)
(* handler closes the dialog it was bound for, if it is still bound: no    *)
(* other event comes between.                                              *)
Escape(d) ==
  /\ d \in isOpen
  /\ CloseDialog(d)
  /\ bubbling' = TRUE

Bubble ==
  /\ bubbling
  /\ bubbling' = FALSE
  /\ IF escape # NoDialog THEN CloseDialog(escape)
     ELSE UNCHANGED <<exists, isOpen, stacking, overlays, stale>>

(* Escape elsewhere in the page.                                           *)
EscapeOutside == escape # NoDialog /\ CloseDialog(escape) /\ UNCHANGED bubbling

DestroyDialog(d) ==
  /\ d \in exists
  /\ TakeDown(d)
  /\ exists' = exists \ {d} /\ isOpen' = isOpen \ {d}
  /\ UNCHANGED <<stacking, bubbling>>

DialogNext ==
  \/ /\ ~bubbling
     /\ \/ \E d \in Dialog : \/ OpenDialog(d) \/ PressDialog(d) \/ CloseCall(d)
                             \/ Escape(d) \/ DestroyDialog(d)
        \/ EscapeOutside \/ BindBlocking
  \/ Bubble

DialogSpec == DialogInit /\ [][DialogNext]_dialogVars

-----------------------------------------------------------------------------
(* Every variable has the values the code gives it.                        *)
DialogTypeOK ==
  /\ isOpen \subseteq exists /\ exists \subseteq Dialog
  /\ z \in [Dialog -> ZIndex .. MaxZ]
  /\ overlay \in [Dialog -> Element \cup {NoDialog}]
  /\ InUse \subseteq Element /\ \A e \in InUse : instances[e] \in ZIndex .. MaxZ
  /\ oldInstances \in Seq(Element \ InUse)
  /\ maxZ \in 0 .. MaxZ /\ overlayMaxZ \in 0 .. MaxZ
  /\ escape \in Dialog \cup {NoDialog}
  /\ blocking \in BOOLEAN /\ bindTimers \in 0 .. MaxTimers
  /\ bubbling \in BOOLEAN /\ stale \in BOOLEAN

(* Every open modal dialog lies on an overlay of its own, directly beneath *)
(* it, and there is no other overlay: as long as only open dialogs are     *)
(* closed or destroyed, since a dialog remembers the overlay it once had   *)
(* and takes it away from the dialog that uses it now.                     *)
OverlaysFit ==
  ~stale =>
    /\ InUse = {overlay[d] : d \in isOpen \cap Modal}
    /\ \A d \in isOpen \cap Modal : instances[overlay[d]] = z[d] - 1

(* The page is blocked exactly while there are overlays, but for the time  *)
(* of a timer; no handler outlives the last overlay.                       *)
PageIsFreed ==
  /\ InUse = {} => ~blocking /\ escape = NoDialog
  /\ InUse # {} => escape # NoDialog /\ (blocking \/ bindTimers > 0)

DialogsHold == OverlaysFit /\ PageIsFreed

(* A dialog that opens comes on top of every dialog that was opened or     *)
(* raised before it, and its overlay covers them, although closing a modal *)
(* dialog computes the highest z-index anew.                               *)
OpensOnTop ==
  \A d \in (isOpen' \ isOpen) \cap (Modal \cup Stack) :
    \A e \in isOpen \cap (Modal \cup Stack) :
      z[e] < (IF d \in Modal THEN instances'[overlay'[d]] ELSE z'[d])

(* An overlay is in use, or kept once, and never without an open modal     *)
(* dialog that had it last, so that there is an element for one more.      *)
OverlaysOwned ==
  /\ \A i, j \in DOMAIN oldInstances : oldInstances[i] = oldInstances[j] => i = j
  /\ InUse \subseteq {overlay[d] : d \in isOpen \cap Modal}
  /\ \A d \in isOpen \ Modal : overlay[d] = NoDialog
  /\ ~stale => \A d, e \in isOpen \cap Modal : overlay[d] = overlay[e] => d = e

(* maxZ is not below what is open and was raised.                          *)
MaxIsAbove == \A d \in isOpen \cap (Modal \cup Stack) : z[d] <= Below(d)

DialogInv == DialogTypeOK /\ DialogsHold /\ OverlaysOwned /\ MaxIsAbove
=============================================================================
