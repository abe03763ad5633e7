------------------------------ MODULE Tooltip -------------------------------
(***************************************************************************)
(* fluid.tooltip over ui.tooltip (MyInfusion.js): one tooltip for the      *)
(* elements of a container, opened by mouse or focus and closed when they  *)
(* leave; its effects are those of FxQueue, shown after a delay.           *)
(***************************************************************************)
EXTENDS FxQueue, FiniteSets

CONSTANTS
  Target,      \* the elements of the container
  MaxTipDelays,   \* bound: delays pending at a time
  NoTarget

ASSUME TargetAssumption == NoTarget \notin Target /\ MaxTipDelays \in Nat

VARIABLES
  tip,        \* the effects of the tooltip element
  over,      \* the elements the mouse is over and that has the focus
  current,   \* the element whose tooltip is open
  title,     \* the elements that have their title attribute
  saved,     \* currentTitle: whether current had its title when it opened
  replaced   \* history: elements whose tooltip was replaced while open

tipVars == <<tip, over, current, title, saved, replaced>>

TipInit ==
  /\ tip = Fx(FALSE)
  /\ current = NoTarget /\ title = Target /\ saved = FALSE
  /\ replaced = {}
  /\ over = [by \in {"mouse", "focus"} |-> NoTarget]

(* ui.tooltip fades in; the open callback then finishes that, hides the    *)
(* tooltip and fades it in after the delay.                                *)
OpenEffects(f) ==
  LET shown == Queue(Stop(f, FALSE, TRUE), "show")
  IN  Queue(Queue(Hide(Stop(shown, FALSE, TRUE)), "delay"), "show")

CloseEffects(f) ==
  LET faded == Queue(Stop(f, FALSE, TRUE), "hide")
  IN  ClearQueue(Hide(Stop(faded, FALSE, TRUE)))

(* open: nothing for the element whose tooltip is open already.            *)
OpenTip(t) ==
  IF t = current THEN UNCHANGED <<tip, current, title, saved, replaced>>
  ELSE /\ tip' = OpenEffects(Hide(tip))
       /\ current' = t
       /\ saved' = (t \in title)
       /\ title' = title \ {t}
       /\ replaced' = IF current = NoTarget THEN replaced ELSE replaced \cup {current}

(* a bug: it closes what is not open.                                      *)
CloseTipAnyway ==
  /\ tip' = CloseEffects(tip)
  /\ current' = NoTarget
  /\ title' = IF saved THEN title \cup {current} ELSE title
  /\ UNCHANGED <<saved, replaced>>
CloseTip ==
  IF current = NoTarget THEN UNCHANGED <<tip, current, title, saved, replaced>>
  ELSE /\ tip' = CloseEffects(tip)
       /\ current' = NoTarget
       /\ title' = IF saved THEN title \cup {current} ELSE title
       /\ UNCHANGED <<saved, replaced>>

(* mouseover or focus, mouseout or blur: before the mouse is over another  *)
(* element it leaves the one it was over, and so does the focus.           *)
Enter(by, t) ==
  /\ tip.delays < MaxTipDelays
  /\ over[by] = NoTarget
  /\ over' = [over EXCEPT ![by] = t]
  /\ OpenTip(t)

Leave(by) ==
  /\ over[by] # NoTarget
  /\ over' = [over EXCEPT ![by] = NoTarget]
  /\ CloseTip

TipTick ==
  /\ \E i \in DOMAIN tip.running : tip' = Completed(tip, i)
  /\ UNCHANGED <<over, current, title, saved, replaced>>

TipDelayTimer ==
  /\ tip.delays > 0
  /\ tip' = DelayEnds(tip)
  /\ UNCHANGED <<over, current, title, saved, replaced>>

TipNext ==
  \/ \E by \in {"mouse", "focus"} : Leave(by) \/ \E t \in Target : Enter(by, t)
  \/ TipTick \/ TipDelayTimer

TipFairness == WF_tipVars(TipTick) /\ WF_tipVars(TipDelayTimer)
TipSpec == TipInit /\ [][TipNext]_tipVars /\ TipFairness

-----------------------------------------------------------------------------
TipTypeOK ==
  /\ tip \in FxType
  /\ current \in Target \cup {NoTarget}
  /\ title \subseteq Target /\ saved \in BOOLEAN

(* A tooltip that was closed is hidden and stays so, with nothing queued   *)
(* that could bring it back, whatever timers are left over from delays; it *)
(* is never animated twice at a time; and an element has its title back    *)
(* unless another one took over its tooltip.                               *)
ClosedStaysHidden ==
  /\ current = NoTarget => ~tip.shown /\ tip.queue = <<>> /\ tip.running = <<>>
  /\ Len(tip.running) <= 1
  /\ \A t \in Target \ replaced : t \in title <=> t # current

(***************************************************************************)
(* What makes these inductive: nothing waits but behind the sentinel, and  *)
(* then only to show the tooltip; what runs shows it, and it is shown, so  *)
(* that the late timer of a delay starts nothing else; and an element that *)
(* still has its tooltip had a title when it opened.                       *)
(***************************************************************************)
TipAgrees ==
  /\ Behind(tip, {"show", "delay"})
  /\ tip.running # <<>> => tip.shown /\ tip.running[1].kind = "show"
  /\ current \notin replaced \cup {NoTarget} => saved

TipInv == TipTypeOK /\ ClosedStaysHidden /\ TipAgrees

(* An open tooltip appears in the end, unless it is closed before.         *)
OpenAppears == current # NoTarget ~> (tip.shown /\ tip.opacity = "full") \/ current = NoTarget
=============================================================================
