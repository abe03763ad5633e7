------------------------------ MODULE Progress ------------------------------
(***************************************************************************)
(* A progress indicator (fluid.progress, MyInfusion.js): an element that   *)
(* is shown by updates and hidden at once, by an animation or after a      *)
(* delay that nothing cancels; a bar whose width follows the percentage,   *)
(* by animations that replace one another; and what assistive technology   *)
(* is told.  Percentages and widths are small numbers, Full for 100.       *)
(***************************************************************************)
EXTENDS FxQueue, Integers

CONSTANTS
  Full,        \* the percentage that is complete
  MinWidth,    \* options.minWidth, in the bar's units
  MaxTimers,   \* bound: hide delays pending at a time
  MaxEffects,  \* bound: effects of the element and the bar at a time
  None

VARIABLES
  direction,  \* options.animate
  fx,         \* the effects of the display element
  timers,     \* animated or not: the hides put off
  wanted,     \* history: the display that was asked for last
  crossed,    \* history: a call overtook an effect or a delay still to come
  stored,     \* storedPercent
  width,      \* of the indicator
  bar,        \* the animations of the indicator: their targets
  fell,       \* history: the width was set under an animation that goes on
  aria,       \* aria-busy, aria-valuenow and aria-valuetext
  nulled      \* history: the last update had no percentage

display == <<fx, timers, wanted, crossed>>
indicator == <<stored, width, bar, fell, aria, nulled>>
vars == <<direction, display, indicator>>

Smaller(a, b) == IF a < b THEN a ELSE b
Larger(a, b)  == IF a < b THEN b ELSE a

Init ==
  /\ direction \in {"forward", "both", "backward"}
  /\ fx = Fx(FALSE)
  /\ timers = <<>> /\ wanted = FALSE /\ crossed = FALSE
  /\ stored = 0 /\ width = MinWidth /\ bar = <<>> /\ fell = FALSE
  /\ aria = [busy |-> FALSE, now |-> 0, text |-> None]
  /\ nulled = FALSE

(***************************************************************************)
(* Showing and hiding.                                                     *)
(***************************************************************************)
Calm == fx.queue = <<>> /\ timers = <<>>

Wants(shown, overtakes) ==
  /\ wanted' = shown
  /\ crossed' = (~Calm /\ (crossed \/ overtakes))

ShowProgress(animated) ==
  /\ Len(fx.queue) < MaxEffects
  /\ fx' = IF animated THEN Queue(fx, "show") ELSE [fx EXCEPT !.shown = TRUE]
  /\ Wants(TRUE, ~animated \/ timers # <<>>)
  /\ UNCHANGED timers

HideNow(animated) ==
  fx' = IF animated THEN Queue(fx, "hide") ELSE Hide(fx)

HideProgress(delayed, animated) ==
  /\ Len(fx.queue) < MaxEffects
  /\ Wants(FALSE, ~animated)
  /\ IF delayed
     THEN Len(timers) < MaxTimers /\ timers' = Append(timers, animated) /\ UNCHANGED fx
     ELSE HideNow(animated) /\ UNCHANGED timers
  /\ UNCHANGED <<direction, indicator>>

DelayIsOver ==
  \E i \in DOMAIN timers :
    /\ timers' = RemoveAt(timers, i)
    /\ HideNow(timers[i])
    /\ crossed' = (crossed \/ (~timers[i] /\ fx.queue # <<>>))
    /\ UNCHANGED <<wanted, direction, indicator>>

EffectEnds ==
  \E i \in DOMAIN fx.running :
    /\ fx' = Completed(fx, i)
    /\ UNCHANGED <<direction, timers, wanted, crossed, indicator>>

(***************************************************************************)
(* The bar.  An animation empties the queue of the one before, which goes  *)
(* on beside it and ends first.                                            *)
(***************************************************************************)
PercentToPixels(percent) == Larger(Smaller(percent, Full), MinWidth)

UpdateWidth(new, dontAnimate) ==
  LET animated == /\ ~dontAnimate
                  /\ \/ new > width /\ direction \in {"both", "forward"}
                     \/ new < width /\ direction \in {"both", "backward"}
  IN  /\ bar' = IF animated THEN Append(bar, new) ELSE bar
      /\ width' = IF animated THEN width ELSE new
      /\ fell' = (bar' # <<>> /\ Last(bar') # new)

BarMoves ==
  /\ bar # <<>>
  /\ width' \in Smaller(width, Last(bar)) .. Larger(width, Last(bar))
  /\ UNCHANGED <<direction, display, stored, bar, fell, aria, nulled>>

BarEnds ==
  /\ bar # <<>>
  /\ bar' = Tail(bar)
  /\ width' = IF bar' = <<>> THEN Head(bar) ELSE width
  /\ UNCHANGED <<direction, display, stored, fell, aria, nulled>>

(* A percentage of nothing takes the value away and leaves the text.       *)
UpdateARIA(percent) ==
  LET busy == percent # None /\ percent < Full /\ percent > 0
  IN  aria' = [busy |-> busy, now |-> percent,
               text |-> IF busy THEN percent ELSE IF percent = Full THEN Full ELSE aria.text]

UpdateProgress(percent, animated) ==
  /\ Len(bar) < MaxEffects
  /\ ShowProgress(animated)
  /\ IF percent = None THEN UNCHANGED <<stored, width, bar, fell>>
     ELSE stored' = percent /\ UpdateWidth(PercentToPixels(percent), FALSE)
  /\ UpdateARIA(percent)
  /\ nulled' = (percent = None)
  /\ UNCHANGED direction

Show(animated) == ShowProgress(animated) /\ UNCHANGED <<direction, indicator>>

RefreshView ==
  /\ UpdateWidth(PercentToPixels(stored), TRUE)
  /\ UNCHANGED <<direction, display, stored, aria, nulled>>

Next ==
  \/ \E animated \in BOOLEAN :
       \/ Show(animated)
       \/ \E delayed \in BOOLEAN : HideProgress(delayed, animated)
       \/ \E percent \in 0 .. (Full + 1) \cup {None} : UpdateProgress(percent, animated)
  \/ DelayIsOver \/ EffectEnds \/ BarMoves \/ BarEnds \/ RefreshView

Spec == Init /\ [][Next]_vars

-----------------------------------------------------------------------------
(* The types of the variables.                                             *)
TypeOK ==
  /\ fx \in FxType /\ timers \in Seq(BOOLEAN) /\ wanted \in BOOLEAN
  /\ stored \in 0 .. (Full + 1) /\ width \in MinWidth .. Full
  /\ bar \in Seq(MinWidth .. Full)

(* When every effect and delay is over the element is as the last call     *)
(* wanted it, unless a call without animation, or one that shows, overtook *)
(* what was still to come (hideProgress never cancels its delay).          *)
DisplayAgrees == (Calm /\ ~crossed) => fx.shown = wanted

(* When no animation runs the bar shows the stored percentage, unless the  *)
(* width was set while an animation went on to another (updateWidth).      *)
BarAgrees == (bar = <<>> /\ ~fell) => width = PercentToPixels(stored)

(* Assistive technology is told the stored percentage, that it is busy     *)
(* between nothing and all, and that all is done when it is.               *)
AriaAgrees ==
  ~nulled => /\ aria.now = stored
             /\ aria.busy = (stored \in 1 .. (Full - 1))
             /\ stored \in 1 .. Full => aria.text = stored

ProgressHolds == DisplayAgrees /\ BarAgrees /\ AriaAgrees
=============================================================================
