------------------------------ MODULE FxQueue -------------------------------
(***************************************************************************)
(* The effects queue of one element (jQuery in MyInfusion.js): functions   *)
(* wait in a queue, the first one runs and dequeues the next when it ends. *)
(* An animation ends by a timer of its own or by stop; a delay by a        *)
(* setTimeout that nothing cancels.  The operators take and return the     *)
(* element's effects:                                                      *)
(*   shown    whether the element is displayed                             *)
(*   opacity  "full", or "partial" while or after an animation changed it  *)
(*   queue    the sentinel "inprogress" and the functions that wait        *)
(*   running  the animations with a timer, with the opacity they found     *)
(*   delays   setTimeouts of delays that have not fired                    *)
(* Animations are those of pages: fadeIn and fadeOut, queued.              *)
(***************************************************************************)
EXTENDS Naturals, Sequences, SequencesExt

FxKinds == {"show", "hide", "delay"}
Fx(shown) == [shown |-> shown, opacity |-> "full", queue |-> <<>>, running |-> <<>>,
              delays |-> 0]

(* An animation towards what is already there completes without a timer.   *)
NoEffect(fx, job) == job = IF fx.shown THEN "show" ELSE "hide"

(* fx.custom: a timer, which remembers the style it begins from.           *)
Custom(fx, kind) == Append(fx.running, [kind |-> kind, orig |-> fx.opacity])

Animate(fx, job) ==
  [fx EXCEPT !.shown = TRUE, !.opacity = "partial", !.running = Custom(fx, job)]

(* jQuery.dequeue: the sentinel goes, the next function is called and, if  *)
(* it has no effect, at once the one after.                                *)
Waiting(fx) == IF fx.queue # <<>> /\ Head(fx.queue) = "inprogress"
               THEN Tail(fx.queue) ELSE fx.queue
Dequeue(fx) ==
  LET waiting == Waiting(fx)
      next    == SelectInSeq(waiting, LAMBDA job : ~NoEffect(fx, job))
      started == [fx EXCEPT !.queue = <<"inprogress">>
                                        \o SubSeq(waiting, next + 1, Len(waiting))]
  IN  IF next = 0 THEN [fx EXCEPT !.queue = <<>>]
      ELSE IF waiting[next] = "delay" THEN [started EXCEPT !.delays = @ + 1]
      ELSE Animate(started, waiting[next])

(* jQuery.fn.queue: a function that nobody is ahead of runs at once.       *)
(* a bug: the function runs at once even while another does.               *)
QueueAtOnce(fx, job) == Dequeue([fx EXCEPT !.queue = Append(@, job)])
Queue(fx, job) ==
  LET pushed == [fx EXCEPT !.queue = Append(@, job)]
  IN  IF Head(pushed.queue) = "inprogress" THEN pushed ELSE Dequeue(pushed)

ClearQueue(fx) == Dequeue([fx EXCEPT !.queue = <<>>])

(* The last step of an animation: the style it found comes back, the       *)
(* element is hidden or stays, and complete dequeues.                      *)
AnimationEnds(fx, i) ==
  LET a    == fx.running[i]
      rest == RemoveAt(fx.running, i)
  IN  [fx EXCEPT !.running = rest,
                 !.shown = IF a.kind = "hide" THEN FALSE ELSE @,
                 !.opacity = IF rest = <<>> THEN a.orig ELSE "partial"]
Completed(fx, i) == Dequeue(AnimationEnds(fx, i))

(* stop: with gotoEnd every animation that runs is completed, the last one *)
(* first; what they dequeue goes on.  Without, they are dropped where they *)
(* are, and the next function is dequeued.                                 *)
AllCompleted(fx) ==
  LET n == Len(fx.running)
      after[k \in 0 .. n] == IF k = 0 THEN fx ELSE Completed(after[k - 1], n + 1 - k)
  IN  after[n]
Stop(fx, clearQueue, gotoEnd) ==
  LET cleared == IF clearQueue THEN ClearQueue(fx) ELSE fx
  IN  IF gotoEnd THEN AllCompleted(cleared) ELSE Dequeue([cleared EXCEPT !.running = <<>>])

Hide(fx) == [fx EXCEPT !.shown = FALSE]

(* The timer of a delay.                                                   *)
DelayEnds(fx) == Dequeue([fx EXCEPT !.delays = @ - 1])

Animation == [kind : {"show", "hide"}, orig : {"full", "partial"}]
FxType == [shown : BOOLEAN, opacity : {"full", "partial"},
           queue : Seq(FxKinds \cup {"inprogress"}),
           running : Seq(Animation),
           delays : Nat]

(* Functions wait behind the sentinel only, and these kinds of them.       *)
Behind(fx, kinds) ==
  fx.queue # <<>> => Head(fx.queue) = "inprogress" /\ Tail(fx.queue) \in Seq(kinds)
=============================================================================
