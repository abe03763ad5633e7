------------------------------ MODULE Effects -------------------------------
(***************************************************************************)
(* Page code that animates an element: fadeIn, fadeOut, delay, stop,       *)
(* clearQueue and promise in any order, between the timers of the queue.   *)
(***************************************************************************)
EXTENDS FxQueue, FiniteSets

CONSTANT MaxCalls   \* bound: calls that page code makes
ASSUME CallsAssumption == MaxCalls \in Nat

VARIABLES
  fx,       \* the effects of the element
  promise,  \* "none", "waiting" or "resolved"
  checks,   \* setTimeouts of handleQueueMarkDefer
  last,     \* history: the last animation asked for, or what was there
  misused,  \* history: "stopped" midway, a pending delay or a running
            \* animation "cut" off from its queue
  calls     \* calls made

effectsVars == <<fx, promise, checks, last, misused, calls>>

EffectsInit ==
  /\ fx \in {Fx(TRUE), Fx(FALSE)}
  /\ promise = "none" /\ checks = 0 /\ misused = {} /\ calls = 0
  /\ last = IF fx.shown THEN "show" ELSE "hide"

(* handleQueueMarkDefer: a queue that empties sets a timer that looks once *)
(* more.                                                                   *)
(* a bug: it looks at once, which is too early, and not again.             *)
NoTimer(new) == checks
HandleQueueMarkDefer(new) ==
  IF new.queue = <<>> /\ promise = "waiting" THEN checks + 1 ELSE checks

FxStep(new) == fx' = new /\ checks' = HandleQueueMarkDefer(new)

Call == calls < MaxCalls /\ calls' = calls + 1

QueueJob(job) ==
  /\ Call
  /\ FxStep(Queue(fx, job))
  /\ last' = IF job = "delay" THEN last ELSE job
  /\ UNCHANGED <<promise, misused>>

Interrupt(clears) ==
  /\ last' = IF clears /\ \E i \in DOMAIN fx.queue : fx.queue[i] # "inprogress"
             THEN "lost" ELSE last

StopCall(clearQueue, gotoEnd) ==
  /\ Call
  /\ FxStep(Stop(fx, clearQueue, gotoEnd))
  /\ Interrupt(clearQueue)
  /\ misused' = misused \cup (IF fx.running # <<>> /\ ~gotoEnd THEN {"stopped"} ELSE {})
                        \cup (IF fx.delays > 0 /\ (clearQueue \/ ~gotoEnd) THEN {"cut"} ELSE {})
                        \cup (IF fx.running # <<>> /\ clearQueue THEN {"cut"} ELSE {})
  /\ UNCHANGED promise

ClearQueueCall ==
  /\ Call
  /\ FxStep(ClearQueue(fx))
  /\ Interrupt(TRUE)
  /\ misused' = IF fx.running # <<>> \/ fx.delays > 0 THEN misused \cup {"cut"} ELSE misused
  /\ UNCHANGED promise

(* promise: resolved at once unless something is queued.                   *)
Promise ==
  /\ Call /\ promise = "none"
  /\ promise' = IF fx.queue = <<>> THEN "resolved" ELSE "waiting"
  /\ UNCHANGED <<fx, checks, last, misused>>

FxTick ==
  /\ \E i \in DOMAIN fx.running : FxStep(Completed(fx, i))
  /\ UNCHANGED <<promise, last, misused, calls>>

DelayTimer ==
  /\ fx.delays > 0
  /\ FxStep(DelayEnds(fx))
  /\ UNCHANGED <<promise, last, misused, calls>>

CheckTimer ==
  /\ checks > 0
  /\ checks' = checks - 1
  /\ promise' = IF promise = "waiting" /\ fx.queue = <<>> THEN "resolved" ELSE promise
  /\ UNCHANGED <<fx, last, misused, calls>>

EffectsNext ==
  \/ \E job \in FxKinds : QueueJob(job)
  \/ \E c, e \in BOOLEAN : StopCall(c, e)
  \/ ClearQueueCall \/ Promise \/ FxTick \/ DelayTimer \/ CheckTimer

(* The browser runs its timers.                                            *)
EffectsFairness ==
  WF_effectsVars(FxTick) /\ WF_effectsVars(DelayTimer) /\ WF_effectsVars(CheckTimer)
EffectsSpec == EffectsInit /\ [][EffectsNext]_effectsVars /\ EffectsFairness

-----------------------------------------------------------------------------
EffectsTypeOK ==
  /\ fx \in FxType
  /\ promise \in {"none", "waiting", "resolved"} /\ checks \in Nat
  /\ last \in {"show", "hide", "lost"} /\ misused \subseteq {"stopped", "cut"}

(* Unless page code cuts a queue off from what runs, an element is never   *)
(* animated twice at a time and something runs while anything waits; when  *)
(* all is done the element is as the last animation left it, fully opaque  *)
(* if none was stopped midway.                                             *)
EffectsHold ==
  /\ "cut" \notin misused =>
       Len(fx.running) + fx.delays = IF fx.queue = <<>> THEN 0 ELSE 1
  /\ misused = {} /\ fx.queue = <<>> /\ fx.running = <<>> =>
       fx.opacity = "full" /\ (last # "lost" => (fx.shown <=> last = "show"))

(* A promise is kept: it is resolved when nothing is queued, and with no   *)
(* animation running unless the queue was cut off.                         *)
PromiseWaits ==
  promise = "waiting" /\ promise' = "resolved" =>
    fx.queue = <<>> /\ (fx.running = <<>> \/ "cut" \in misused)

(***************************************************************************)
(* What makes these inductive: functions wait behind the sentinel only;    *)
(* unless page code misused the queue, the animation that runs found the   *)
(* element fully opaque, and the last one asked for is the last that waits *)
(* or, if none does, the one that runs or has left the element as it is.   *)
(***************************************************************************)
Asked(f) == {i \in DOMAIN Waiting(f) : Waiting(f)[i] # "delay"}
StyleAgrees(f) ==
  IF f.running = <<>> THEN f.opacity = "full" ELSE f.shown /\ f.running[1].orig = "full"
LastAgrees(f, job) ==
  /\ \A i \in Asked(f) : (\A j \in Asked(f) : j <= i) => Waiting(f)[i] = job
  /\ Asked(f) = {} => /\ f.running # <<>> => f.running[1].kind = job
                      /\ f.running = <<>> => (f.shown <=> job = "show")

EffectsInv ==
  /\ EffectsTypeOK /\ Behind(fx, FxKinds) /\ EffectsHold
  /\ misused = {} => StyleAgrees(fx) /\ (last # "lost" => LastAgrees(fx, last))

(* A promise is resolved in the end.                                       *)
PromiseEnds == promise = "waiting" ~> promise = "resolved"
=============================================================================
