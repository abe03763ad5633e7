------------------------------- MODULE Slider -------------------------------
(***************************************************************************)
(* ui.slider on ui.mouse (MyInfusion.js): two handles that delimit a range *)
(* and are moved with the mouse, with the keyboard, and by the program.    *)
(* The listeners of start and slide may refuse.  A release of the mouse    *)
(* outside the window and a key released after the focus has left never    *)
(* reach the slider.                                                       *)
(*                                                                         *)
(* A pixel is one unit of value, delay and distance have their defaults,   *)
(* and the click that follows a drag is not represented.                   *)
(***************************************************************************)
EXTENDS Integers

CONSTANTS
  Maximum, \* options.max; options.min is 0
  Step,    \* options.step
  NoHandle

VARIABLES
  values,       \* options.values
  told,         \* the values of the last change event
  handlesShown, \* where _refreshValue has put the handles
  keySliding,   \* _keySliding
  mouseSliding, \* _mouseSliding
  started,      \* _mouseStarted of ui.mouse
  handleIndex,  \* _handleIndex
  clickOffset,  \* _clickOffset
  handleFocus,  \* the handle with the keyboard focus
  disabled      \* options.disabled

mouseState == <<mouseSliding, started, handleIndex, clickOffset>>
sliderVars == <<values, told, handlesShown, keySliding, mouseState, handleFocus,
                disabled>>

ASSUME ScaleAssumption == Maximum \in Nat /\ Step \in Nat \ {0}

Handle == {0, 1}
Point  == -1 .. Maximum + 1      \* where the mouse can be

(* The nearest multiple of the step, and the ends of the scale themselves. *)
TrimAlignValue(v) ==
  LET rest == v % Step
  IN  IF v <= 0 THEN 0
      ELSE IF v >= Maximum THEN Maximum
      ELSE v - rest + IF 2 * rest >= Step THEN Step ELSE 0

(* What a value may be: one step of the last half may pass the end.        *)
Scale == {TrimAlignValue(x) : x \in 0 .. Maximum}

NormValueFromMouse(x, offset) == TrimAlignValue(x - offset)

SliderInit ==
  /\ values \in {v \in [Handle -> Scale] : v[0] <= v[1]}
  /\ told = values /\ handlesShown = values
  /\ keySliding = FALSE /\ mouseSliding = FALSE /\ started = FALSE
  /\ handleIndex = NoHandle /\ clickOffset = 0
  /\ handleFocus = NoHandle /\ disabled = FALSE

(***************************************************************************)
(* _slide: a handle stops at the other one; what the listener allows is    *)
(* aligned once more and shown.                                            *)
(***************************************************************************)
(* a bug: a handle passes the other one.                                   *)
NotBlocked(i, v) == v
Blocked(i, v) ==
  LET other == values[1 - i]
  IN  IF (i = 0 /\ v > other) \/ (i = 1 /\ v < other) THEN other ELSE v

RefreshValue == handlesShown' = values'

Slide(i, v) ==
  /\ \E allowed \in BOOLEAN :
       values' = IF allowed /\ Blocked(i, v) # values[i]
                 THEN [values EXCEPT ![i] = TrimAlignValue(Blocked(i, v))]
                 ELSE values
  /\ IF values' = values THEN UNCHANGED handlesShown ELSE RefreshValue

(* _change is silent while a key or the mouse holds a handle.              *)
Change(key, pressed) == IF key \/ pressed THEN told ELSE values'

(***************************************************************************)
(* ui.mouse and the slider's part of it.  A press while a release is still *)
(* awaited is a release first.                                             *)
(***************************************************************************)
Distance(x, i) ==
  LET v == NormValueFromMouse(x, 0) - values[i] IN IF v < 0 THEN -v ELSE v

(* The closest handle, the first of two; the second when both are at 0.    *)
ClosestHandle(x) == IF values[1] = 0 \/ Distance(x, 1) < Distance(x, 0) THEN 1 ELSE 0

Capture(x, i, onHandle) ==
  /\ mouseSliding' = TRUE
  /\ handleIndex' = i
  /\ handleFocus' = i
  /\ clickOffset' = IF onHandle THEN x - values[i] ELSE 0
  /\ IF onHandle THEN UNCHANGED <<values, handlesShown>>
     ELSE Slide(i, NormValueFromMouse(x, 0))

SliderStop ==
  /\ mouseSliding' = FALSE
  /\ handleIndex' = NoHandle /\ clickOffset' = 0
  /\ UNCHANGED values
  /\ told' = Change(keySliding, FALSE)

MouseDown(x, onHandle) ==
  /\ ~disabled
  /\ onHandle => \E h \in Handle : x - values[h] \in -1 .. 1
  /\ Capture(x, ClosestHandle(x), onHandle)
  /\ started' = TRUE
  /\ told' = IF started /\ ~keySliding THEN values ELSE told
  /\ UNCHANGED <<keySliding, disabled>>

(* The slider is disabled, or a listener of start refuses: no drag begins, *)
(* but the release that was awaited has happened.                          *)
MouseDownRefused ==
  /\ started
  /\ started' = FALSE
  /\ SliderStop
  /\ UNCHANGED <<handlesShown, keySliding, handleFocus, disabled>>

MouseDrag(x) ==
  /\ started
  /\ Slide(handleIndex, NormValueFromMouse(x, clickOffset))
  /\ UNCHANGED <<told, keySliding, mouseState, handleFocus, disabled>>

MouseUp ==
  /\ started
  /\ started' = FALSE
  /\ SliderStop
  /\ UNCHANGED <<handlesShown, keySliding, handleFocus, disabled>>

(***************************************************************************)
(* The keyboard.                                                           *)
(***************************************************************************)
NewValue(key, v) ==
  CASE key = "HOME"      -> 0
    [] key = "END"       -> Maximum
    [] key = "PAGE_UP"   -> TrimAlignValue(v + Maximum \div 5)
    [] key = "PAGE_DOWN" -> TrimAlignValue(v - Maximum \div 5)
    [] key = "RIGHT"     -> TrimAlignValue(v + Step)
    [] key = "LEFT"      -> TrimAlignValue(v - Step)

Key == {"HOME", "END", "PAGE_UP", "PAGE_DOWN", "RIGHT", "LEFT"}

(* The first key of a slide asks the listener of start.                    *)
KeyDown(key) ==
  /\ handleFocus # NoHandle /\ ~disabled
  /\ keySliding' = TRUE
  /\ Slide(handleFocus, NewValue(key, values[handleFocus]))
  /\ UNCHANGED <<told, mouseState, handleFocus, disabled>>

KeyDownRefused ==
  /\ handleFocus # NoHandle /\ ~disabled /\ ~keySliding
  /\ keySliding' = TRUE
  /\ UNCHANGED <<values, told, handlesShown, mouseState, handleFocus, disabled>>

KeyUp ==
  /\ handleFocus # NoHandle /\ keySliding
  /\ keySliding' = FALSE
  /\ UNCHANGED values
  /\ told' = Change(FALSE, mouseSliding)
  /\ UNCHANGED <<handlesShown, mouseState, handleFocus, disabled>>

Focus(f) ==
  /\ handleFocus # f /\ (disabled => f = NoHandle)
  /\ handleFocus' = f
  /\ UNCHANGED <<values, told, handlesShown, keySliding, mouseState, disabled>>

(***************************************************************************)
(* The program: values with an array, in order, and the option disabled.   *)
(***************************************************************************)
SetValues(v) ==
  /\ v[0] <= v[1]
  /\ values' = [i \in Handle |-> TrimAlignValue(v[i])]
  /\ RefreshValue
  /\ told' = Change(keySliding, mouseSliding)
  /\ UNCHANGED <<keySliding, mouseState, handleFocus, disabled>>

SetDisabled(value) ==
  /\ disabled' = value
  /\ handleFocus' = IF value THEN NoHandle ELSE handleFocus
  /\ UNCHANGED <<values, told, handlesShown, keySliding, mouseState>>

SliderNext ==
  \/ \E x \in Point : MouseDrag(x) \/ \E on \in BOOLEAN : MouseDown(x, on)
  \/ MouseDownRefused \/ MouseUp
  \/ \E key \in Key : KeyDown(key)
  \/ KeyDownRefused \/ KeyUp
  \/ \E f \in Handle \cup {NoHandle} : Focus(f)
  \/ \E v \in [Handle -> {0, Step, Maximum}] : SetValues(v)
  \/ \E b \in BOOLEAN : SetDisabled(b)

SliderSpec == SliderInit /\ [][SliderNext]_sliderVars

-----------------------------------------------------------------------------
(* The handles stand on the scale, never cross, and are where the values   *)
(* are; and once no key and no button holds one, the last change event has *)
(* told the values, however presses, keys and calls of the program mix.    *)
SliderHolds ==
  /\ \A i \in Handle : values[i] \in Scale
  /\ values[0] <= values[1]
  /\ handlesShown = values
  /\ ~keySliding /\ ~mouseSliding => told = values
  /\ started <=> mouseSliding

(* A drag has a handle.                                                    *)
SliderTypeOK ==
  /\ values \in [Handle -> Scale]
  /\ keySliding \in BOOLEAN /\ mouseSliding \in BOOLEAN /\ started \in BOOLEAN
  /\ started => handleIndex \in Handle
  /\ clickOffset \in Int
  /\ handleFocus \in Handle \cup {NoHandle}
  /\ disabled \in BOOLEAN

SliderInv == SliderTypeOK /\ SliderHolds
=============================================================================
