----------------------------- MODULE Placement ------------------------------
(***************************************************************************)
(* Where an element is put beside another (jQuery UI's position and the    *)
(* offset it sets, MyInfusion.js), as tooltips and dialogs are.  Both axes *)
(* are treated alike: an axis has a near and a far side.  The geometry is  *)
(* that of a square page: each length serves both axes.                    *)
(***************************************************************************)
EXTENDS Integers, Sequences

CONSTANTS
  Window,    \* the size of the window
  Scrolls,   \* how far it may be scrolled
  Places,    \* where targets may begin
  Sizes,     \* sizes of elements and targets
  Margin,    \* of the element, on either side
  Offsets,   \* options.offset
  Origins    \* where the element's parent may begin

VARIABLES
  asked,     \* the options, the target and the window of the last call
  css,       \* left and top of the element
  wanted     \* the position that was computed

vars == <<asked, css, wanted>>

Axis == 1 .. 2
Near == <<"left", "top">>
Far  == <<"right", "bottom">>
Words == {"left", "right", "top", "bottom", "center"}

OnAxis(word, axis) == word \in {Near[axis], "center", Far[axis]}

(* One word serves its axis; a word of the other axis counts as center.    *)
Parsed(words) ==
  LET both == IF Len(words) = 2 THEN words
              ELSE IF OnAxis(words[1], 1) THEN <<words[1], "center">>
              ELSE <<"center", words[1]>>
  IN  [axis \in Axis |-> IF OnAxis(both[axis], axis) THEN both[axis] ELSE "center"]

Larger(a, b) == IF a < b THEN b ELSE a

(* A share of a length, doubled: all, half or nothing.                     *)
Share(word, axis, length) ==
  CASE word = Far[axis] -> 2 * length
    [] word = "center"  -> length
    [] OTHER            -> 0

Round(doubled) == (doubled + 1) \div 2

BasePosition(o, axis) ==
  Round(2 * (o.place + o.offset) + Share(o.at[axis], axis, o.target)
                                 - Share(o.my[axis], axis, o.size))

CollisionSize(o) == o.size + 2 * Margin
Over(o, at) == at - Margin + CollisionSize(o) - Window - o.scroll

(* a bug: only the right and lower borders are looked at.                  *)
FitFarBorder(o, at) == IF Over(o, at) > 0 THEN at - Over(o, at) ELSE at
Fit(o, at) == IF Over(o, at) > 0 THEN at - Over(o, at) ELSE Larger(Margin, at)

Flip(o, axis, at) ==
  LET my     == IF o.my[axis] = Near[axis] THEN -o.size
                ELSE IF o.my[axis] = Far[axis] THEN o.size ELSE 0
      beside == IF o.at[axis] = Near[axis] THEN o.target ELSE -o.target
  IN  IF o.at[axis] # "center" /\ (at - Margin < 0 \/ Over(o, at) > 0)
      THEN at + my + beside - 2 * o.offset ELSE at

Positioned(o, axis) ==
  LET at == BasePosition(o, axis)
  IN  CASE o.collision = "fit"  -> Fit(o, at)
        [] o.collision = "flip" -> Flip(o, axis, at)
        [] OTHER                -> at

(* An event as target is the point of the mouse.                           *)
Target(o) == IF o.event THEN [o EXCEPT !.at = Near, !.target = 0] ELSE o

(* setOffset adds what is missing to what the style says.                  *)
SetOffset(o, to, style) ==
  LET current == o.origin + style IN (to - current) + style

Init == asked = <<>> /\ css = [axis \in Axis |-> 0] /\ wanted = css

PutAt(o) ==
  /\ asked' = o
  /\ wanted' = [axis \in Axis |-> Positioned(o, axis)]
  /\ css' = [axis \in Axis |-> SetOffset(o, wanted'[axis], css[axis])]

Position(my, at) ==
  /\ asked = <<>>
  /\ \E place \in Places, size, target \in Sizes, offset \in Offsets, scroll \in Scrolls,
        origin \in Origins, collision \in {"fit", "flip", "none"}, event \in BOOLEAN :
       PutAt(Target([my |-> Parsed(my), at |-> Parsed(at), place |-> place, size |-> size,
                     target |-> target, offset |-> offset, scroll |-> scroll,
                     origin |-> origin, collision |-> collision, event |-> event]))

(* The target or the window moved; the style is what the last call left.   *)
PositionAgain ==
  /\ asked # <<>>
  /\ \E place \in Places, scroll \in Scrolls :
       PutAt([asked EXCEPT !.place = place, !.scroll = scroll])

Next ==
  \/ \E my, at \in {<<w>> : w \in Words} \cup {<<"left", "bottom">>, <<"right", "top">>} :
       Position(my, at)
  \/ PositionAgain

Spec == Init /\ [][Next]_vars

-----------------------------------------------------------------------------
Fits(o) == CollisionSize(o) <= Window

(* fit keeps an element that fits inside a window that is not scrolled     *)
(* (ui.position.fit).                                                      *)
FitIsInside ==
  (asked # <<>> /\ asked.collision = "fit" /\ Fits(asked) /\ asked.scroll = 0) =>
    \A axis \in Axis : /\ wanted[axis] - Margin >= 0
                       /\ wanted[axis] - Margin + CollisionSize(asked) <= Window

Mirror(word, axis) ==
  CASE word = Near[axis] -> Far[axis]
    [] word = Far[axis]  -> Near[axis]
    [] OTHER             -> word

Mirrored(o) ==
  [o EXCEPT !.my = [axis \in Axis |-> Mirror(@[axis], axis)],
            !.at = [axis \in Axis |-> Mirror(@[axis], axis)],
            !.offset = -@]

(* flip leaves an element that is inside the window and puts another where *)
(* the mirrored options would, on each axis by itself (ui.position.flip).  *)
FlipMirrors ==
  (asked # <<>> /\ asked.collision = "flip") =>
    \A axis \in Axis :
      LET at == BasePosition(asked, axis)
      IN  \/ wanted[axis] = at
          \/ /\ wanted[axis] = BasePosition(Mirrored(asked), axis)
             /\ at - Margin < 0 \/ at + asked.size + Margin > Window + asked.scroll

(* The element stands where it was computed to, whatever its style was     *)
(* (setOffset).                                                            *)
StandsThere ==
  asked # <<>> => \A axis \in Axis : asked.origin + css[axis] = wanted[axis]

PlacementHolds == FitIsInside /\ FlipMirrors /\ StandsThere
=============================================================================
