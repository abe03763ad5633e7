----------------------------- MODULE Draggable -----------------------------
(***************************************************************************)
(* Dragging an element with the mouse (ui.mouse and ui.draggable of        *)
(* MyInfusion.js), as the rows of the services page are dragged: press,    *)
(* move, drop, with or without a clone, a grid, a containment, a neighbour *)
(* to snap to and a way back.                                              *)
(*                                                                         *)
(* One coordinate stands for both, in pixels of the document.  No          *)
(* droppable is part of the file, so nothing ever counts as dropped.  The  *)
(* start and stop handlers of the page may refuse.  Not represented: the   *)
(* delay (Slider has it), scrolling, and destroying a dragged element.     *)
(***************************************************************************)
EXTENDS Integers

CONSTANTS Length,     \* the pointer is in 0..Length
          Width,      \* of the element and of its neighbour
          Low, High,  \* containment of the element's edge
          Grid,       \* the grid's step
          Neighbour,  \* the edge of the element to snap to
          Tolerance,  \* snapTolerance
          Unplaced

ASSUME DragAssumption ==
  /\ Length \in Int /\ Width \in Int /\ Low \in Int /\ High \in Int /\ Low <= High
  /\ Grid \in Nat \ {0} /\ Neighbour \in Int /\ Tolerance \in Int
  /\ Unplaced \notin Int /\ Unplaced # "auto" /\ Unplaced # "move"

VARIABLES
  opt,       \* [clone, grid, contained, snap, revert]
  phase,     \* "idle", "pressed", "dragging", "reverting" or "kept"
  edge,      \* the edge of the element
  helper,    \* the edge of what is dragged, or Unplaced
  press,     \* where the button went down
  click,     \* offset.click: the pointer within the element
  original,  \* originalPosition, of this drag or still of the last
  originalPage, containment,
  snapping,  \* the neighbour is being snapped to
  cursor,    \* of the page
  saved,     \* options._cursor
  swallow,   \* preventClickEvent
  from,      \* history: the edge when the drag began
  back,      \* history: the last drag was reverted
  refused    \* history: a start handler refused

dragVars == <<opt, phase, edge, helper, press, click, original, originalPage,
          containment, snapping, cursor, saved, swallow, from, back, refused>>

Page == 0..Length

Option == [clone : BOOLEAN, grid : BOOLEAN, contained : BOOLEAN,
           snap : {"no", "outer", "inner", "both"}, revert : BOOLEAN]

DragInit ==
  /\ opt \in Option
  /\ phase = "idle" /\ edge = Low
  /\ helper = Unplaced /\ press = Unplaced /\ click = 0
  /\ original = Unplaced /\ originalPage = Unplaced /\ containment = FALSE
  /\ snapping = FALSE
  /\ cursor = "auto" /\ saved = Unplaced /\ swallow = FALSE
  /\ from = Low /\ back = FALSE /\ refused = FALSE

(***************************************************************************)
(* Where a pointer at page puts the helper.  A grid step that leaves the   *)
(* containment is taken back.  The first drag has no original position and *)
(* is not adjusted when it starts; a later one is adjusted by what the     *)
(* drag before it left.                                                    *)
(***************************************************************************)
Contain(page, offset, inside) ==
  CASE inside /\ page - offset < Low  -> Low + offset
    [] inside /\ page - offset > High -> High + offset
    [] OTHER                          -> page

Round(n) == ((2 * n + Grid) \div (2 * Grid)) * Grid

OnGrid(page, offset, start, inside) ==
  LET to == start + Round(page - start)
  IN  CASE inside /\ to - offset < Low  -> to + Grid
        [] inside /\ to - offset > High -> to - Grid
        [] OTHER                        -> to

GeneratePosition(page, offset, first, start, inside) ==
  IF first = Unplaced THEN page - offset
  ELSE LET p == Contain(page, offset, inside)
       IN  (IF opt.grid THEN OnGrid(p, offset, start, inside) ELSE p) - offset

(***************************************************************************)
(* The snap plug-in: the edges of the helper against the neighbour's, the  *)
(* later test overriding the earlier.                                      *)
(***************************************************************************)
Abs(n) == IF n < 0 THEN -n ELSE n

Close(a, b) == Abs(a - b) <= Tolerance

Beside(x) == \E side \in {x, x + Width} :
               Neighbour - Tolerance < side /\ side < Neighbour + Width + Tolerance

Outer(x) ==
  CASE opt.snap = "inner"           -> x
    [] Close(Neighbour + Width, x)  -> Neighbour + Width
    [] Close(Neighbour, x + Width)  -> Neighbour - Width
    [] OTHER                        -> x

Inner(x) ==
  IF opt.snap # "outer" /\ (Close(Neighbour, x) \/ Close(Neighbour + Width, x + Width))
  THEN Neighbour ELSE Outer(x)

Snap(x) == IF opt.snap = "no" \/ ~Beside(x) THEN x ELSE Inner(x)

(***************************************************************************)
(* The mouse.                                                              *)
(***************************************************************************)
Place(x) == /\ helper' = x
            /\ edge' = IF opt.clone THEN edge ELSE x

(* _mouseCapture refuses while there is a helper.                          *)
Press(offset) ==
  /\ phase = "idle" /\ helper = Unplaced /\ edge + offset \in Page
  /\ phase' = "pressed"
  /\ press' = edge + offset /\ click' = offset
  /\ swallow' = FALSE
  /\ UNCHANGED <<opt, edge, helper, original, originalPage, containment, snapping,
                 cursor, saved, from, back, refused>>

(* _mouseStart, from where the button went down.                           *)
Started ==
  /\ original' = GeneratePosition(press, click, original, originalPage, containment)
  /\ originalPage' = press
  /\ containment' = (containment \/ opt.contained)
  /\ from' = edge /\ back' = FALSE
  /\ saved' = cursor

DragTo(page) ==
  LET x == GeneratePosition(page, click, original', originalPage', containment')
  IN  Place(Snap(x)) /\ snapping' = (opt.snap # "no" /\ Snap(x) # x)

DragStarts(page) ==
  /\ phase = "pressed" /\ Abs(page - press) >= 1
  /\ Started
  /\ phase' = "dragging" /\ cursor' = "move"
  /\ DragTo(page)
  /\ UNCHANGED <<opt, press, click, swallow, refused>>

(* The start handler refuses: the plug-ins have started, none is stopped.  *)
DragRefused(page) ==
  /\ phase = "pressed" /\ Abs(page - press) >= 1
  /\ Started
  /\ phase' = "idle" /\ cursor' = "move" /\ refused' = TRUE
  /\ UNCHANGED <<opt, edge, helper, press, click, snapping, swallow>>

Drag(page) ==
  /\ phase = "dragging"
  /\ UNCHANGED <<original, originalPage, containment>>
  /\ DragTo(page)
  /\ UNCHANGED <<opt, phase, press, click, cursor, saved, swallow, from, back, refused>>

ReleasePressed ==
  /\ phase = "pressed"
  /\ phase' = "idle"
  /\ UNCHANGED <<opt, edge, helper, press, click, original, originalPage, containment,
                 snapping, cursor, saved, swallow, from, back, refused>>

(* Telling stop restores the cursor; a handler that refuses keeps the      *)
(* helper.                                                                 *)
Stopped(refuses) ==
  /\ cursor' = saved
  /\ phase' = IF refuses THEN "kept" ELSE "idle"
  /\ helper' = IF refuses THEN helper ELSE Unplaced

Release(refuses, same) ==
  /\ phase = "dragging"
  /\ swallow' = same
  /\ IF opt.revert
     THEN phase' = "reverting" /\ UNCHANGED <<helper, cursor>>
     ELSE Stopped(refuses)
  /\ UNCHANGED <<opt, edge, press, click, original, originalPage, containment,
                 snapping, saved, from, back, refused>>

(* The animation takes the helper to the original position.                *)
Reverted(refuses) ==
  /\ phase = "reverting"
  /\ Stopped(refuses)
  /\ edge' = IF opt.clone THEN edge ELSE original
  /\ back' = TRUE
  /\ UNCHANGED <<opt, press, click, original, originalPage, containment, snapping,
                 saved, swallow, from, refused>>

(* The click the browser sends after the button is up.                     *)
Click ==
  /\ phase \in {"idle", "reverting"} /\ swallow
  /\ swallow' = FALSE
  /\ UNCHANGED <<opt, phase, edge, helper, press, click, original, originalPage,
                 containment, snapping, cursor, saved, from, back, refused>>

DragNext ==
  \/ \E offset \in 0..(Width - 1) : Press(offset)
  \/ \E page \in Page : DragStarts(page) \/ DragRefused(page) \/ Drag(page)
  \/ ReleasePressed \/ Click
  \/ \E refuses \in BOOLEAN :
       \/ Reverted(refuses)
       \/ \E same \in BOOLEAN : Release(refuses, same)

DragSpec == DragInit /\ [][DragNext]_dragVars

-----------------------------------------------------------------------------
DragTypeOK ==
  /\ opt \in Option
  /\ phase \in {"idle", "pressed", "dragging", "reverting", "kept"}
  /\ edge \in Int /\ click \in Int /\ from \in Int
  /\ helper \in Int \cup {Unplaced} /\ press \in Int \cup {Unplaced}
  /\ original \in Int \cup {Unplaced} /\ originalPage \in Int \cup {Unplaced}
  /\ containment \in BOOLEAN /\ snapping \in BOOLEAN /\ swallow \in BOOLEAN
  /\ back \in BOOLEAN /\ refused \in BOOLEAN
  /\ cursor \in {"auto", "move"} /\ saved \in {"auto", "move", Unplaced}

(* When no drag is under way nothing of it is left: no helper, and the     *)
(* page has its cursor again unless a start handler refused.               *)
NothingLeft ==
  phase \in {"idle", "pressed"} => helper = Unplaced /\ (~refused => cursor = "auto")

(* The containment has room for a step of the grid.                        *)
Fits == opt.grid => High - Low >= Grid - 1

(* What is dragged stays inside a containment that it fits while no        *)
(* neighbour pulls it, and a grid is kept however the containment cuts it. *)
StaysInside ==
  (phase = "dragging" /\ opt.snap = "no") =>
    /\ opt.contained /\ Fits => helper \in Low..High
    /\ opt.grid => (helper - from) % Grid = 0

(* An element that is brought back is where it was, the second time too.   *)
(* With a grid the second drag begins from the grid of the first.          *)
ComesBack == (back /\ phase = "idle" /\ ~opt.grid) => edge = from

DragHolds == NothingLeft /\ StaysInside /\ ComesBack

(* What makes it inductive: a drag is measured from where it began and     *)
(* knows its containment, what an earlier drag left is a position, and an  *)
(* element that is always brought back is always inside.                   *)
UnderWay ==
  /\ phase = "pressed" => press = edge + click /\ (back /\ ~opt.grid => edge = from)
  /\ phase \in {"dragging", "reverting"} =>
       /\ original # Unplaced /\ originalPage = from + click /\ saved # Unplaced /\ ~back
       /\ opt.contained => containment
       /\ ~refused => saved = "auto"
  /\ phase = "reverting" => opt.revert

Remembered ==
  /\ original # Unplaced => originalPage # Unplaced
  /\ containment => opt.contained

WayBack ==
  opt.revert /\ ~opt.grid =>
    /\ phase \in {"idle", "pressed"} => edge \in Low..High
    /\ phase \in {"dragging", "reverting"} =>
         /\ from \in Low..High /\ original = from
         /\ opt.clone => edge = from

DragInv == DragTypeOK /\ DragHolds /\ UnderWay /\ Remembered /\ WayBack
=============================================================================
