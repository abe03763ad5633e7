---------------------------- MODULE ModuleLayout -----------------------------
(***************************************************************************)
(* The reorderer over columns of modules (fluid.moduleLayoutHandler with   *)
(* fluid.dropManager, MyInfusion.js): a module moves by the keyboard or    *)
(* with the mouse to a half of another module, past an end of a column or  *)
(* into an empty column.  Locked modules start at the top of their columns *)
(* and must stay there.  Columns stand side by side, modules are stacked;  *)
(* the unit of the coordinates is a pixel.                                 *)
(***************************************************************************)
EXTENDS Integers, Sequences, SequencesExt, FiniteSetsExt

CONSTANTS
  Module,     \* the modules
  Locked,     \* those that are locked
  Height,     \* [Module -> height], multiples of 16
  Columns,    \* the number of columns
  None

VARIABLES
  page,       \* the columns of the document: for each, its modules in order
  layout,     \* the layout handler's columns
  predicted,  \* the layout when onMove was over, before the document moved
  label,      \* the label of each module: its place, and where it came from
  moved,      \* movedMap: the module moved last and its new place
  focus       \* the active module

vars == <<page, layout, predicted, label, moved, focus>>

Column == 1 .. Columns
BEFORE == "before"
AFTER  == "after"
INSIDE == "inside"
SENTINEL_DIMENSION == 10000
ColumnHeight == 64     \* of an empty column

(***************************************************************************)
(* Geometry.  A target is a rectangle of an element, with its class.       *)
(***************************************************************************)
Left(c)  == 20 * c
Right(c) == 20 * c + 16
Top(stack, j) == MapThenSumSet(LAMBDA i : Height[stack[i]], 1 .. (j - 1))

IsLocked(stack, j) == j \in DOMAIN stack /\ stack[j] \in Locked

(* A half is locked between locked modules and above the first one.        *)
RelativeClass(stack, j, other) ==
  IF IsLocked(stack, j) /\ (other = 0 \/ IsLocked(stack, other)) THEN "locked" ELSE "free"

SplitElement(c, stack, j) ==
  LET height == Height[stack[j]]
      half(position, from, to, class) ==
        [element |-> stack[j], column |-> c, position |-> position,
         top |-> Top(stack, j) + from, bottom |-> Top(stack, j) + to, class |-> class]
  IN  << half(BEFORE, 0, height \div 2, RelativeClass(stack, j, j - 1)),
         half(AFTER, height \div 2, height, RelativeClass(stack, j, j + 1)) >>

(* Beyond the ends of a column its first and last elements go on.          *)
Sentinelized(target, front) ==
  IF front THEN [target EXCEPT !.bottom = target.top + 1, !.top = -SENTINEL_DIMENSION]
  ELSE [target EXCEPT !.top = target.bottom - 1, !.bottom = SENTINEL_DIMENSION]

EmptyColumn(c) ==
  LET inside == [element |-> None, column |-> c, position |-> INSIDE,
                 top |-> 0, bottom |-> ColumnHeight, class |-> "free"]
  IN  << inside, Sentinelized(inside, TRUE), Sentinelized(inside, FALSE) >>

Targets(columns) ==
  LET Of(c, j) ==
        LET stack  == columns[c]
            halves == SplitElement(c, stack, j)
        IN  halves
            \o (IF j = 1 THEN << Sentinelized(halves[1], TRUE) >> ELSE <<>>)
            \o (IF j = Len(stack) THEN << Sentinelized(halves[2], FALSE) >> ELSE <<>>)
      Extent(c) == IF columns[c] = <<>> THEN EmptyColumn(c)
                   ELSE FlattenSeq([j \in DOMAIN columns[c] |-> Of(c, j)])
  IN  FlattenSeq([c \in Column |-> Extent(c)])

Gap(low1, high1, low2, high2) ==
  IF high1 < low2 THEN low2 - high1 ELSE IF high2 < low1 THEN low1 - high2 ELSE 0

MinPointRectangle(x, y, t) ==
  LET dx == Gap(x, x, Left(t.column), Right(t.column))
      dy == Gap(y, y, t.top, t.bottom)
  IN  dx * dx + dy * dy

(* The nearest target that is not locked, the first of equals.             *)
ClosestTarget(x, y) ==
  LET free    == SelectSeq(Targets(page), LAMBDA t : t.class # "locked")
      nearest == Min({MinPointRectangle(x, y, free[i]) : i \in DOMAIN free})
  IN  free[SelectInSeq(free, LAMBDA t : MinPointRectangle(x, y, t) = nearest)]

(***************************************************************************)
(* projectFrom: a pen of the upper part of the module, drawn across the    *)
(* page; the targets on the way, or else those behind.                     *)
(***************************************************************************)
FindColumn(columns, m) == CHOOSE c \in Column : m \in ToSet(columns[c])
IndexIn(stack, m) == SelectInSeq(stack, LAMBDA x : x = m)

PenDistance(m, t) ==
  LET stack == page[FindColumn(page, m)]
      top   == Top(stack, IndexIn(stack, m))
  IN  Gap(top + (Height[m] \div 8), top + (3 * Height[m]) \div 8, t.top, t.bottom)

Ahead(m, t, dir) ==
  LET c == FindColumn(page, m)
  IN  IF dir = "right" THEN Left(t.column) - Right(c) ELSE Left(c) - Right(t.column)

Pens(m, dir) ==
  LET free == SelectSeq(Targets(page), LAMBDA t : t.class # "locked")
      PenOf(t) == [far |-> PenDistance(m, t), ahead |-> Ahead(m, t, dir), target |-> t]
  IN  [i \in DOMAIN free |-> PenOf(free[i])]

(* accPen: the later of equals replaces the earlier; behind, the farthest  *)
(* column comes first.                                                     *)
AccPen(backSign, found, pen) ==
  IF pen.ahead >= 0 /\ (\/ found = None
                        \/ pen.far < found.far
                        \/ /\ pen.far = found.far
                           /\ backSign * pen.ahead <= backSign * found.ahead)
  THEN pen ELSE found

(* Behind only if that is nearer than what is on the way.                  *)
WrapTo(on, back) ==
  IF on = None \/ (back # None /\ back.far < on.far) THEN back ELSE on

GeomProjectFrom(m, dir) ==
  LET Opposite == IF dir = "right" THEN "left" ELSE "right"
  IN  WrapTo(FoldLeft(LAMBDA found, pen : AccPen(1, found, pen), None, Pens(m, dir)),
             FoldLeft(LAMBDA found, pen : AccPen(-1, found, pen), None, Pens(m, Opposite)))

(* dropManager.projectFrom: a half or an empty column, if there is any.    *)
ProjectFrom(m, dir) ==
  LET found == GeomProjectFrom(m, dir)
  IN  IF found = None THEN None ELSE found.target

(***************************************************************************)
(* Up and down go round the movable modules of the column, but not past a  *)
(* locked one.                                                             *)
(***************************************************************************)
RelativeElement(stack, m, dir) ==
  LET n == Len(stack)
      i == IndexIn(stack, m)
  IN  stack[IF dir = "up" THEN (IF i = 1 THEN n ELSE i - 1) ELSE (IF i = n THEN 1 ELSE i + 1)]

LogicalFrom(stack, m, dir) ==
  [element |-> RelativeElement(SelectSeq(stack, LAMBDA x : x \notin Locked), m, dir),
   position |-> IF dir = "up" THEN BEFORE ELSE AFTER]

LockedWrapFrom(stack, m, dir) ==
  IF Head(stack) \in Locked /\ RelativeElement(stack, m, dir) \in Locked THEN None
  ELSE LogicalFrom(stack, m, dir)

(***************************************************************************)
(* Moving.  The layout handler's onMove comes last of its listeners; the   *)
(* document follows; the refresh reads the layout from the document.       *)
(***************************************************************************)
UpdateLayout(columns, m, at) ==
  LET short == [columns EXCEPT ![FindColumn(columns, m)] = Remove(@, m)]
  IN  IF at.position = INSIDE
      THEN [short EXCEPT ![at.column] = Append(@, m)]
      ELSE LET c == FindColumn(short, at.element)
               i == IndexIn(short[c], at.element)
           IN  [short EXCEPT ![c] = InsertAt(@, IF at.position = BEFORE THEN i ELSE i + 1, m)]

(* permuteDom: to the target; nothing moves when the element is there.     *)
GeometricMove(columns, m, at) ==
  LET from == columns[FindColumn(columns, m)]
      next == IF at.position = BEFORE THEN -1 ELSE 1
      there == /\ at.position # INSIDE
               /\ at.element \in ToSet(from)
               /\ IndexIn(from, at.element) + next = IndexIn(from, m)
  IN  IF there THEN columns ELSE UpdateLayout(columns, m, at)

(* The label counts from one.                                              *)
RenderLabel(columns, m) ==
  LET c == FindColumn(columns, m)
  IN  [index |-> IndexIn(columns[c], m), length |-> Len(columns[c]), column |-> c]

(* When the focus leaves the moved module its label stops telling where it *)
(* came from.                                                              *)
FocusOut(labels) ==
  IF moved # None /\ moved.module = focus
  THEN [labels EXCEPT ![focus] = [place |-> moved.place, from |-> None]] ELSE labels

(* onMove: the labeller keeps the old place, the layout handler comes last *)
(* and updates its columns.  The document follows, and the refresh reads   *)
(* the layout from it and draws every label.                               *)
RequestMovement(m, at) ==
  /\ at.element # m
  /\ predicted' = UpdateLayout(layout, m, at)
  /\ page' = GeometricMove(page, m, at)
  /\ layout' = page'
  /\ moved' = [module |-> m, place |-> RenderLabel(layout', m)]
  /\ label' = [x \in Module |-> [place |-> RenderLabel(layout', x),
                                 from |-> IF x = m THEN RenderLabel(layout, m) ELSE None]]
  /\ focus' = m

Init ==
  /\ \E home \in Column :
       page = [c \in Column |-> IF c = home THEN SetToSeq(Locked) \o SetToSeq(Module \ Locked)
                               ELSE <<>>]
  /\ layout = page /\ predicted = page
  /\ label = [m \in Module |-> [place |-> RenderLabel(page, m), from |-> None]]
  /\ moved = None
  /\ focus = None

Select(m) ==
  /\ focus # m
  /\ focus' = m
  /\ label' = FocusOut(label)
  /\ moved' = IF moved # None /\ moved.module = focus THEN None ELSE moved
  /\ UNCHANGED <<page, layout, predicted>>

(* Ctrl with an arrow, on a module that may move.                          *)
IsActiveItemMovable == focus \in Module \ Locked

KeyAlong(dir) ==
  /\ IsActiveItemMovable
  /\ \E at \in {LockedWrapFrom(page[FindColumn(page, focus)], focus, dir)} \ {None} :
       RequestMovement(focus, at)

KeyAcross(dir) ==
  /\ IsActiveItemMovable
  /\ \E at \in {ProjectFrom(focus, dir)} \ {None} : RequestMovement(focus, at)

Drop(m, x, y) ==
  /\ m \notin Locked
  /\ \E at \in {ClosestTarget(x, y)} : RequestMovement(m, at)

Next ==
  \/ \E m \in Module : Select(m)
  \/ \E dir \in {"up", "down"} : KeyAlong(dir)
  \/ \E dir \in {"left", "right"} : KeyAcross(dir)
  \/ \E m \in Module, c \in Column, y \in {8 * k : k \in -1 .. 10} : Drop(m, Left(c) + 8, y)

Spec == Init /\ [][Next]_vars

-----------------------------------------------------------------------------
(* The types of the variables.                                             *)
TypeOK ==
  /\ {page, layout, predicted} \subseteq [Column -> Seq(Module)]
  /\ focus \in Module \cup {None}

(* What the handler computes for a move is what the move makes of the      *)
(* document, so labels and later moves rest on the real columns            *)
(* (updateLayout removes the module before it looks for its target).       *)
LayoutFollows == predicted = page

(* No module is lost, doubled or left in two columns.                      *)
EachOnce ==
  /\ \A m \in Module : Cardinality({c \in Column : m \in ToSet(page[c])}) = 1
  /\ \A c \in Column : IsInjective(page[c])

(* No key and no drop puts a module above a locked one                     *)
(* (getRelativeClass, lockedWrapFrom).                                     *)
LockedStayOnTop ==
  \A c \in Column : \A i, j \in DOMAIN page[c] :
    (i < j /\ page[c][j] \in Locked) => page[c][i] \in Locked

(* Every label tells the module's place, and only the module that was      *)
(* moved last and still has the focus tells where it came from.            *)
LabelsAgree ==
  \A m \in Module : /\ label[m].place = RenderLabel(page, m)
                    /\ label[m].from # None => (moved # None /\ m = focus)

LayoutHolds == LayoutFollows /\ EachOnce /\ LockedStayOnTop /\ LabelsAgree
=============================================================================
