------------------------------ MODULE Headings ------------------------------
(***************************************************************************)
(* The table of contents of MyInfusion.js: the page's visible headings in  *)
(* their order become a tree of entries, gradually (a heading that skips   *)
(* levels moves up) or with empty entries for the levels skipped.          *)
(*                                                                         *)
(* Texts and anchors are the heading's position.  An entry is a record of  *)
(* its level, the position of its heading (0 for an empty entry) and the   *)
(* entries below it.                                                       *)
(***************************************************************************)
EXTENDS Naturals, SequencesExt

CONSTANTS Level,       \* 1..k, from H1 on
          MaxHeadings  \* bound on the headings of the page

VARIABLES headings, gradual

vars == <<headings, gradual>>

HeadingObject(i) == [level |-> headings[i], heading |-> i, below |-> <<>>]

ConvertToHeadingObjects == [i \in DOMAIN headings |-> HeadingObject(i)]

GradualModelLevel(sub) == [sub EXCEPT ![1].level = @ - 1]

SkippedModelLevel(sub) == <<[level |-> 0, heading |-> 0, below |-> sub]>>

ModelLevelFn(sub) == IF gradual THEN GradualModelLevel(sub) ELSE SkippedModelLevel(sub)

(* The entries of a level and the headings left over.  Headings that are   *)
(* deeper become the entries below the last entry, or this level's own.    *)
RECURSIVE BuildModelLevel(_, _, _)
BuildModelLevel(entries, left, level) ==
  IF left = <<>> \/ (left # <<>> /\ Head(left).level < level)
  THEN [entries |-> entries, left |-> left]
  ELSE IF Head(left).level = level
       THEN BuildModelLevel(Append(entries, Head(left)), Tail(left), level)
       ELSE LET sub == BuildModelLevel(<<>>, left, level + 1)
            IN  BuildModelLevel(IF entries # <<>>
                                THEN [entries EXCEPT ![Len(entries)].below = sub.entries]
                                ELSE ModelLevelFn(sub.entries),
                                sub.left, level)

ToModel == BuildModelLevel(<<>>, ConvertToHeadingObjects, 1).entries

(* The list that is drawn: every entry with a level is a link, an empty    *)
(* one has no bullet.  above is the heading of the entry it is drawn in.   *)
RECURSIVE GenerateTree(_, _, _)
GenerateTree(entries, currentLevel, above) ==
  FlattenSeq([i \in DOMAIN entries |->
    LET e == entries[i]
    IN  (IF e.level = 0 THEN <<>>
         ELSE <<[link |-> e.heading, depth |-> currentLevel, above |-> above]>>)
        \o GenerateTree(e.below, currentLevel + 1,
                        IF e.level = 0 THEN above ELSE e.heading)])

ProduceTree == GenerateTree(ToModel, 1, 0)

Init == headings = <<>> /\ gradual \in BOOLEAN

Next ==
  /\ Len(headings) < MaxHeadings
  /\ \E level \in Level : headings' = Append(headings, level)
  /\ UNCHANGED gradual

-----------------------------------------------------------------------------
TypeOK == headings \in Seq(Level) /\ gradual \in BOOLEAN

(* Every heading has exactly one link, in the page's order, whatever       *)
(* levels are skipped or come back.                                        *)
AllLinked ==
  LET tree == ProduceTree
  IN  [i \in DOMAIN tree |-> tree[i].link] = [i \in DOMAIN headings |-> i]

(* A link is drawn under the nearest heading before it that is higher, and *)
(* no deeper than its level; exactly as deep when skipped levels are kept. *)
Nearest(i) ==
  LET higher == {j \in 1..(i - 1) : headings[j] < headings[i]}
  IN  IF higher = {} THEN 0 ELSE CHOOSE j \in higher : \A k \in higher : k <= j

NestsUnderNearest ==
  LET tree == ProduceTree
  IN  \A i \in DOMAIN tree :
        /\ tree[i].above = Nearest(tree[i].link)
        /\ tree[i].depth <= headings[tree[i].link]
        /\ ~gradual => tree[i].depth = headings[tree[i].link]

ContentsHold == AllLinked /\ NestsUnderNearest
=============================================================================
