---------------------------- MODULE RelativeUrl ----------------------------
(***************************************************************************)
(* fluid.url of MyInfusion.js: the prefix of the outer page's resources as *)
(* the page in the sliding panel's frame must write it.                    *)
(*                                                                         *)
(* A path is the sequence of its segments; Up is "..", and a path given    *)
(* with its last slash ends in an Empty segment.  Queries, hosts and       *)
(* absolute prefixes (handed back as they are) are not represented.        *)
(***************************************************************************)
EXTENDS Integers, SequencesExt

CONSTANTS Name,      \* directory names
          Up, Empty,
          MaxDepth,  \* bound on the directories of the two pages
          MaxUp      \* bound on the steps up

VARIABLES outer,  \* directories of the outer page
          inner,  \* directories of the frame's page
          rel     \* the prefix, relative to the outer page

vars == <<outer, inner, rel>>

Dirs(n) == UNION {[1..k -> Name] : k \in 0..n}

(* Prefixes as the pages write them: steps up, names, more steps up.       *)
Init ==
  /\ outer \in Dirs(MaxDepth) /\ inner \in Dirs(MaxDepth)
  /\ \E u, v \in 0..MaxUp, d, e \in Dirs(1) :
       /\ u + v <= Len(outer) + Len(d)
       /\ u <= Len(outer)
       /\ rel = [i \in 1..u |-> Up] \o d \o [i \in 1..v |-> Up] \o e \o <<Empty>>

(* Every run of steps up goes with as many segments before it.             *)
RECURSIVE Canonicalise(_, _, _)
Canonicalise(path, i, consume) ==
  CASE i > Len(path)      -> path
    [] path[i] = Up       -> Canonicalise(path, i + 1, consume + 1)
    [] consume = 0        -> Canonicalise(path, i + 1, 0)
    [] OTHER -> Canonicalise(SubSeq(path, 1, i - 1 - 2 * consume) \o SubSeq(path, i, Len(path)),
                             i - 2 * consume + 1, 0)

CononocolosePath(path) == Canonicalise(path, 1, 0)

(* The segments two paths share from the start.                            *)
Shared(p, q) ==
  CHOOSE n \in 0..Len(p) :
    /\ n <= Len(q)
    /\ \A i \in 1..n : p[i] = q[i]
    /\ n < Len(p) => (n = Len(q) \/ p[n + 1] # q[n + 1])

GenerateDepth(n) == [i \in 1..n |-> Up]

ComputeRelativePrefix ==
  LET wanted == CononocolosePath(outer \o rel)
      seg    == Shared(wanted, inner)
  IN  GenerateDepth(Len(inner) - seg) \o SubSeq(wanted, seg + 1, Len(wanted))

(* The user opens the panel of another page.                               *)
Next ==
  /\ outer' = inner /\ inner' = outer
  /\ Len(SelectSeq(rel, LAMBDA s : s = Up)) <= Len(inner)
  /\ UNCHANGED rel

-----------------------------------------------------------------------------
(* What a browser makes of a path: a step up leaves the directory it is in *)
RECURSIVE Resolve(_, _)
Resolve(base, path) ==
  IF path = <<>> THEN base
  ELSE Resolve(CASE Head(path) = Up    -> SubSeq(base, 1, Len(base) - 1)
                 [] Head(path) = Empty -> base
                 [] OTHER              -> Append(base, Head(path)),
               Tail(path))

TypeOK == outer \in Dirs(MaxDepth) /\ inner \in Dirs(MaxDepth) /\ Last(rel) = Empty

(* The computed prefix names for the frame the directory the given one     *)
(* names for the outer page, however the two pages lie to one another.     *)
SamePlace == Resolve(inner, ComputeRelativePrefix) = Resolve(outer, rel)
=============================================================================
