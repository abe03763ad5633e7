------------------------------- MODULE Sizzle -------------------------------
(***************************************************************************)
(* The selector engine of MyInfusion.js (jQuery.find): a chain of simple   *)
(* selectors is matched from right to left.  The elements that match the   *)
(* last one are the set; for each, checkSet holds one element that matched *)
(* the part looked at so far, and each combinator moves it on.  A walk     *)
(* along an axis marks the nodes it passes, so that the next one stops     *)
(* where an earlier walk has been.                                         *)
(*                                                                         *)
(* The document is a tree of elements, numbered in document order.  A name *)
(* is tested as a tag, or as a class through Sizzle.filter.  Positions     *)
(* (:first, :eq), XML and the parsing of selectors are not represented.    *)
(***************************************************************************)
EXTENDS Integers, Sequences, FiniteSets, SequencesExt

CONSTANTS
  N,         \* the elements are 1 .. N, the document is 0
  Name,      \* tag names, which are the class names, too
  MaxParts   \* bound: simple selectors in a chain

VARIABLES
  parent, name, withId,      \* the document, and the element with an id
  query,                     \* [chain, joins, lead, context, extra, seed]
  set, checkSet,
  todo,                      \* parts still to look at
  results,
  phase

vars == <<parent, name, withId, query, set, checkSet, todo, results, phase>>

Node == 1 .. N
No   == 0         \* false in checkSet
Yes  == -1        \* true in checkSet: the context itself was reached
Join == {" ", ">", "+", "~"}

(***************************************************************************)
(* The document.                                                           *)
(***************************************************************************)
Trees ==
  LET Up(p) == LET up[n \in 0 .. N] == IF n = 0 THEN {0} ELSE {n} \cup up[p[n]] IN up
  IN  {p \in [Node -> 0 .. N - 1] :
         /\ p[1] = 0
         /\ \A n \in 2 .. N : p[n] \in 1 .. n - 1
         /\ \A n \in 2 .. N : p[n] \in Up(p)[n - 1]}

PreviousSibling(n) ==
  LET before == {m \in 1 .. n - 1 : parent[m] = parent[n]}
  IN  IF before = {} THEN 0 ELSE CHOOSE m \in before : \A k \in before : k <= m

Dir(axis, n) == IF axis = "parentNode" THEN parent[n] ELSE PreviousSibling(n)

(* jQuery.dir: the elements along an axis, the nearest first.              *)
Walk(axis) ==
  LET w[n \in 0 .. N] == IF n = 0 \/ Dir(axis, n) = 0 THEN <<>>
                         ELSE <<Dir(axis, n)>> \o w[Dir(axis, n)]
  IN  w

Inside(a, b) == a # b /\ (a = 0 \/ a \in ToSet(Walk("parentNode")[b]))

(***************************************************************************)
(* Sizzle.find, with its short cut for the neighbours of the context, and  *)
(* Sizzle.filter over a list of candidates.                                *)
(***************************************************************************)
Filter(part, list) == SelectSeq(list, LAMBDA n : name[n] = part)

Find(part, context) ==
  Filter(part, SelectSeq([n \in Node |-> n], LAMBDA n : Inside(context, n)))

Scope(q) ==
  IF Len(q.chain) = 1 /\ q.lead \in {"+", "~"} THEN parent[q.context] ELSE q.context

(* filter in place: what does not match becomes false.                     *)
FilterInPlace(part, list) ==
  [i \in DOMAIN list |-> IF list[i] # 0 /\ name[list[i]] = part THEN list[i] ELSE No]

(***************************************************************************)
(* Expr.relative.                                                          *)
(***************************************************************************)
Next_(axis, list) ==
  [i \in DOMAIN list |-> IF list[i] = No THEN No ELSE Dir(axis, list[i])]

(* "+" and ">": one step along the axis, to an element or to the context.  *)
Near(axis, list, target) ==
  IF target.isContext
  THEN [i \in DOMAIN list |->
          IF list[i] # No /\ Dir(axis, list[i]) = target.part THEN Yes ELSE No]
  ELSE FilterInPlace(target.part, Next_(axis, list))

(* dirCheck and dirNodeCheck: the nearest match along the axis.  mark      *)
(* holds, for a node some walk has passed, the index of that walk.         *)
Reached(target, n) ==
  IF target.isContext THEN n = target.part ELSE name[n] = target.part

DirCheck(axis, list, target) ==
  LET OneWalk(s, i) ==
        LET way   == IF s.list[i] = No THEN <<>> ELSE Walk(axis)[s.list[i]]
            stops == {j \in DOMAIN way : s.mark[way[j]] # 0 \/ Reached(target, way[j])}
            at    == CHOOSE j \in stops : \A k \in stops : j <= k
            seen  == IF stops = {} THEN ToSet(way) ELSE {way[j] : j \in 1 .. at}
            match == CASE stops = {}            -> No
                       [] s.mark[way[at]] # 0   -> s.list[s.mark[way[at]]]
                       [] target.isContext      -> Yes
                       [] OTHER                 -> way[at]
        IN  [list |-> [s.list EXCEPT ![i] = match],
             mark |-> [n \in Node |-> IF n \in seen /\ s.mark[n] = 0 THEN i
                                      ELSE s.mark[n]]]
  IN  FoldLeft(OneWalk, [list |-> list, mark |-> [n \in Node |-> 0]],
               [i \in DOMAIN list |-> i]).list

Relative(join, list, target) ==
  CASE join = "+" -> Near("previousSibling", list, target)
    [] join = ">" -> Near("parentNode", list, target)
    [] join = " " -> DirCheck("parentNode", list, target)
    [] join = "~" -> DirCheck("previousSibling", list, target)

(***************************************************************************)
(* A query.  An id at the start narrows the context, unless candidates are *)
(* given, and makes a leading combinator: the longest chains that begin    *)
(* with one are made in this way only.                                     *)
(***************************************************************************)
Queries ==
  {q \in [chain   : UNION {[1 .. k -> Name] : k \in 1 .. MaxParts},
          joins   : UNION {[1 .. k -> Join] : k \in 0 .. MaxParts - 1},
          lead    : Join \cup {"none"},
          context : 0 .. N,
          extra   : Name \cup {"none"},
          seed    : BOOLEAN] :
     /\ Len(q.joins) = Len(q.chain) - 1
     /\ q.lead # "none" => q.context # 0 /\ ~q.seed /\ Len(q.chain) < MaxParts
     /\ q.seed => q.context = 0
     /\ q.extra # "none" => Len(q.chain) = 1 \/ (q.lead = "none" /\ q.context = 0)}

IdShortCut(id, join, q) == [q EXCEPT !.context = id, !.lead = join]

(* The names are alike: the first element has the same one always.         *)
Init ==
  /\ parent \in Trees
  /\ name \in [Node -> Name] /\ name[1] = CHOOSE n \in Name : TRUE
  /\ withId = 2
  /\ query \in Queries
  /\ set = <<>> /\ checkSet = <<>> /\ todo = 0 /\ results = <<>>
  /\ phase = "begin"

Begin ==
  /\ phase = "begin"
  /\ \/ UNCHANGED query
     \/ \E join \in Join :     \* the chain follows #id
          /\ query.context = 0 /\ ~query.seed
          /\ query.extra = "none"
          /\ query' = IdShortCut(withId, join, query)
  /\ LET last == query.chain[Len(query.chain)]
     IN  /\ set' = IF query.seed THEN Filter(last, [n \in Node |-> n])
                   ELSE Find(last, Scope(query'))
         /\ checkSet' = set'
  /\ todo' = Len(query.chain) - 1
  /\ phase' = "match"
  /\ UNCHANGED <<parent, name, withId, results>>

Match ==
  /\ phase = "match" /\ todo > 0
  /\ checkSet' = Relative(query.joins[todo], checkSet,
                          [isContext |-> FALSE, part |-> query.chain[todo]])
  /\ todo' = todo - 1
  /\ UNCHANGED <<parent, name, withId, query, set, results, phase>>

(* The chain began with a combinator: the context ends it.                 *)
Anchored ==
  IF query.lead = "none" THEN checkSet
  ELSE Relative(query.lead, checkSet, [isContext |-> TRUE, part |-> query.context])

(* Pruning: what has reached the context or an element inside it stays.    *)
Pruned(checked) ==
  LET kept == SelectSeq([i \in DOMAIN set |-> i], LAMBDA i :
                checked[i] = Yes \/ (checked[i] # No /\ Inside(query.context, checked[i])))
  IN  [j \in DOMAIN kept |-> set[kept[j]]]

(* sortOrder, where the browser does not compare positions: the ancestors  *)
(* of two elements are followed down from the document to where they part. *)
SiblingCheck(a, b, same) == IF a = b THEN same ELSE IF a < b THEN -1 ELSE 1

SortOrder(a, b) ==
  LET Up(n)  == <<0>> \o Reverse(Walk("parentNode")[n])
      ap     == Up(a)
      bp     == Up(b)
      parted == {i \in DOMAIN ap \cap DOMAIN bp : ap[i] # bp[i]}
      at     == CHOOSE i \in parted : \A j \in parted : i <= j
  IN  CASE a = b                 -> 0
        [] parent[a] = parent[b] -> SiblingCheck(a, b, 0)
        [] OTHER -> IF parted # {} THEN SiblingCheck(ap[at], bp[at], 0)
                    ELSE IF Len(ap) <= Len(bp) THEN SiblingCheck(a, bp[Len(ap) + 1], -1)
                    ELSE SiblingCheck(ap[Len(bp) + 1], b, 1)

UniqueSort(list) == SetToSortSeq(ToSet(list), LAMBDA a, b : SortOrder(a, b) < 0)

Finish ==
  /\ phase = "match" /\ todo = 0
  /\ LET found == IF Len(query.chain) = 1 /\ query.lead = "none" THEN set
                  ELSE Pruned(Anchored)
     IN  results' = IF query.extra = "none" THEN found
                    ELSE UniqueSort(found \o
                           (IF query.seed THEN Filter(query.extra, [n \in Node |-> n])
                            ELSE Find(query.extra, query.context)))
  /\ phase' = "end"
  /\ UNCHANGED <<parent, name, withId, query, set, checkSet, todo>>

Next == Begin \/ Match \/ Finish

Spec == Init /\ [][Next]_vars

-----------------------------------------------------------------------------
(* The lists are lists of elements, of the same length while they match.   *)
TypeOK ==
  /\ set \in Seq(Node) /\ results \in Seq(Node)
  /\ checkSet \in Seq(Node \cup {No, Yes})
  /\ Len(checkSet) = Len(set)

(* What the selector means: some elements stand for the parts of the chain *)
(* and every neighbouring pair is in the relation of its combinator.       *)
Related(join, a, b) ==
  CASE join = " " -> Inside(a, b)
    [] join = ">" -> parent[b] = a
    [] join = "+" -> PreviousSibling(b) = a
    [] join = "~" -> a \in ToSet(Walk("previousSibling")[b])

Meant(q) ==
  {m[Len(q.chain)] : m \in {m \in [DOMAIN q.chain -> Node] :
     /\ \A i \in DOMAIN q.chain : name[m[i]] = q.chain[i]
     /\ \A i \in DOMAIN q.joins : Related(q.joins[i], m[i], m[i + 1])
     /\ IF q.lead = "none" THEN Inside(q.context, m[1])
        ELSE Related(q.lead, q.context, m[1])}}

Extra(q) ==
  IF q.extra = "none" THEN {}
  ELSE {n \in Node : name[n] = q.extra /\ Inside(q.context, n)}

(* checkSet keeps the nearest match only.  That loses nothing as long as   *)
(* only " " stands left of a " ", no "+" stands left of a "~" without a    *)
(* ">" between them, and a chain that starts beside its context is short.  *)
Forgiving(q) ==
  LET all == IF q.lead = "none" THEN q.joins ELSE <<q.lead>> \o q.joins
  IN  /\ \A i, j \in DOMAIN all : i < j =>
           /\ all[j] = " " => all[i] = " "
           /\ all[j] = "~" /\ all[i] = "+" => \E k \in i + 1 .. j - 1 : all[k] = ">"
      /\ q.lead \in {"+", "~"} => Len(q.chain) = 1

(* Matching from right to left, with its marks and short cuts, selects no  *)
(* element the selector does not mean, and every one it means if the chain *)
(* is forgiving; the elements come in document order, each once.           *)
SelectsWhatIsMeant ==
  phase = "end" =>
    /\ ToSet(results) \subseteq Meant(query) \cup Extra(query)
    /\ Forgiving(query) => Meant(query) \cup Extra(query) \subseteq ToSet(results)
    /\ \A i, j \in DOMAIN results : i < j => results[i] < results[j]
=============================================================================
