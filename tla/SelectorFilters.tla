--------------------------- MODULE SelectorFilters ---------------------------
(***************************************************************************)
(* Sizzle.filter of MyInfusion.js: the filters of a simple selector        *)
(* (.class, :first-child, :nth-child(an+b), :first, :eq(i), :not(...)) are *)
(* taken one at a time and each is run over the list the ones before it    *)
(* left.  :nth-child writes the index of every child into the document and *)
(* signs the parent with a number, so as not to count again for the next   *)
(* child.  A position in a longer selector goes through posProcess.        *)
(*                                                                         *)
(* The document has two boxes with children; a query, a change of the      *)
(* document and another query follow each other.                           *)
(***************************************************************************)
EXTENDS Integers, Sequences, FiniteSets, SequencesExt

CONSTANTS
  N,            \* the children are 1 .. N
  Factor,       \* an+b has a = -1, 0 or Factor, and b up to Factor
  MaxFilters,   \* bound: filters in a selector
  MaxQueries    \* bound: queries

VARIABLES
  kids, marked,              \* the document, and the elements of the class
  sizcache, nodeIndex, done, \* what :nth-child leaves behind
  query,                     \* [filters, inplace, cut, stale, several, start]
  loop, left,                \* curLoop (0: false) and the filters to come
  asked, phase

document == <<kids, marked>>
cache    == <<sizcache, nodeIndex, done>>
vars     == <<document, cache, query, loop, left, asked, phase>>

Node == 1 .. N
Box  == 1 .. 2
All  == kids[1] \o kids[2]
Parent(n) == CHOOSE p \in Box : n \in ToSet(kids[p])
Place(n)  == SelectInSeq(kids[Parent(n)], LAMBDA x : x = n)

Class == [kind |-> "CLASS"]
Child == {[kind |-> "CHILD", type |-> t] : t \in {"first", "last", "only"}}
           \cup [kind : {"CHILD"}, type : {"nth"}, a : {-1, 0, Factor}, b : 0 .. Factor]
Pos   == {[kind |-> "POS", name |-> n, arg |-> 1] :
            n \in {"first", "last", "even", "odd", "lt", "gt", "eq"}}
Plain == {Class, [kind |-> "CHILD", type |-> "first"], [kind |-> "POS", name |-> "first", arg |-> 1]}
Not   == [kind : {"PSEUDO"}, of : Plain \X Plain]
           \cup [kind : {"PSEUDO"}, of : {<<f>> : f \in Plain}]
Filters == {Class} \cup Child \cup Pos \cup Not

-----------------------------------------------------------------------------
(* Expr.setFilters; i counts from 0.                                       *)
AtPosition(f, i, length) ==
  CASE f.name = "first" -> i = 0
    [] f.name = "last"  -> i = length - 1
    [] f.name = "even"  -> i % 2 = 0
    [] f.name = "odd"   -> i % 2 = 1
    [] f.name = "lt"    -> i < f.arg
    [] f.name = "gt"    -> i > f.arg
    [] f.name = "eq"    -> i = f.arg

(* Expr.filter.CHILD.  The signs of % and / are JavaScript's: the quotient *)
(* of two numbers of the same sign.                                        *)
Cycles(a, diff) ==
  IF a = 0 THEN diff = 0
  ELSE LET size == IF a < 0 THEN -a ELSE a
       IN  diff % size = 0 /\ (diff = 0 \/ (diff > 0) = (a > 0))

Counts(f) == f.kind = "CHILD" /\ f.type = "nth" /\ ~(f.a = 1 /\ f.b = 0)

(* The boxes whose children are counted (again) for these elements.        *)
Recounted(c, items) ==
  {p \in Box : \E n \in items :
     Parent(n) = p /\ (c.sizcache[p] # c.done \/ c.nodeIndex[n] = 0)}

Counted(f, c) ==
  LET fresh == [c EXCEPT !.done = IF f.kind = "CHILD" THEN c.done + 1 ELSE c.done]
      boxes == IF Counts(f) THEN Recounted(fresh, ToSet(c.loop) \ {0}) ELSE {}
  IN  [fresh EXCEPT !.sizcache  = [p \in Box |-> IF p \in boxes THEN fresh.done ELSE @[p]],
                    !.nodeIndex = [n \in Node |-> IF Parent(n) \in boxes THEN Place(n) ELSE @[n]]]

Passes(f, c, i) ==
  LET n == c.loop[i]
      m == Len(kids[Parent(n)])
  IN  CASE f.kind = "CLASS" -> n \in marked
        [] f.kind = "POS"   -> AtPosition(f, i - 1, Len(c.loop))
        [] f.kind = "CHILD" /\ f.type = "first" -> Place(n) = 1
        [] f.kind = "CHILD" /\ f.type = "last"  -> Place(n) = m
        [] f.kind = "CHILD" /\ f.type = "only"  -> m = 1
        [] f.kind = "CHILD" /\ f.type = "nth"   ->
             ~Counts(f) \/ Cycles(f.a, c.nodeIndex[n] - f.b)

(* What keep says of the elements, in place or into a list of its own.     *)
Kept(list, keep, inplace) ==
  LET marks == [i \in DOMAIN list |-> IF list[i] # 0 /\ keep[i] THEN list[i] ELSE 0]
  IN  IF inplace THEN marks ELSE SelectSeq(marks, LAMBDA n : n # 0)

ApplySimple(f, not, inplace, c) ==
  LET d == Counted(f, c)
      keep == [i \in DOMAIN d.loop |-> d.loop[i] # 0 /\ Passes(f, d, i) # not]
  IN  [d EXCEPT !.loop = Kept(d.loop, keep, inplace)]

(* The loop over the types in Expr.filter: the leftmost pseudo-class if it *)
(* is a :not, else a child filter, else a class, else a position.          *)
NextFilter(filters) ==
  LET At(kinds) == SelectInSeq(filters, LAMBDA f : f.kind \in kinds)
      pseudo == At({"PSEUDO", "CHILD", "POS"})
  IN  IF pseudo # 0 /\ filters[pseudo].kind = "PSEUDO" THEN pseudo
      ELSE IF At({"CHILD"}) # 0 THEN At({"CHILD"})
      ELSE IF At({"CLASS"}) # 0 THEN At({"CLASS"})
      ELSE pseudo

(* The filters of a :not in the order they are taken.                      *)
InOrder(of) ==
  IF Len(of) = 2 /\ NextFilter(of) = 2 THEN Reverse(of) ELSE of

(* preFilter.PSEUDO.  The chunker keeps its lastIndex from the selector    *)
(* that was cut at a comma: then it does not match, and the filters of the *)
(* :not are negated one by one.                                            *)
ApplyNot(f, stale, inplace, c) ==
  IF stale
  THEN FoldLeft(LAMBDA d, g : ApplySimple(g, TRUE, inplace, d), c, InOrder(f.of))
  ELSE LET chosen == FoldLeft(LAMBDA d, g : ApplySimple(g, FALSE, FALSE, d), c, InOrder(f.of))
       IN  [chosen EXCEPT !.loop =
              Kept(c.loop, [i \in DOMAIN c.loop |-> c.loop[i] \notin ToSet(chosen.loop)], inplace)]

(* posProcess: the pseudo-classes wait for the lists of all contexts.      *)
Later(filters) == SelectSeq(filters, LAMBDA f : f.kind # "CLASS")
Earlier(filters) == SelectSeq(filters, LAMBDA f : f.kind = "CLASS")

(* origPOS finds a position within a :not, too.                            *)
HasPosition(filters) ==
  \E i \in DOMAIN filters :
    \/ filters[i].kind = "POS"
    \/ filters[i].kind = "PSEUDO" /\ \E j \in DOMAIN filters[i].of : filters[i].of[j].kind = "POS"

Mentions(f, filters) ==
  \E i \in DOMAIN filters :
    filters[i] = f \/ (filters[i].kind = "PSEUDO" /\ f \in ToSet(filters[i].of))

-----------------------------------------------------------------------------
Nothing == [filters |-> <<>>, inplace |-> FALSE, cut |-> FALSE, stale |-> FALSE,
            several |-> FALSE, start |-> <<>>]

(* The boxes are alike: at the start the first one is not empty.           *)
Init ==
  /\ \E cut \in 1 .. N : kids = <<[i \in 1 .. cut |-> i], [i \in 1 .. N - cut |-> cut + i]>>
  /\ marked \in SUBSET Node
  /\ sizcache = [p \in Box |-> 0] /\ nodeIndex = [n \in Node |-> 0] /\ done = 0
  /\ query = Nothing /\ loop = <<>> /\ left = <<>> /\ asked = 0 /\ phase = "idle"

(* Only expressions without positions are filtered in place.  cut: the     *)
(* selector went on after a comma, which a :not alone can tell.  Elements  *)
(* are of the class if the selector mentions it.                           *)
Ask ==
  /\ phase = "idle" /\ asked = 0
  /\ \E k \in 1 .. MaxFilters, inplace, cut, several \in BOOLEAN :
     \E filters \in [1 .. k -> Filters] :
       /\ inplace => ~HasPosition(filters)
       /\ several => HasPosition(filters)
       /\ cut => \E i \in 1 .. k : filters[i].kind = "PSEUDO"
       /\ marked # {} => Mentions(Class, filters)
       /\ query' = [filters |-> filters, inplace |-> inplace, cut |-> cut, stale |-> cut,
                    several |-> several, start |-> All]
       /\ left' = IF several THEN Earlier(filters) \o Later(filters) ELSE filters
  /\ loop' = All /\ asked' = 1 /\ phase' = "filter"
  /\ UNCHANGED <<document, cache>>

AskAgain ==
  /\ phase = "idle" /\ asked \in 1 .. MaxQueries - 1 /\ query.start = <<>>
  /\ query' = [query EXCEPT !.start = All]
  /\ loop' = All /\ left' = query.filters /\ asked' = asked + 1 /\ phase' = "filter"
  /\ UNCHANGED <<document, cache>>

Filter ==
  /\ phase = "filter"
  /\ left # <<>> /\ loop # <<>>
  /\ LET at == NextFilter(left)
         f  == left[at]
         c  == [loop |-> loop, sizcache |-> sizcache, nodeIndex |-> nodeIndex, done |-> done]
         d  == IF f.kind = "PSEUDO" THEN ApplyNot(f, query.stale, query.inplace, c)
               ELSE ApplySimple(f, FALSE, query.inplace, c)
     IN  /\ loop' = IF f.kind # "PSEUDO" /\ ToSet(d.loop) \subseteq {0} THEN <<>> ELSE d.loop
         /\ sizcache' = d.sizcache /\ nodeIndex' = d.nodeIndex /\ done' = d.done
         /\ query' = IF f.kind = "PSEUDO" THEN [query EXCEPT !.stale = FALSE] ELSE query
         /\ left' = RemoveAt(left, at)
  /\ UNCHANGED <<document, asked, phase>>

Filtered ==
  /\ phase = "filter" /\ (left = <<>> \/ loop = <<>>)
  /\ phase' = "idle"
  /\ UNCHANGED <<document, cache, query, loop, left, asked>>

(* Between two queries with a :nth-child a script moves an element.        *)
Move(n, p) ==
  /\ phase = "idle" /\ asked \in 1 .. MaxQueries - 1
  /\ query.start # <<>> /\ ~query.cut /\ ~query.several
  /\ \E i \in DOMAIN query.filters : Counts(query.filters[i])
  /\ kids' = [q \in Box |-> LET rest == SelectSeq(kids[q], LAMBDA m : m # n)
                            IN  IF q = p THEN <<n>> \o rest ELSE rest]
  /\ query' = [query EXCEPT !.start = <<>>] /\ loop' = <<>> /\ left' = <<>>
  /\ UNCHANGED <<marked, cache, asked, phase>>

Next == Ask \/ AskAgain \/ Filter \/ Filtered \/ \E n \in Node, p \in Box : Move(n, p)

Spec == Init /\ [][Next]_vars

-----------------------------------------------------------------------------
(* Lists hold elements, and false only where a filter works in place.      *)
TypeOK ==
  /\ ToSet(kids[1]) \cup ToSet(kids[2]) = Node
  /\ loop \in Seq(0 .. N)
  /\ 0 \in ToSet(loop) => query.inplace
  /\ nodeIndex \in [Node -> 0 .. N] /\ sizcache \in [Box -> 0 .. done]

(* What a reader means: the filters from left to right.                    *)
RECURSIVE Meaning(_, _)
Meaning(filters, list) ==
  IF filters = <<>> THEN list
  ELSE LET f == Head(filters)
           Holds(i) ==
             CASE f.kind = "PSEUDO" -> list[i] \notin ToSet(Meaning(f.of, list))
               [] f.kind = "CLASS"  -> list[i] \in marked
               [] f.kind = "POS"    -> AtPosition(f, i - 1, Len(list))
               [] OTHER             ->
                    LET n == list[i]
                        m == Len(kids[Parent(n)])
                    IN  CASE f.type = "first" -> Place(n) = 1
                          [] f.type = "last"  -> Place(n) = m
                          [] f.type = "only"  -> m = 1
                          [] f.type = "nth"   -> \E k \in 0 .. 2 * N : Place(n) = f.a * k + f.b
           kept == SelectSeq([i \in DOMAIN list |-> i], Holds)
       IN  Meaning(Tail(filters), [j \in DOMAIN kept |-> list[kept[j]]])

(* A position is taken after the classes and child filters to its right,   *)
(* a position in a :not before the classes to its left.                    *)
Ordered(filters) ==
  \A i, j \in DOMAIN filters : i < j =>
    /\ filters[i].kind = "POS" => filters[j].kind \in {"POS", "PSEUDO"}
    /\ filters[i].kind = "CLASS" /\ filters[j].kind = "PSEUDO" => ~HasPosition(<<filters[j]>>)
Readable(filters) ==
  /\ Ordered(filters)
  /\ \A i \in DOMAIN filters : filters[i].kind = "PSEUDO" => Ordered(filters[i].of)

(* Filtering selects what the selector means, whatever earlier queries     *)
(* wrote into the document and however it has changed since, if positions  *)
(* come last and a :not met by a stale chunker holds one filter.           *)
FiltersMeant ==
  (phase = "idle" /\ query.start # <<>> /\ Readable(query.filters)
     /\ ~(query.cut /\ \E i \in DOMAIN query.filters :
            query.filters[i].kind = "PSEUDO" /\ Len(query.filters[i].of) > 1))
    => SelectSeq(loop, LAMBDA n : n # 0) = Meaning(query.filters, query.start)
=============================================================================
