------------------------------ MODULE Options ------------------------------
(***************************************************************************)
(* Where a component of MyInfusion.js gets its options: the defaults of    *)
(* its grades, its own, and the user's are merged one over the other, as   *)
(* the merge policy of each option says.                                   *)
(*                                                                         *)
(* One option stands for all.  Its value in a source is absent, a plain    *)
(* value, or an object with fields; sources are named, so that a merged    *)
(* value tells where each part of it comes from.  Policies that are        *)
(* functions and references to other options are not represented.          *)
(***************************************************************************)
EXTENDS Naturals, SequencesExt, FiniteSetsExt

CONSTANTS Grade,      \* 1..n; a grade's parents are later ones
          Field,      \* the fields an object may have
          None, Plain

VARIABLES
  parents,  \* of each grade: its gradeNames, in order
  shape,    \* of each grade: None, Plain, or the set of fields it gives
  policy    \* "", "replace", "reverse" or "nomerge"

vars == <<parents, shape, policy>>

First == 1

(***************************************************************************)
(* resolveGrade: from the component's own grade, depth first, each grade   *)
(* when it is first met; the options are merged from the last to the first *)
(***************************************************************************)
RECURSIVE ResolveGrades(_, _)
ResolveGrades(chain, names) ==
  IF names = <<>> THEN chain
  ELSE LET g == Head(names)
       IN  ResolveGrades(IF g \in ToSet(chain) THEN chain
                         ELSE ResolveGrades(Append(chain, g), parents[g]),
                         Tail(names))

GradeChain == ResolveGrades(<<>>, <<First>>)

OptionsChain == Reverse(GradeChain)

(***************************************************************************)
(* mergeImpl for one option: target is what the sources before gave, an    *)
(* object being the function from its fields to the source of each.        *)
(***************************************************************************)
IsObject(v) == v \notin {None, Plain}

OwnValue(g) == IF IsObject(shape[g]) THEN [f \in shape[g] |-> g] ELSE shape[g]

EmptyObject == [f \in {} |-> None]

(* A target that is no object makes room for a new one.  A policy is       *)
(* looked up by path, so "reverse" does not reach the fields.              *)
MergeFields(target, source) ==
  LET base == IF target.object THEN target.value ELSE EmptyObject
      kept == IF policy = "replace" THEN EmptyObject ELSE base
  IN  [f \in DOMAIN kept \cup DOMAIN source |->
         IF f \in DOMAIN source THEN source[f] ELSE kept[f]]

Absent == [object |-> FALSE, value |-> None, from |-> 0]

MergeOne(target, g) ==
  CASE shape[g] = None -> target
    [] IsObject(shape[g]) /\ policy # "nomerge" ->
         [object |-> TRUE, value |-> MergeFields(target, OwnValue(g)), from |-> g]
    [] policy = "reverse" /\ (target.object \/ target.from # 0) -> target
    [] OTHER -> [object |-> IsObject(shape[g]), value |-> OwnValue(g), from |-> g]

Merge(sources) == FoldLeft(MergeOne, Absent, sources)

Resolved == Merge(OptionsChain)

(***************************************************************************)
(* Any grades, and any defaults registered one after another for those     *)
(* that are asked for; the options of the others are never looked at.      *)
(***************************************************************************)
Ordered(g) == {SetToSortSeq(s, <) : s \in SUBSET {h \in Grade : h > g}}

Init ==
  /\ parents \in {p \in [Grade -> UNION {Ordered(g) : g \in Grade}] :
                    \A g \in Grade : p[g] \in Ordered(g)}
  /\ shape = [g \in Grade |-> None]
  /\ policy \in {"", "replace", "reverse", "nomerge"}

RegisterDefaults(g, given) ==
  /\ shape[g] = None /\ g \in ToSet(GradeChain)
  /\ shape' = [shape EXCEPT ![g] = given]
  /\ UNCHANGED <<parents, policy>>

Next == \E g \in Grade, given \in {Plain} \cup SUBSET Field : RegisterDefaults(g, given)

-----------------------------------------------------------------------------
TypeOK == shape \in [Grade -> {None, Plain} \cup SUBSET Field]

RECURSIVE Ancestors(_)
Ancestors(g) == ToSet(parents[g]) \cup UNION {Ancestors(h) : h \in ToSet(parents[g])}

(* Every grade that is asked for takes part once, and is merged over its   *)
(* ancestors, unless one of them was met before on another branch.         *)
ChildrenOverride ==
  LET chain == OptionsChain
      Position(g) == CHOOSE i \in DOMAIN chain : chain[i] = g
  IN  /\ IsInjective(chain) /\ ToSet(chain) = {First} \cup Ancestors(First)
      /\ \A g \in ToSet(chain), h \in Grade :
           (h \in Ancestors(g)
              /\ \A k \in ToSet(chain) : h \in ToSet(parents[k]) => k = g \/ k \in Ancestors(g))
           => Position(h) < Position(g)

(* Who decides a field: the last source that gives it, and a plain value   *)
(* wipes out what came before; under "replace" and "nomerge" the whole     *)
(* value is the last source's, never a mixture; under "reverse" a plain    *)
(* value never replaces what is there.                                     *)
PolicyDecides ==
  LET chain     == OptionsChain
      result    == Resolved
      Source(i) == shape[chain[i]]
      given     == {i \in DOMAIN chain : Source(i) # None}
      plain     == {i \in given : Source(i) = Plain}
      objects   == given \ plain
      last      == IF plain = {} \/ policy = "reverse" THEN 0 ELSE Max(plain)
      deciders  == {i \in objects : i > last}
  IN  given # {} =>
        CASE policy \in {"replace", "nomerge"} -> result.value = OwnValue(chain[Max(given)])
          [] policy \in {"", "reverse"} /\ deciders = {} ->
               result.from = chain[IF policy = "reverse" THEN Min(given) ELSE Max(given)]
          [] OTHER ->
               \A f \in Field :
                 LET givers == {i \in deciders : f \in Source(i)}
                 IN  IF givers = {} THEN f \notin DOMAIN result.value
                     ELSE result.value[f] = chain[Max(givers)]

OptionsHold == ChildrenOverride /\ PolicyDecides
=============================================================================
