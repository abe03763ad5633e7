------------------------------- MODULE Demands -------------------------------
(***************************************************************************)
(* Demands of Fluid Infusion (MyInfusion.js): a function or component is   *)
(* asked for by name and what stands for it depends on the context, that   *)
(* is on the types of the components in scope.  Blocks are registered for  *)
(* a name and a list of contexts, which is sorted; the block that asks for *)
(* the fewest types that are not in scope wins, then the one with the most *)
(* that are.  What it names can have an alias, which is looked up again.   *)
(*                                                                         *)
(* The arguments of a block, what is merged into options and the search    *)
(* for a registered block are not represented.                             *)
(***************************************************************************)
EXTENDS Integers, Sequences, FiniteSets, SequencesExt

CONSTANTS
  Func,        \* names of functions
  Contexts,    \* types, as numbers: contexts are sorted
  None,
  MaxBlocks    \* bound: registered blocks

VARIABLES
  dependentStore,    \* the blocks, in the order they were registered
  aliasTable,
  answer             \* the last resolution

vars == <<dependentStore, aliasTable, answer>>

Registered(name) == SelectSeq(dependentStore, LAMBDA rec : rec.name = name)

(* locateAllDemands and compareDemands.                                    *)
Uncess(rec, scope) == 2 * Cardinality(ToSet(rec.contexts) \ scope)
Intersect(rec, scope) ==
  IF rec.contexts = <<>> THEN 1 ELSE 2 * Cardinality(ToSet(rec.contexts) \cap scope)

Precedes(a, b, scope) ==
  \/ Uncess(a, scope) < Uncess(b, scope)
  \/ Uncess(a, scope) = Uncess(b, scope) /\ Intersect(a, scope) > Intersect(b, scope)

(* The best of the matches; which of equals comes first is up to the sort. *)
LocateDemands(names, scope) ==
  LET matches == FoldLeft(LAMBDA s, n : s \o Registered(n), <<>>, names)
      best    == {rec \in ToSet(matches) :
                    \A other \in ToSet(matches) : ~Precedes(other, rec, scope)}
  IN  IF best = {} THEN {None}
      ELSE {IF Intersect(rec, scope) = 0 THEN None ELSE rec : rec \in best}

Redirected(rec, name) == IF rec = None \/ rec.func = None THEN name ELSE rec.func

(* determineDemands: an alias is followed once, with demands of its own.   *)
DetermineDemands(names, scope) ==
  UNION {LET first == Redirected(rec, Head(names))
             to    == aliasTable[first]
         IN  IF to = None THEN {[first |-> rec, func |-> first]}
             ELSE {[first |-> rec, func |-> Redirected(inner, to)] :
                     inner \in LocateDemands(<<to>>, scope)}
         : rec \in LocateDemands(names, scope)}

Sorted(set) == SetToSortSeq(set, <)

-----------------------------------------------------------------------------
Nothing == [names |-> <<>>, scope |-> {}, first |-> None, func |-> None]

Init ==
  /\ dependentStore = <<>>
  /\ aliasTable = [f \in Func |-> None]
  /\ answer = Nothing

Demand(name, contexts, func) ==
  /\ Len(dependentStore) < MaxBlocks
  /\ dependentStore' = Append(dependentStore,
       [name |-> name, contexts |-> Sorted(contexts), func |-> func])
  /\ answer' = Nothing
  /\ UNCHANGED aliasTable

Alias(name, to) ==
  /\ aliasTable' = [aliasTable EXCEPT ![name] = to]
  /\ answer' = Nothing
  /\ UNCHANGED dependentStore

Resolve(names, scope) ==
  /\ \E a \in DetermineDemands(names, scope) :
       answer' = [names |-> names, scope |-> scope, first |-> a.first, func |-> a.func]
  /\ UNCHANGED <<dependentStore, aliasTable>>

(* Nothing reads an answer, so what follows one follows without it, too.   *)
Next ==
  /\ answer = Nothing
  /\ \/ \E n \in Func, cs \in SUBSET Contexts, f \in Func \cup {None} : Demand(n, cs, f)
     \/ \E n, to \in Func : n # to /\ Alias(n, to)
     \/ \E n, m \in Func, scope \in SUBSET Contexts :
          Resolve(<<n>>, scope) \/ (n # m /\ Resolve(<<n, m>>, scope))

Spec == Init /\ [][Next]_vars

-----------------------------------------------------------------------------
TypeOK ==
  /\ \A i \in DOMAIN dependentStore : ToSet(dependentStore[i].contexts) \subseteq Contexts
  /\ aliasTable \in [Func -> Func \cup {None}]
  /\ answer.func \in Func \cup {None}

(* A block all of whose contexts are in scope is never overlooked for one  *)
(* that asks for more than is there, and of those that fit none has more   *)
(* contexts than the chosen one, in whatever order they were registered.   *)
Fitting(names, scope) ==
  {rec \in ToSet(dependentStore) :
     rec.name \in ToSet(names) /\ ToSet(rec.contexts) \subseteq scope}

FittingWins ==
  LET fit == Fitting(answer.names, answer.scope)
  IN  fit # {} => /\ answer.first \in fit
                  /\ \A rec \in fit : Len(rec.contexts) <= Len(answer.first.contexts)
=============================================================================
