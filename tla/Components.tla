----------------------------- MODULE Components -----------------------------
(***************************************************************************)
(* The instantiator of Fluid Infusion (MyInfusion.js): a component creates *)
(* the components its options name, some at once, some when an event       *)
(* fires; a reference {name} in the options of one that is being created   *)
(* is looked up along its parents and creates what it names if that does   *)
(* not exist yet.  The instantiator keeps an index from ids to paths and   *)
(* back.                                                                   *)
(*                                                                         *)
(* The root has the components of Name, each of which may have one child,  *)
(* created with it or injected from elsewhere.  What the options say is    *)
(* chosen at the start.  Priorities and demands are not represented.       *)
(***************************************************************************)
EXTENDS Integers, Sequences, FiniteSets

CONSTANTS
  Name,       \* the components of the root
  Child,      \* the name of a child
  None,
  MaxIds,     \* bound: components created
  MaxFires    \* bound: events fired

VARIABLES
  options,                     \* Name -> [when, refers, child]
  member,                      \* id -> name -> id, 0: none
  idToPath, pathToComponent,   \* the index; None and 0: no entry
  frames,                      \* components in creation, the outermost first
  ids, fires,                  \* counters
  failed, nested, tangled      \* an error was thrown; an event fired inside a
                               \* creation; an injected component was cleared

index == <<idToPath, pathToComponent>>
flags == <<failed, nested, tangled>>
vars  == <<options, member, index, frames, ids, fires, flags>>

Root  == 1
Id    == 1 .. MaxIds
Names == Name \cup {Child}
PathString  == {<<>>} \cup {<<n>> : n \in Name} \cup {<<n, Child>> : n \in Name}

Options ==
  {o \in [Name -> [when   : {"now", "event"},
                   refers : SUBSET Name,
                   child  : {[kind |-> "none", refers |-> {}]} \cup
                            [kind : {"own"}, refers : SUBSET Name] \cup
                            [kind : {"injected"}, refers : {{n} : n \in Name}]]] :
     \A n \in Name : /\ n \notin o[n].refers \cup o[n].child.refers
                     /\ Cardinality(o[n].refers \cup o[n].child.refers) <= 1}

(* A frame of initDependent; id is 0 until the component has its type tag. *)
Frame(that, name) ==
  [that |-> that, name |-> name, id |-> 0, refs |-> {}, todo |-> {}]

Top == frames[Len(frames)]
Pop == SubSeq(frames, 1, Len(frames) - 1)
WithTop(f) == Pop \o <<f>>

Declared(path) == {c \in {Child} : Len(path) = 1 /\ options[path[1]].child.kind # "none"}

RefersTo(path) ==
  IF Len(path) = 1 THEN options[path[1]].refers ELSE options[path[1]].child.refers

Injected(path) == Len(path) = 2 /\ options[path[1]].child.kind = "injected"

(* fluid.fail: the error leaves every frame.                               *)
Fail ==
  /\ failed' = TRUE /\ frames' = <<>>
  /\ UNCHANGED <<options, member, index, ids, fires, nested, tangled>>

-----------------------------------------------------------------------------
(* fluid.initDependent: nothing to do for a component that exists.         *)
Begun(that, name) == IF member[that][name] # 0 THEN <<>> ELSE <<Frame(that, name)>>

Init ==
  /\ options \in Options
  /\ member = [i \in Id |-> [n \in Names |-> 0]]
  /\ idToPath = [i \in Id |-> IF i = Root THEN <<>> ELSE None]
  /\ pathToComponent = [p \in PathString |-> IF p = <<>> THEN Root ELSE 0]
  /\ frames = << [Frame(0, None) EXCEPT !.id = Root,
                    !.todo = {n \in Name : options[n].when = "now"}] >>
  /\ ids = 1 /\ fires = 0
  /\ failed = FALSE /\ nested = FALSE /\ tangled = FALSE

(* The new component is recorded at the path that was announced for it.    *)
Construct ==
  /\ frames # <<>> /\ Top.id = 0
  /\ LET path == idToPath[Top.that] \o <<Top.name>>
     IN  /\ ~Injected(path)
         /\ IF pathToComponent[path] # 0 THEN Fail
            ELSE /\ ids < MaxIds
                 /\ ids' = ids + 1
                 /\ idToPath' = [idToPath EXCEPT ![ids'] = path]
                 /\ pathToComponent' = [pathToComponent EXCEPT ![path] = ids']
                 /\ frames' = WithTop([Top EXCEPT !.id = ids', !.refs = RefersTo(path),
                                         !.todo = Declared(path)])
                 /\ UNCHANGED <<options, member, fires, flags>>

(* getThatStack: a component and its parents, by the index.                *)
ThatStack(id) == {pathToComponent[SubSeq(idToPath[id], 1, n)] : n \in 0 .. Len(idToPath[id])}

(* visitComponents: a reference names one of the stack or a member of one. *)
InScope(name) ==
  \E i \in ThatStack(Top.that) : idToPath[i] = <<name>> \/ member[i][name] # 0

(* The fetcher: a component in scope is found, one that is recorded but    *)
(* not in place is still in creation, any other is created now, whatever   *)
(* event it was to wait for.                                               *)
Fetch(name, then) ==
  IF InScope(name) THEN then
  ELSE IF pathToComponent[<<name>>] # 0 THEN Fail
  ELSE /\ frames' = Append(frames, Frame(Root, name))
       /\ UNCHANGED <<options, member, index, ids, fires, flags>>

Resolve ==
  /\ frames # <<>> /\ Top.id # 0
  /\ \E name \in Top.refs :
       Fetch(name, /\ frames' = WithTop([Top EXCEPT !.refs = @ \ {name}])
                   /\ UNCHANGED <<options, member, index, ids, fires, flags>>)

(* A string in place of a record: the reference itself becomes the member. *)
Inject ==
  /\ frames # <<>> /\ Top.id = 0
  /\ Injected(idToPath[Top.that] \o <<Top.name>>)
  /\ \E name \in RefersTo(idToPath[Top.that] \o <<Top.name>>) :
       Fetch(name, /\ member' = [member EXCEPT ![Top.that][Top.name] = member[Root][name]]
                   /\ frames' = Pop
                   /\ UNCHANGED <<options, index, ids, fires, flags>>)

(* initDependents.                                                         *)
Plain(f) == f.id # 0 /\ f.refs = {}

InitDependents ==
  /\ frames # <<>> /\ Plain(Top)
  /\ \E name \in Top.todo :
       frames' = WithTop([Top EXCEPT !.todo = @ \ {name}]) \o Begun(Top.id, name)
  /\ UNCHANGED <<options, member, index, ids, fires, flags>>

Return ==
  /\ frames # <<>> /\ Plain(Top) /\ Top.todo = {}
  /\ frames' = Pop
  /\ member' = IF Top.that = 0 THEN member
               ELSE [member EXCEPT ![Top.that][Top.name] = Top.id]
  /\ UNCHANGED <<options, index, ids, fires, flags>>

(* clearComponent goes down to whatever the members are, injected or not.  *)
Cleared(id) ==
  {id} \cup {member[id][n] : n \in Names}
       \cup UNION {{member[member[id][n]][m] : m \in Names} : n \in {m \in Names : member[id][m] # 0}}

ClearComponent(that, name) ==
  LET gone  == Cleared(member[that][name]) \ {0}
      paths == {idToPath[i] : i \in gone}
  IN  /\ idToPath' = [i \in Id |-> IF i \in gone THEN None ELSE idToPath[i]]
      /\ pathToComponent' = [p \in PathString |-> IF p \in paths THEN 0 ELSE pathToComponent[p]]
      /\ member' = [i \in Id |-> IF i \in gone THEN [n \in Names |-> 0]
                                 ELSE IF i = that THEN [member[i] EXCEPT ![name] = 0]
                                 ELSE member[i]]
      /\ tangled' = (tangled \/ \E i \in gone : \E n \in Name :
                                  n # name /\ member[Root][n] = i)

(* The listener of bindDeferredComponent: what an earlier event created is *)
(* cleared first.  Events fire between creations or at the end of one.     *)
FireEvent(name) ==
  /\ options[name].when = "event" /\ fires < MaxFires
  /\ frames # <<>> => Plain(Top) /\ Top.todo = {} /\ Len(frames) > 1
  /\ fires' = fires + 1
  /\ nested' = (nested \/ frames # <<>>)
  /\ IF member[Root][name] # 0 THEN ClearComponent(Root, name)
     ELSE UNCHANGED <<member, index, tangled>>
  /\ frames' = Append(frames, Frame(Root, name))
  /\ UNCHANGED <<options, ids, failed>>

Next ==
  \/ Construct \/ Resolve \/ Inject \/ InitDependents \/ Return
  \/ \E name \in Name : FireEvent(name)

Spec == Init /\ [][Next]_vars

-----------------------------------------------------------------------------
TypeOK ==
  /\ member \in [Id -> [Names -> 0 .. MaxIds]]
  /\ idToPath \in [Id -> PathString \cup {None}]
  /\ pathToComponent \in [PathString -> 0 .. MaxIds]
  /\ \A k \in DOMAIN frames : frames[k].id \in 0 .. ids

(* The components in place, with the paths that lead to them.              *)
InPlace ==
  {<<<<n>>, member[Root][n]>> : n \in {n \in Name : member[Root][n] # 0}} \cup
  {<<<<n, Child>>, member[member[Root][n]][Child]>> :
     n \in {n \in Name : member[Root][n] # 0 /\ options[n].child.kind = "own"}}

(* Once nothing is in creation the index and the tree agree: a path leads  *)
(* to the component recorded for it, every component in place has its      *)
(* child, and nothing is recorded that is not in place, unless a creation  *)
(* failed or a component was cleared through one it is injected into.      *)
IndexAgrees ==
  (frames = <<>> /\ ~failed /\ ~tangled) =>
    /\ \A at \in InPlace : at[2] # 0 /\ idToPath[at[2]] = at[1] /\ pathToComponent[at[1]] = at[2]
    /\ \A p \in PathString \ {<<>>} :
         pathToComponent[p] # 0 => <<p, pathToComponent[p]>> \in InPlace
    /\ \A i \in Id : idToPath[i] # None => pathToComponent[idToPath[i]] = i

(* Components that do not wait for each other in a circle can be created   *)
(* and created again in any order of their events.                         *)
Needs(n) == options[n].refers \cup options[n].child.refers
Circular == \E some \in SUBSET Name \ {{}} : \A n \in some : Needs(n) \cap some # {}

FailsOnlyInCircles == failed => Circular \/ nested \/ tangled

ComponentsHold == IndexAgrees /\ FailsOnlyInCircles
=============================================================================
