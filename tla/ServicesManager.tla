---------------------------- MODULE ServicesManager ----------------------------
(***************************************************************************)
(* The registered services: DefaultServicesManagerImpl over the            *)
(* InMemoryServiceRegistryDaoImpl of the deployment, edited by             *)
(* administrators through the management pages, while a Quartz job reloads *)
(* the manager's map from the data store.  save and delete hold the        *)
(* manager's monitor; reload does not.                                     *)
(*                                                                         *)
(* The contents of a registration is what AbstractRegisteredService.equals *)
(* compares: sid is its service id, key the evaluation order and the name  *)
(* that compareTo looks at.  Its numeric id is neither.                    *)
(***************************************************************************)
EXTENDS Integers, SequencesExt

CONSTANTS
  Admin,     \* administrators at the management pages
  Content,   \* contents that they enter
  Deployed,  \* contents of the registration in the deployment's configuration
  Overlap,   \* whether the reload job may run while a save or delete does
  MaxOps,    \* bound on the number of saves and deletes
  None

ASSUME ContentFields == \A c \in Content : c = [sid |-> c.sid, key |-> c.key]
ASSUME DeployedContent == Deployed \in Content
ASSUME OpsBound == MaxOps \in Nat /\ Overlap \in BOOLEAN

Id == 0..MaxOps
New == -1  \* AbstractRegisteredService.id of a registration never saved

ASSUME NoneIsNothing == None \notin Admin /\ None \notin Content /\ None \notin Id \cup {New}

VARIABLES
  dao,         \* InMemoryServiceRegistryDaoImpl.registeredServices
  services,    \* DefaultServicesManagerImpl.services
  monitor,     \* the administrator whose request holds the manager's monitor
  form,        \* form[a]: the request of administrator a
  reload,      \* the reload job: its iterator and the map it builds
  ops,         \* how many saves and how many deletes there were
  registered   \* history: what saves registered and deletes removed

vars == <<dao, services, monitor, form, reload, ops, registered>>

Nothing == [id \in Id |-> None]
NoForm == [pc |-> "idle", id |-> None, c |-> None]
NoReload == [pc |-> "off", cursor |-> 1, local |-> Nothing, dirty |-> FALSE]

Init ==
  /\ dao = <<[id |-> 0, c |-> Deployed]>>
  /\ services = [Nothing EXCEPT ![0] = Deployed]
  /\ monitor = None
  /\ form = [a \in Admin |-> NoForm]
  /\ reload = NoReload
  /\ ops = [saves |-> 0, deletes |-> 0]
  /\ registered = services

-------------------------------------------------------------------------------
(* Views of the data.                                                      *)

Served == {id \in Id : services[id] # None}

\* convertToTreeSet: of registrations that compare equal the set keeps one.
Listings ==
  {S \in SUBSET Served :
    /\ \A i, j \in S : services[i].key = services[j].key => i = j
    /\ \A i \in Served : \E j \in S : services[i].key = services[j].key}

\* a bug: one is added here, and again in save
FindHighestIdTwice == 1 + Max({0} \cup {dao[k].id : k \in DOMAIN dao})

FindHighestId == Max({0} \cup {dao[k].id : k \in DOMAIN dao})

\* List.remove: the first element that equals the contents, whatever its id.
Without(c) == RemoveFirstMatch(dao, LAMBDA e : e.c = c)

\* A structural change of the list, which an iterator over it notices.
ChangeDao(list) ==
  /\ dao' = list
  /\ reload' = [reload EXCEPT !.dirty = @ \/ list # dao]

\* a bug: save and delete are not synchronized
EntersAnyway ==
  /\ Overlap \/ reload.pc = "off"
  /\ ops.saves + ops.deletes < MaxOps

\* The monitor is free; in runs without overlap, the reload job is at rest.
MayEnter ==
  /\ monitor = None
  /\ Overlap \/ reload.pc = "off"
  /\ ops.saves + ops.deletes < MaxOps

-------------------------------------------------------------------------------
(* Administrators.                                                         *)

\* formBackingObject: the posted contents go to a new registration or to a
\* clone of a served one.
Post(a, id, c) ==
  /\ form[a].pc = "idle"
  /\ id = New \/ id \in Served
  /\ form' = [form EXCEPT ![a] = [pc |-> "validate", id |-> id, c |-> c]]
  /\ UNCHANGED <<dao, services, monitor, reload, ops, registered>>

\* RegisteredServiceValidator: in a listing, another registration has the id.
Conflicts(id, c, S) == \E i \in S : services[i].sid = c.sid /\ i # id

\* A form that conflicts is shown again; another one goes on to save.
Validate(a) ==
  /\ form[a].pc = "validate"
  /\ \E S \in Listings :
       form' = [form EXCEPT ![a] = IF Conflicts(form[a].id, form[a].c, S)
                                  THEN NoForm ELSE [@ EXCEPT !.pc = "save"]]
  /\ UNCHANGED <<dao, services, monitor, reload, ops, registered>>

\* updateRegisteredServiceEvaluationOrder saves a clone without validation.
Reorder(a, id, c) ==
  /\ form[a].pc = "idle"
  /\ id \in Served /\ services[id].sid = c.sid
  /\ form' = [form EXCEPT ![a] = [pc |-> "save", id |-> id, c |-> c]]
  /\ UNCHANGED <<dao, services, monitor, reload, ops, registered>>

\* save: a new registration gets its id, and an equal one leaves the list, ...
SaveRemove(a) ==
  /\ form[a].pc = "save"
  /\ MayEnter
  /\ monitor' = a
  /\ ops' = [ops EXCEPT !.saves = @ + 1]
  /\ form' = [form EXCEPT ![a].pc = "add",
                          ![a].id = IF @ = New THEN FindHighestId + 1 ELSE @]
  /\ ChangeDao(Without(form[a].c))
  /\ UNCHANGED <<services, registered>>

\* ... it is added to the list, ...
SaveAdd(a) ==
  /\ form[a].pc = "add"
  /\ form' = [form EXCEPT ![a].pc = "put"]
  /\ ChangeDao(Append(dao, [id |-> form[a].id, c |-> form[a].c]))
  /\ UNCHANGED <<services, monitor, ops, registered>>

\* ... and put into the map.
SavePut(a) ==
  /\ form[a].pc = "put"
  /\ services' = [services EXCEPT ![form[a].id] = form[a].c]
  /\ registered' = [registered EXCEPT ![form[a].id] = form[a].c]
  /\ monitor' = None
  /\ form' = [form EXCEPT ![a] = NoForm]
  /\ UNCHANGED <<dao, reload, ops>>

\* delete: from the data store, by the contents of the map's registration ...
DeleteDao(a, id) ==
  /\ form[a].pc = "idle"
  /\ MayEnter
  /\ id \in Served
  /\ monitor' = a
  /\ ops' = [ops EXCEPT !.deletes = @ + 1]
  /\ form' = [form EXCEPT ![a] = [pc |-> "unmap", id |-> id, c |-> None]]
  /\ ChangeDao(Without(services[id]))
  /\ UNCHANGED <<services, registered>>

\* ... and from the map.
DeleteMap(a) ==
  /\ form[a].pc = "unmap"
  /\ services' = [services EXCEPT ![form[a].id] = None]
  /\ registered' = [registered EXCEPT ![form[a].id] = None]
  /\ monitor' = None
  /\ form' = [form EXCEPT ![a] = NoForm]
  /\ UNCHANGED <<dao, reload, ops>>

-------------------------------------------------------------------------------
(* The reload job: an iteration over the live list.                        *)

ReloadBegin ==
  /\ reload.pc = "off"
  /\ Overlap \/ monitor = None
  /\ reload' = [NoReload EXCEPT !.pc = "scan"]
  /\ UNCHANGED <<dao, services, monitor, form, ops, registered>>

\* a bug: the last registration of the list is never read
HasNextButLast == reload.cursor < Len(dao)

HasNext == reload.cursor # Len(dao) + 1

\* a bug: the first registration of an id wins
ReloadNextFirstWins ==
  /\ reload.pc = "scan" /\ HasNext
  /\ reload' = IF reload.dirty THEN NoReload
               ELSE LET e == dao[reload.cursor] IN
                    [reload EXCEPT !.cursor = @ + 1,
                                   !.local[e.id] = IF @ = None THEN e.c ELSE @]
  /\ UNCHANGED <<dao, services, monitor, form, ops, registered>>

\* A change of the list ends the job with a ConcurrentModificationException.
ReloadNext ==
  /\ reload.pc = "scan" /\ HasNext
  /\ reload' = IF reload.dirty THEN NoReload
               ELSE LET e == dao[reload.cursor] IN
                    [reload EXCEPT !.cursor = @ + 1, !.local[e.id] = e.c]
  /\ UNCHANGED <<dao, services, monitor, form, ops, registered>>

\* hasNext only compares the position with the size, so a change may go unseen.
ReloadEnd ==
  /\ reload.pc = "scan" /\ ~HasNext
  /\ reload' = [reload EXCEPT !.pc = "publish"]
  /\ UNCHANGED <<dao, services, monitor, form, ops, registered>>

\* The new map replaces the old one, whatever was saved or deleted meanwhile.
ReloadPublish ==
  /\ reload.pc = "publish"
  /\ services' = reload.local
  /\ reload' = NoReload
  /\ UNCHANGED <<dao, monitor, form, ops, registered>>

-------------------------------------------------------------------------------

Administer(a) ==
  \/ \E c \in Content : \/ \E id \in Id \cup {New} : Post(a, id, c)
                        \/ \E id \in Id : Reorder(a, id, c)
  \/ \E id \in Id : DeleteDao(a, id)

\* What the request's thread does without the administrator.
Proceed(a) == Validate(a) \/ SaveRemove(a) \/ SaveAdd(a) \/ SavePut(a) \/ DeleteMap(a)

Reload == ReloadBegin \/ ReloadNext \/ ReloadEnd \/ ReloadPublish

Next == Reload \/ \E a \in Admin : Administer(a) \/ Proceed(a)

Spec == Init /\ [][Next]_vars

\* Quartz starts the job again and again; threads that run go on.
FairSpec == Spec /\ WF_vars(Reload) /\ \A a \in Admin : WF_vars(Proceed(a))

-------------------------------------------------------------------------------

TypeOK ==
  /\ dao \in Seq([id : Id, c : Content])
  /\ services \in [Id -> Content \cup {None}]
  /\ monitor \in Admin \cup {None}
  /\ form \in [Admin -> [pc : {"idle", "validate", "save", "add", "put", "unmap"},
                         id : Id \cup {New, None}, c : Content \cup {None}]]
  /\ reload \in [pc : {"off", "scan", "publish"}, cursor : Nat,
                 local : [Id -> Content \cup {None}], dirty : BOOLEAN]
  /\ ops \in [saves : 0..MaxOps, deletes : 0..MaxOps]
  /\ registered \in [Id -> Content \cup {None}]

\* What the list says of every id: its last element of that id.
DaoView ==
  [id \in Id |-> LET at == {k \in DOMAIN dao : dao[k].id = id} IN
                 IF at = {} THEN None ELSE dao[Max(at)].c]

\* Edits and re-orderings leave the old versions of a service in the list.  As
\* long as nothing is deleted, reloads between any of them serve, for every id,
\* what was saved last.  (One administrator, no overlap: see the README.)
ServedIsNewest ==
  monitor = None /\ ops.deletes = 0 => services = registered

\* The list never has two registrations with equal contents, from which
\* save and delete would take the wrong one, whatever reloads and
\* administrators do meanwhile.
ContentsOnce ==
  \A k, l \in DOMAIN dao : dao[k].c = dao[l].c => k = l

\* Ids grow with the saves, so that none is beyond Id.
IdsBounded ==
  /\ ops.saves + ops.deletes <= MaxOps
  /\ \A k \in DOMAIN dao : dao[k].id <= ops.saves
  /\ \A id \in Id : services[id] # None \/ reload.local[id] # None => id <= ops.saves
  /\ \A a \in Admin : form[a].id \in Id => form[a].id <= ops.saves

\* A request that has entered save or delete holds the monitor; what it is about
\* to add is not in the list.
FormsOK ==
  \A a \in Admin :
    /\ form[a].pc \in {"validate", "save"} => form[a].id # None
    /\ form[a].pc \in {"add", "put", "unmap"} => monitor = a /\ form[a].id \in Id
    /\ form[a].pc \in {"validate", "save", "add", "put"} => form[a].c # None
    /\ form[a].pc = "add" => \A k \in DOMAIN dao : dao[k].c # form[a].c

\* The iterator of a reload that has met no change is within the list.
CursorOK ==
  reload.pc = "scan" /\ ~reload.dirty => reload.cursor \in 1..Len(dao) + 1

\* The inductive invariant, with which the proofs argue.
ServicesInv == TypeOK /\ IdsBounded /\ FormsOK /\ CursorOK /\ ContentsOnce

-------------------------------------------------------------------------------
(* Why what is served is what was saved last, with one administrator and   *)
(* without overlap.                                                        *)

OneAtATime == ~Overlap /\ \A a, b \in Admin : a = b

\* No two services share an order and a name, so that a listing has them all.
OwnOrders == \A c, d \in Content : c.key = d.key => c.sid = d.sid

\* What the first n elements of the list say of an id: its last one counts.
LastOf(list, n, id, v) ==
  \/ v = None /\ \A k \in 1..n : list[k].id # id
  \/ \E k \in 1..n : /\ list[k] = [id |-> id, c |-> v]
                     /\ \A l \in k + 1 .. n : list[l].id # id

BeingSaved(id) == \E a \in Admin : form[a].pc \in {"add", "put"} /\ form[a].id = id

SidsDistinct == \A i, j \in Served : services[i].sid = services[j].sid => i = j

\* A save that validation let through takes no other registration's service id.
SaveTargets ==
  \A a \in Admin : form[a].pc \in {"save", "add", "put"} =>
    \A i \in Served : services[i].sid = form[a].c.sid => i = form[a].id

NothingDeleted == \A a \in Admin : form[a].pc # "unmap"

\* The list says what is served, but for the id that is being saved.
StoreAgrees ==
  /\ \A id \in Id : BeingSaved(id) \/ LastOf(dao, Len(dao), id, services[id])
  /\ \A a \in Admin : form[a].pc = "put" => LastOf(dao, Len(dao), form[a].id, form[a].c)

\* A reload meets no save or delete, and has read a prefix of the list.
ReloadAgrees ==
  /\ monitor # None => reload.pc = "off"
  /\ reload.pc = "scan" => /\ ~reload.dirty
                           /\ \A id \in Id : LastOf(dao, reload.cursor - 1, id, reload.local[id])
  /\ reload.pc = "publish" => \A id \in Id : LastOf(dao, Len(dao), id, reload.local[id])

\* The inductive invariant behind ServedIsNewest.
NewestInv ==
  /\ ServicesInv /\ ReloadAgrees
  /\ ops.deletes = 0 =>
       services = registered /\ SidsDistinct /\ SaveTargets /\ StoreAgrees /\ NothingDeleted

-------------------------------------------------------------------------------
\* Whatever a reload lost or brought back while services were being edited,
\* the map agrees with the data store in the end.
Converges == <>[](services = DaoView)

-------------------------------------------------------------------------------
(* What comments in the code promise and the code does not keep.           *)

\* "Delete the entry for this RegisteredService": a service that is not served
\* comes back by being saved only.
DeletedStaysDeleted ==
  [][\A id \in Id : services[id] = None /\ services'[id] # None =>
       \E a \in Admin : form[a].pc = "put" /\ form[a].id = id]_vars

\* "if the repository is empty, this implementation will return a default
\* service to grant all access": only then.
DefaultOnlyIfEmpty ==
  Served = {} /\ monitor = None => registered = Nothing
===============================================================================
