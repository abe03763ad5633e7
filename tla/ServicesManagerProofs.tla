------------------------- MODULE ServicesManagerProofs -------------------------
(***************************************************************************)
(* The registered services keep their types, and the list of the data      *)
(* store never has two equal registrations, for any administrators,        *)
(* contents and number of operations, with or without overlapping reloads. *)
(***************************************************************************)
EXTENDS ServicesManager, WellFoundedInduction, TLAPS

Entry == [id : Id, c : Content]

-------------------------------------------------------------------------------
(* Ids.                                                                    *)

\* A set of numbers within a bound has a maximum.
LEMMA BoundedMax ==
  ASSUME NEW N \in Nat, NEW S, S \subseteq 0..N, S # {}
  PROVE  Max(S) \in S /\ \A x \in S : Max(S) >= x
<1> DEFINE T == {n \in Nat : \E x \in S : n = N - x}
<1>1. T \subseteq Nat /\ T # {}
  <2>1. PICK x \in S : TRUE
    OBVIOUS
  <2>2. N - x \in T
    OBVIOUS
  <2>3. QED
    BY <2>2
<1>2. PICK m \in T : \A n \in T : ~ (<<n, m>> \in OpToRel(<, Nat))
  BY <1>1, NatLessThanWellFounded, WFMin, Zenon
<1>3. PICK x \in S : m = N - x
  BY DEF T
<1>4. ASSUME NEW y \in S PROVE x >= y
  <2>1. N - y \in T
    BY DEF T
  <2>2. ~ (N - y < m)
    BY <2>1, <1>2 DEF OpToRel
  <2>3. QED
    BY <2>2, <1>3
<1>5. QED
  BY <1>4 DEF Max

\* The highest id is that of a registration, or 0.
LEMMA HighestIdBounded ==
  ASSUME dao \in Seq(Entry), NEW n \in Id, \A k \in DOMAIN dao : dao[k].id <= n
  PROVE  FindHighestId \in 0..n
<1> DEFINE S == {0} \cup {dao[k].id : k \in DOMAIN dao}
<1>1. n \in Nat
  BY OpsBound DEF Id
<1>2. \A k \in DOMAIN dao : dao[k].id \in 0..n
  <2> TAKE k \in DOMAIN dao
  <2>1. dao[k] \in Entry
    OBVIOUS
  <2>2. QED
    BY <2>1, <1>1, OpsBound DEF Entry, Id
<1>3. S \subseteq 0..n /\ S # {}
  BY <1>1, <1>2
<1>4. Max(S) \in S
  <2> HIDE DEF S
  <2>1. QED
    BY <1>1, <1>3, BoundedMax
<1>5. QED
  BY <1>3, <1>4 DEF FindHighestId

-------------------------------------------------------------------------------
(* The list.                                                               *)

\* What List.remove leaves: the other elements, in their order.
LEMMA RemovedAt ==
  ASSUME NEW s \in Seq(Entry), NEW i \in DOMAIN s
  PROVE  /\ RemoveAt(s, i) \in Seq(Entry)
         /\ Len(RemoveAt(s, i)) = Len(s) - 1
         /\ \A k \in 1..Len(s) - 1 :
              RemoveAt(s, i)[k] = IF k < i THEN s[k] ELSE s[k + 1]
<1> DEFINE a == SubSeq(s, 1, i - 1)
           b == SubSeq(s, i + 1, Len(s))
<1>1. Len(s) \in Nat /\ i \in 1..Len(s)
  OBVIOUS
<1>2. a \in Seq(Entry) /\ Len(a) = i - 1 /\ \A k \in 1..i - 1 : a[k] = s[k]
  BY <1>1
<1>3. b \in Seq(Entry) /\ Len(b) = Len(s) - i /\ \A k \in 1..Len(s) - i : b[k] = s[k + i]
  BY <1>1
<1>4. RemoveAt(s, i) = a \o b
  BY DEF RemoveAt
<1> HIDE DEF a, b
<1>5. a \o b \in Seq(Entry) /\ Len(a \o b) = Len(s) - 1
  BY <1>1, <1>2, <1>3
<1>6. ASSUME NEW k \in 1..Len(s) - 1
      PROVE  (a \o b)[k] = IF k < i THEN s[k] ELSE s[k + 1]
  <2>1. CASE k < i
    BY <2>1, <1>1, <1>2, <1>3
  <2>2. CASE k >= i
    <3>1. (a \o b)[k] = b[k - (i - 1)]
      BY <2>2, <1>1, <1>2, <1>3
    <3>2. k - (i - 1) \in 1..Len(s) - i /\ k - (i - 1) + i = k + 1
      BY <2>2, <1>1
    <3>3. QED
      BY <3>1, <3>2, <2>2, <1>1, <1>3
  <2>3. k < i \/ k >= i
    BY <1>1
  <2>4. QED
    BY <2>1, <2>2, <2>3
<1>7. QED
  BY <1>4, <1>5, <1>6

\* List.remove finds one element to remove, or none.
LEMMA WithoutCases ==
  ASSUME dao \in Seq(Entry), ContentsOnce, NEW c
  PROVE  \/ Without(c) = dao /\ \A k \in DOMAIN dao : dao[k].c # c
         \/ \E i \in DOMAIN dao : dao[i].c = c /\ Without(c) = RemoveAt(dao, i)
<1>1. CASE \A k \in DOMAIN dao : dao[k].c # c
  <2>1. Without(c) = dao
    BY <1>1 DEF Without, RemoveFirstMatch
  <2>2. QED
    BY <1>1, <2>1
<1>2. CASE \E i \in DOMAIN dao : dao[i].c = c
  <2>1. PICK i \in DOMAIN dao : dao[i].c = c
    BY <1>2
  <2>2. {k \in 1..Len(dao) : dao[k].c = c} = {i}
    BY <2>1 DEF ContentsOnce
  <2>3. Min({i}) = i
    BY DEF Min
  <2>4. Without(c) = RemoveAt(dao, i)
    BY <2>1, <2>2, <2>3 DEF Without, RemoveFirstMatch, SelectInSeq
  <2>5. QED
    BY <2>1, <2>4
<1>3. QED
  BY <1>1, <1>2

\* Without(c): equal contents leave the list, nothing else does, and what is
\* left has no doubles.
LEMMA WithoutSpec ==
  ASSUME dao \in Seq(Entry), ContentsOnce, NEW c
  PROVE  /\ Without(c) \in Seq(Entry)
         /\ \A k \in DOMAIN Without(c) :
              Without(c)[k].c # c /\ \E l \in DOMAIN dao : Without(c)[k] = dao[l]
         /\ \A k, l \in DOMAIN Without(c) : Without(c)[k].c = Without(c)[l].c => k = l
<1>1. CASE Without(c) = dao /\ \A k \in DOMAIN dao : dao[k].c # c
  BY <1>1 DEF ContentsOnce
<1>2. CASE \E i \in DOMAIN dao : dao[i].c = c /\ Without(c) = RemoveAt(dao, i)
  <2>1. PICK i \in DOMAIN dao : dao[i].c = c /\ Without(c) = RemoveAt(dao, i)
    BY <1>2
  <2> DEFINE left == RemoveAt(dao, i)
             from(k) == IF k < i THEN k ELSE k + 1
  <2>5. left \in Seq(Entry) /\ DOMAIN left = 1..Len(dao) - 1
    <3>1. left \in Seq(Entry) /\ Len(left) = Len(dao) - 1
      BY RemovedAt
    <3>2. QED
      BY <3>1
  <2>6. \A k \in DOMAIN left : from(k) \in DOMAIN dao \ {i} /\ left[k] = dao[from(k)]
    <3> TAKE k \in DOMAIN left
    <3>1. Len(dao) \in Nat /\ i \in 1..Len(dao) /\ k \in 1..Len(dao) - 1
      BY <2>5
    <3>2. left[k] = IF k < i THEN dao[k] ELSE dao[k + 1]
      BY <3>1, RemovedAt
    <3>3. QED
      BY <3>1, <3>2
  <2>7. \A k, l \in DOMAIN left : from(k) = from(l) => k = l
    BY <2>5
  <2> HIDE DEF left, from
  <2>8. \A k \in DOMAIN left : left[k].c # c
    BY <2>1, <2>6 DEF ContentsOnce
  <2>9. \A k, l \in DOMAIN left : left[k].c = left[l].c => k = l
    BY <2>6, <2>7 DEF ContentsOnce
  <2>10. QED
    BY <2>1, <2>5, <2>6, <2>8, <2>9 DEF left
<1>3. QED
  BY <1>1, <1>2, WithoutCases

-------------------------------------------------------------------------------
(* The inductive invariant.                                                *)

LEMMA ServicesInit == Init => ServicesInv
<1> SUFFICES ASSUME Init PROVE ServicesInv
  OBVIOUS
<1>1. 0 \in Id /\ MaxOps \in Nat
  BY OpsBound DEF Id
<1>2. dao \in Seq(Entry) /\ Len(dao) = 1 /\ dao[1] = [id |-> 0, c |-> Deployed]
  BY <1>1, DeployedContent DEF Init, Entry
<1>3. Nothing \in [Id -> Content \cup {None}]
  BY DEF Nothing
<1>4. TypeOK
  BY <1>1, <1>2, <1>3, DeployedContent DEF Init, TypeOK, Entry, NoForm, NoReload
<1>5. IdsBounded
  BY <1>1, <1>2, NoneIsNothing DEF Init, IdsBounded, NoForm, NoReload, Nothing
<1>6. FormsOK /\ CursorOK /\ ContentsOnce
  BY <1>2 DEF Init, FormsOK, CursorOK, ContentsOnce, NoForm, NoReload
<1>7. QED
  BY <1>4, <1>5, <1>6 DEF ServicesInv

\* Steps that change neither the list nor what is served.
LEMMA RequestSteps ==
  ASSUME ServicesInv, NEW a \in Admin,
         \/ \E c \in Content, id \in Id \cup {New} : Post(a, id, c)
         \/ \E c \in Content, id \in Id : Reorder(a, id, c)
         \/ Validate(a)
  PROVE  ServicesInv'
<1>1. CASE \E c \in Content, id \in Id \cup {New} : Post(a, id, c)
  <2>1. PICK c \in Content, id \in Id \cup {New} : Post(a, id, c)
    BY <1>1
  <2>2. TypeOK'
    BY <2>1 DEF ServicesInv, TypeOK, Post
  <2>3. IdsBounded'
    BY <2>1, OpsBound DEF ServicesInv, TypeOK, IdsBounded, Post, Served, Id, New
  <2>4. FormsOK'
    BY <2>1, NoneIsNothing DEF ServicesInv, TypeOK, FormsOK, Post
  <2>5. CursorOK' /\ ContentsOnce'
    BY <2>1 DEF ServicesInv, CursorOK, ContentsOnce, Post
  <2>6. QED
    BY <2>2, <2>3, <2>4, <2>5 DEF ServicesInv
<1>2. CASE \E c \in Content, id \in Id : Reorder(a, id, c)
  <2>1. PICK c \in Content, id \in Id : Reorder(a, id, c)
    BY <1>2
  <2>2. TypeOK'
    BY <2>1 DEF ServicesInv, TypeOK, Reorder
  <2>3. IdsBounded'
    BY <2>1, OpsBound DEF ServicesInv, TypeOK, IdsBounded, Reorder, Served, Id
  <2>4. FormsOK'
    BY <2>1, NoneIsNothing DEF ServicesInv, TypeOK, FormsOK, Reorder
  <2>5. CursorOK' /\ ContentsOnce'
    BY <2>1 DEF ServicesInv, CursorOK, ContentsOnce, Reorder
  <2>6. QED
    BY <2>2, <2>3, <2>4, <2>5 DEF ServicesInv
<1>3. CASE Validate(a)
  <2>1. PICK f \in {NoForm, [form[a] EXCEPT !.pc = "save"]} : form' = [form EXCEPT ![a] = f]
    BY <1>3 DEF Validate
  <2>2. form[a].pc = "validate" /\ UNCHANGED <<dao, services, monitor, reload, ops, registered>>
    BY <1>3 DEF Validate
  <2>3. TypeOK'
    BY <2>1, <2>2 DEF ServicesInv, TypeOK, NoForm
  <2>4. IdsBounded'
    BY <2>1, <2>2, NoneIsNothing DEF ServicesInv, TypeOK, IdsBounded, NoForm
  <2>5. FormsOK'
    BY <2>1, <2>2 DEF ServicesInv, TypeOK, FormsOK, NoForm
  <2>6. CursorOK' /\ ContentsOnce'
    BY <2>2 DEF ServicesInv, CursorOK, ContentsOnce
  <2>7. QED
    BY <2>3, <2>4, <2>5, <2>6 DEF ServicesInv
<1>4. QED
  BY <1>1, <1>2, <1>3

\* The step of save or delete that takes equal contents out of the list.  Nobody
\* else is inside, so no request is about to add anything.
LEMMA RemovingStep ==
  ASSUME ServicesInv, NEW a \in Admin, NEW c, NEW f, MayEnter,
         ChangeDao(Without(c)), form' = [form EXCEPT ![a] = f], monitor' = a,
         UNCHANGED <<services, registered>>,
         ops' \in [saves : 0..MaxOps, deletes : 0..MaxOps],
         ops'.saves + ops'.deletes <= MaxOps, ops'.saves >= ops.saves,
         f \in [pc : {"add", "unmap"}, id : Id, c : Content \cup {None}],
         f.pc = "add" => f.c = c /\ c \in Content,
         f.id <= ops'.saves
  PROVE  ServicesInv'
<1>1. dao \in Seq(Entry) /\ ContentsOnce
  BY DEF ServicesInv, TypeOK, Entry
<1>2. Without(c) \in Seq(Entry)
  BY <1>1, WithoutSpec
<1>3. \A k \in DOMAIN Without(c) :
        Without(c)[k].c # c /\ \E l \in DOMAIN dao : Without(c)[k] = dao[l]
  BY <1>1, WithoutSpec
<1>4. \A k, l \in DOMAIN Without(c) : Without(c)[k].c = Without(c)[l].c => k = l
  BY <1>1, WithoutSpec
<1>5. dao' = Without(c) /\ reload' = [reload EXCEPT !.dirty = @ \/ Without(c) # dao]
  BY DEF ChangeDao
<1>6. reload'.pc = reload.pc /\ reload'.cursor = reload.cursor /\ reload'.local = reload.local
      /\ reload'.dirty \in BOOLEAN /\ (~reload'.dirty => ~reload.dirty /\ dao' = dao)
  BY <1>5 DEF ServicesInv, TypeOK
<1>7. monitor = None
  BY DEF MayEnter
<1>8. TypeOK'
  <2>1. reload' \in [pc : {"off", "scan", "publish"}, cursor : Nat,
                     local : [Id -> Content \cup {None}], dirty : BOOLEAN]
    BY <1>5 DEF ServicesInv, TypeOK
  <2>2. QED
    BY <2>1, <1>2, <1>5 DEF ServicesInv, TypeOK, Entry
<1>9. IdsBounded'
  <2>1. \A k \in DOMAIN dao' : dao'[k].id <= ops.saves
    BY <1>3, <1>5 DEF ServicesInv, IdsBounded
  <2>2. \A k \in DOMAIN dao' : dao'[k].id <= ops'.saves
    <3> TAKE k \in DOMAIN dao'
    <3>1. dao'[k] \in Entry
      BY <1>2, <1>5
    <3>2. QED
      BY <3>1, <2>1, OpsBound DEF ServicesInv, TypeOK, Entry, Id
  <2>3. \A id \in Id : services'[id] # None \/ reload'.local[id] # None => id <= ops'.saves
    BY <1>6, OpsBound DEF ServicesInv, TypeOK, IdsBounded, Id
  <2>4. \A b \in Admin : form'[b].id \in Id => form'[b].id <= ops'.saves
    BY OpsBound DEF ServicesInv, TypeOK, IdsBounded, Id
  <2>5. QED
    BY <2>2, <2>3, <2>4 DEF IdsBounded
<1>10. FormsOK'
  <2> SUFFICES ASSUME NEW b \in Admin
               PROVE  /\ form'[b].pc \in {"validate", "save"} => form'[b].id # None
                      /\ form'[b].pc \in {"add", "put", "unmap"} =>
                           monitor' = b /\ form'[b].id \in Id
                      /\ form'[b].pc \in {"validate", "save", "add", "put"} => form'[b].c # None
                      /\ form'[b].pc = "add" => \A k \in DOMAIN dao' : dao'[k].c # form'[b].c
    BY DEF FormsOK
  <2>1. CASE b = a
    <3>1. form'[b] = f
      BY <2>1 DEF ServicesInv, TypeOK
    <3>2. f.pc \in {"add", "unmap"} /\ f.id \in Id
      OBVIOUS
    <3>3. f.pc = "add" => f.c # None
      BY NoneIsNothing
    <3>4. f.pc = "add" => \A k \in DOMAIN dao' : dao'[k].c # f.c
      BY <1>3, <1>5
    <3>5. QED
      BY <2>1, <3>1, <3>2, <3>3, <3>4
  <2>2. CASE b # a
    <3>1. form'[b] = form[b]
      BY <2>2 DEF ServicesInv, TypeOK
    <3>2. form[b].pc \notin {"add", "put", "unmap"}
      BY <1>7, NoneIsNothing DEF ServicesInv, FormsOK
    <3>3. QED
      BY <3>1, <3>2 DEF ServicesInv, FormsOK
  <2>3. QED
    BY <2>1, <2>2
<1>11. CursorOK'
  BY <1>6 DEF ServicesInv, CursorOK
<1>12. ContentsOnce'
  BY <1>4, <1>5 DEF ContentsOnce
<1>13. QED
  BY <1>8, <1>9, <1>10, <1>11, <1>12 DEF ServicesInv

LEMMA SaveRemoveStep ==
  ASSUME ServicesInv, NEW a \in Admin, SaveRemove(a)
  PROVE  ServicesInv'
<1> DEFINE id == IF form[a].id = New THEN FindHighestId + 1 ELSE form[a].id
           f == [pc |-> "add", id |-> id, c |-> form[a].c]
<1>1. form[a].pc = "save" /\ form[a].id \in Id \cup {New} /\ form[a].c \in Content
  BY DEF ServicesInv, TypeOK, FormsOK, SaveRemove
<1>2. ops.saves \in Id /\ ops.saves + 1 + ops.deletes <= MaxOps /\ ops.saves \in Nat
      /\ ops.deletes \in Nat /\ ops.deletes <= MaxOps /\ MaxOps \in Nat
  BY OpsBound DEF ServicesInv, TypeOK, SaveRemove, MayEnter, Id
<1>3. ops' = [ops EXCEPT !.saves = @ + 1]
  BY DEF SaveRemove
<1>4. /\ ops' \in [saves : 0..MaxOps, deletes : 0..MaxOps]
      /\ ops'.saves = ops.saves + 1 /\ ops'.deletes = ops.deletes
  BY <1>2, <1>3 DEF ServicesInv, TypeOK
<1>5. FindHighestId \in 0..ops.saves
  BY <1>2, HighestIdBounded DEF ServicesInv, TypeOK, IdsBounded, Entry
<1>6. id \in Id /\ id <= ops.saves + 1
  BY <1>1, <1>2, <1>5 DEF ServicesInv, IdsBounded, Id, New
<1>7. form' = [form EXCEPT ![a] = f]
  <2>1. form' = [form EXCEPT ![a].pc = "add",
                             ![a].id = IF @ = New THEN FindHighestId + 1 ELSE @]
    BY DEF SaveRemove
  <2>2. form \in [Admin -> [pc : {"idle", "validate", "save", "add", "put", "unmap"},
                            id : Id \cup {New, None}, c : Content \cup {None}]]
    BY DEF ServicesInv, TypeOK
  <2>3. [[form[a] EXCEPT !.pc = "add"] EXCEPT !.id = id] = f
    <3> HIDE DEF id
    <3>1. PICK q, i, x : form[a] = [pc |-> q, id |-> i, c |-> x]
      BY <2>2
    <3>2. f = [pc |-> "add", id |-> id, c |-> x]
      BY <3>1
    <3>3. [[pc |-> q, id |-> i, c |-> x] EXCEPT !.pc = "add"] = [pc |-> "add", id |-> i, c |-> x]
      OBVIOUS
    <3>4. [[pc |-> "add", id |-> i, c |-> x] EXCEPT !.id = id] = [pc |-> "add", id |-> id, c |-> x]
      OBVIOUS
    <3> HIDE DEF f
    <3>5. QED
      BY <3>1, <3>2, <3>3, <3>4
  <2>4. form' = [form EXCEPT ![a] = [[form[a] EXCEPT !.pc = "add"] EXCEPT !.id = id]]
    BY <2>1, <2>2
  <2>5. QED
    BY <2>3, <2>4
<1> HIDE DEF id
<1>8. f \in [pc : {"add", "unmap"}, id : Id, c : Content \cup {None}]
  BY <1>1, <1>6
<1>9. ChangeDao(Without(form[a].c)) /\ MayEnter /\ monitor' = a /\ UNCHANGED <<services, registered>>
  BY DEF SaveRemove
<1>10. ops'.saves + ops'.deletes <= MaxOps /\ ops'.saves >= ops.saves /\ f.id <= ops'.saves
  BY <1>2, <1>4, <1>6
<1>11. f.pc = "add" /\ f.c = form[a].c
  OBVIOUS
<1> HIDE DEF f
<1>12. QED
  BY <1>1, <1>4, <1>7, <1>8, <1>9, <1>10, <1>11, RemovingStep

LEMMA DeleteDaoStep ==
  ASSUME ServicesInv, NEW a \in Admin, NEW id \in Id, DeleteDao(a, id)
  PROVE  ServicesInv'
<1> DEFINE f == [pc |-> "unmap", id |-> id, c |-> None]
<1>1. ops.saves \in Nat /\ ops.deletes \in Nat /\ MaxOps \in Nat
      /\ ops.saves + ops.deletes + 1 <= MaxOps
  BY OpsBound DEF ServicesInv, TypeOK, DeleteDao, MayEnter
<1>2. ops' = [ops EXCEPT !.deletes = @ + 1]
  BY DEF DeleteDao
<1>3. /\ ops' \in [saves : 0..MaxOps, deletes : 0..MaxOps]
      /\ ops'.saves = ops.saves /\ ops'.deletes = ops.deletes + 1
  BY <1>1, <1>2 DEF ServicesInv, TypeOK
<1>4. id <= ops.saves
  BY DEF ServicesInv, IdsBounded, DeleteDao, Served
<1>5. /\ ChangeDao(Without(services[id])) /\ MayEnter /\ monitor' = a
      /\ form' = [form EXCEPT ![a] = f] /\ UNCHANGED <<services, registered>>
  BY DEF DeleteDao
<1>6. f \in [pc : {"add", "unmap"}, id : Id, c : Content \cup {None}] /\ f.pc # "add"
  OBVIOUS
<1>7. ops'.saves + ops'.deletes <= MaxOps /\ ops'.saves >= ops.saves /\ f.id <= ops'.saves
  BY <1>1, <1>3, <1>4
<1> HIDE DEF f
<1>8. QED
  BY <1>3, <1>5, <1>6, <1>7, RemovingStep

LEMMA SaveAddStep ==
  ASSUME ServicesInv, NEW a \in Admin, SaveAdd(a)
  PROVE  ServicesInv'
<1> DEFINE e == [id |-> form[a].id, c |-> form[a].c]
<1>1. form[a].pc = "add" /\ monitor = a /\ e \in Entry
  BY DEF ServicesInv, TypeOK, FormsOK, SaveAdd, Entry
<1>2. dao \in Seq(Entry) /\ \A k \in DOMAIN dao : dao[k].c # e.c
  BY <1>1 DEF ServicesInv, TypeOK, FormsOK, Entry
<1>3. e.id <= ops.saves
  BY <1>1 DEF ServicesInv, IdsBounded, Entry
<1>4. dao' = Append(dao, e) /\ reload' = [reload EXCEPT !.dirty = @ \/ Append(dao, e) # dao]
  BY DEF SaveAdd, ChangeDao
<1> HIDE DEF e
<1>5. /\ dao' \in Seq(Entry)
      /\ \A k \in DOMAIN dao' : (k \in DOMAIN dao /\ dao'[k] = dao[k]) \/ dao'[k] = e
      /\ \A k, l \in DOMAIN dao' : dao'[k] = e /\ dao'[l] = e => k = l
      /\ Append(dao, e) # dao
  <2>1. Len(dao) \in Nat /\ DOMAIN dao = 1..Len(dao)
    BY <1>2
  <2>2. dao' \in Seq(Entry) /\ Len(dao') = Len(dao) + 1 /\ DOMAIN dao' = 1..Len(dao) + 1
    BY <1>1, <1>2, <1>4
  <2>3. dao'[Len(dao) + 1] = e /\ \A k \in 1..Len(dao) : dao'[k] = dao[k]
    BY <1>1, <1>2, <1>4
  <2>4. \A k \in 1..Len(dao) : dao'[k] # e
    BY <2>1, <2>3, <1>2
  <2>5. \A k \in DOMAIN dao' : (k \in DOMAIN dao /\ dao'[k] = dao[k]) \/ dao'[k] = e
    BY <2>1, <2>2, <2>3
  <2>6. \A k \in DOMAIN dao' : dao'[k] = e => k = Len(dao) + 1
    BY <2>1, <2>2, <2>4
  <2>7. Append(dao, e) # dao
    <3>1. dao' = Append(dao, e)
      BY <1>4, Zenon
    <3>2. \A n \in Nat : n + 1 # n
      OBVIOUS
    <3>3. Len(Append(dao, e)) # Len(dao)
      BY <2>1, <2>2, <3>1, <3>2, Zenon
    <3>4. QED
      BY <3>3, Zenon
  <2>8. QED
    BY <2>2, <2>5, <2>6, <2>7
<1>6. reload' \in [pc : {"off", "scan", "publish"}, cursor : Nat,
                   local : [Id -> Content \cup {None}], dirty : BOOLEAN]
      /\ reload'.dirty /\ reload'.local = reload.local
  BY <1>4, <1>5 DEF ServicesInv, TypeOK
<1>7. form' = [form EXCEPT ![a].pc = "put"] /\ UNCHANGED <<services, monitor, ops, registered>>
  BY DEF SaveAdd
<1>8. TypeOK'
  BY <1>5, <1>6, <1>7 DEF ServicesInv, TypeOK, Entry
<1>9. IdsBounded'
  <2>1. \A k \in DOMAIN dao' : dao'[k].id <= ops'.saves
    BY <1>3, <1>5, <1>7 DEF ServicesInv, IdsBounded
  <2>2. \A b \in Admin : form'[b].id = form[b].id
    BY <1>7 DEF ServicesInv, TypeOK
  <2>3. QED
    BY <1>6, <1>7, <2>1, <2>2 DEF ServicesInv, IdsBounded
<1>10. FormsOK'
  <2>1. \A b \in Admin : form'[b].id = form[b].id /\ form'[b].c = form[b].c
                         /\ form'[b].pc = IF b = a THEN "put" ELSE form[b].pc
    BY <1>7 DEF ServicesInv, TypeOK
  <2>2. \A b \in Admin : form[b].pc = "add" => b = a
    BY <1>1 DEF ServicesInv, FormsOK
  <2>3. QED
    BY <1>1, <1>7, <2>1, <2>2 DEF ServicesInv, FormsOK
<1>11. CursorOK'
  BY <1>6 DEF CursorOK
<1>12. ContentsOnce'
  <2> SUFFICES ASSUME NEW k \in DOMAIN dao', NEW l \in DOMAIN dao', dao'[k].c = dao'[l].c
               PROVE  k = l
    BY DEF ContentsOnce
  <2>1. QED
    BY <1>2, <1>5 DEF ServicesInv, ContentsOnce
<1>13. QED
  BY <1>8, <1>9, <1>10, <1>11, <1>12 DEF ServicesInv

LEMMA MapSteps ==
  ASSUME ServicesInv, NEW a \in Admin, SavePut(a) \/ DeleteMap(a)
  PROVE  ServicesInv'
<1>1. /\ form[a].pc \in {"put", "unmap"} /\ form[a].id \in Id /\ monitor = a
      /\ form[a].pc = "put" => form[a].c \in Content
  BY DEF ServicesInv, TypeOK, FormsOK, SavePut, DeleteMap
<1>2. PICK v \in Content \cup {None} : /\ services' = [services EXCEPT ![form[a].id] = v]
                                    /\ registered' = [registered EXCEPT ![form[a].id] = v]
  BY <1>1 DEF SavePut, DeleteMap
<1>3. monitor' = None /\ form' = [form EXCEPT ![a] = NoForm] /\ UNCHANGED <<dao, reload, ops>>
  BY DEF SavePut, DeleteMap
<1>4. TypeOK'
  BY <1>1, <1>2, <1>3 DEF ServicesInv, TypeOK, NoForm
<1>5. IdsBounded'
  <2>1. form[a].id <= ops.saves
    BY <1>1 DEF ServicesInv, IdsBounded
  <2>2. \A id \in Id : services'[id] # None => id <= ops.saves
    BY <1>2, <2>1 DEF ServicesInv, TypeOK, IdsBounded
  <2>3. \A b \in Admin : form'[b].id \in Id => form'[b].id <= ops.saves
    BY <1>3, NoneIsNothing DEF ServicesInv, TypeOK, IdsBounded, NoForm
  <2>4. QED
    BY <1>3, <2>2, <2>3 DEF ServicesInv, IdsBounded
<1>6. FormsOK'
  <2>1. \A b \in Admin : b # a => form'[b] = form[b] /\ form[b].pc \notin {"add", "put", "unmap"}
    BY <1>1, <1>3 DEF ServicesInv, TypeOK, FormsOK
  <2>2. form'[a].pc = "idle"
    BY <1>3 DEF ServicesInv, TypeOK, NoForm
  <2>3. QED
    BY <2>1, <2>2 DEF ServicesInv, FormsOK
<1>7. CursorOK' /\ ContentsOnce'
  BY <1>3 DEF ServicesInv, CursorOK, ContentsOnce
<1>8. QED
  BY <1>4, <1>5, <1>6, <1>7 DEF ServicesInv

LEMMA ReloadStep ==
  ASSUME ServicesInv, Reload
  PROVE  ServicesInv'
<1>1. UNCHANGED <<dao, monitor, form, ops, registered>>
  BY DEF Reload, ReloadBegin, ReloadNext, ReloadEnd, ReloadPublish
<1>2. Nothing \in [Id -> Content \cup {None}] /\ \A id \in Id : Nothing[id] = None
  BY DEF Nothing
<1>3. FormsOK' /\ ContentsOnce'
  BY <1>1 DEF ServicesInv, FormsOK, ContentsOnce
<1>4. /\ reload' \in [pc : {"off", "scan", "publish"}, cursor : Nat,
                      local : [Id -> Content \cup {None}], dirty : BOOLEAN]
      /\ services' \in [Id -> Content \cup {None}]
      /\ \A id \in Id : services'[id] # None \/ reload'.local[id] # None => id <= ops.saves
      /\ reload'.pc = "scan" /\ ~reload'.dirty => reload'.cursor \in 1..Len(dao) + 1
  <2>1. CASE ReloadBegin
    <3>1. reload' = [pc |-> "scan", cursor |-> 1, local |-> Nothing, dirty |-> FALSE]
          /\ UNCHANGED services
      BY <2>1 DEF ReloadBegin, NoReload
    <3>2. 1 \in 1..Len(dao) + 1
      BY DEF ServicesInv, TypeOK
    <3> HIDE DEF Nothing
    <3>3. QED
      BY <3>1, <3>2, <1>2 DEF ServicesInv, TypeOK, IdsBounded
  <2>2. CASE ReloadNext /\ reload.dirty
    BY <2>2, <1>2 DEF ServicesInv, TypeOK, IdsBounded, ReloadNext, NoReload
  <2>3. CASE ReloadNext /\ ~reload.dirty
    <3> DEFINE e == dao[reload.cursor]
    <3>1. Len(dao) \in Nat /\ reload.cursor \in 1..Len(dao)
      BY <2>3 DEF ServicesInv, TypeOK, CursorOK, ReloadNext, HasNext
    <3>2. e \in Entry /\ e.id <= ops.saves
      <4>1. dao \in Seq(Entry) /\ \A k \in DOMAIN dao : dao[k].id <= ops.saves
        BY DEF ServicesInv, TypeOK, IdsBounded, Entry
      <4>2. reload.cursor \in DOMAIN dao
        BY <3>1, <4>1
      <4>3. QED
        BY <4>1, <4>2
    <3>3. reload' = [reload EXCEPT !.cursor = @ + 1, !.local[e.id] = e.c]
          /\ UNCHANGED services /\ ~reload.dirty
      BY <2>3 DEF ReloadNext
    <3> HIDE DEF e
    <3>4. reload \in [pc : {"off", "scan", "publish"}, cursor : Nat,
                     local : [Id -> Content \cup {None}], dirty : BOOLEAN]
          /\ services \in [Id -> Content \cup {None}]
          /\ \A id \in Id : services[id] # None \/ reload.local[id] # None => id <= ops.saves
      BY DEF ServicesInv, TypeOK, IdsBounded
    <3>5. e.id \in Id /\ e.c \in Content
      BY <3>2 DEF Entry
    <3>6. reload' \in [pc : {"off", "scan", "publish"}, cursor : Nat,
                      local : [Id -> Content \cup {None}], dirty : BOOLEAN]
          /\ reload'.cursor = reload.cursor + 1
          /\ reload'.local = [reload.local EXCEPT ![e.id] = e.c]
      <4> DEFINE L == [reload.local EXCEPT ![e.id] = e.c]
      <4>1. PICK q, k, m, d : reload = [pc |-> q, cursor |-> k, local |-> m, dirty |-> d]
        BY <3>4
      <4>2. reload' = [pc |-> q, cursor |-> k + 1, local |-> L, dirty |-> d]
        BY <3>3, <4>1
      <4>3. L \in [Id -> Content \cup {None}]
        BY <3>4, <3>5
      <4> HIDE DEF L
      <4>4. k \in Nat /\ q \in {"off", "scan", "publish"} /\ d \in BOOLEAN
        BY <3>4, <4>1
      <4>5. reload.cursor = k
        BY <4>1
      <4>6. QED
        BY <4>2, <4>3, <4>4, <4>5 DEF L
    <3>7. \A id \in Id : reload'.local[id] # None => id <= ops.saves
      BY <3>2, <3>4, <3>5, <3>6
    <3>8. QED
      BY <3>1, <3>3, <3>4, <3>6, <3>7
  <2>4. CASE ReloadEnd
    BY <2>4 DEF ServicesInv, TypeOK, IdsBounded, ReloadEnd
  <2>5. CASE ReloadPublish
    BY <2>5, <1>2 DEF ServicesInv, TypeOK, IdsBounded, ReloadPublish, NoReload
  <2>6. QED
    BY <2>1, <2>2, <2>3, <2>4, <2>5 DEF Reload
<1>5. TypeOK' /\ IdsBounded' /\ CursorOK'
  BY <1>1, <1>4 DEF ServicesInv, TypeOK, IdsBounded, CursorOK
<1>6. QED
  BY <1>3, <1>5 DEF ServicesInv

LEMMA ServicesStep == ServicesInv /\ [Next]_vars => ServicesInv'
<1> SUFFICES ASSUME ServicesInv, [Next]_vars PROVE ServicesInv'
  OBVIOUS
<1>1. CASE Reload
  BY <1>1, ReloadStep
<1>2. ASSUME NEW a \in Admin, Administer(a) PROVE ServicesInv'
  BY <1>2, RequestSteps, DeleteDaoStep DEF Administer
<1>3. ASSUME NEW a \in Admin, Proceed(a) PROVE ServicesInv'
  BY <1>3, RequestSteps, SaveRemoveStep, SaveAddStep, MapSteps DEF Proceed
<1>4. CASE UNCHANGED vars
  BY <1>4 DEF ServicesInv, TypeOK, IdsBounded, FormsOK, CursorOK, ContentsOnce, vars
<1>5. QED
  BY <1>1, <1>2, <1>3, <1>4 DEF Next

\* The types, the bound on the ids, the monitor's discipline and the position of
\* the reload's iterator hold in every state.
THEOREM ServicesInvariant == Spec => []ServicesInv
  BY ServicesInit, ServicesStep, PTL DEF Spec

\* Save and delete find the registration they mean: the list has no doubles,
\* however many administrators edit and whenever reloads run.
THEOREM ListHasNoDoubles == Spec => []ContentsOnce
<1>1. ServicesInv => ContentsOnce
  BY DEF ServicesInv
<1>2. QED
  BY ServicesInvariant, <1>1, PTL

-------------------------------------------------------------------------------
(* What the list says of an id.                                            *)

\* It says one thing.
LEMMA LastOfOne ==
  ASSUME NEW s, NEW n \in Nat, NEW id, NEW v, NEW w, LastOf(s, n, id, v), LastOf(s, n, id, w)
  PROVE  v = w
<1>1. CASE \A k \in 1..n : s[k].id # id
  BY <1>1 DEF LastOf
<1>2. CASE \E k \in 1..n : s[k].id = id
  <2>1. PICK k \in 1..n : s[k] = [id |-> id, c |-> v] /\ \A l \in k + 1 .. n : s[l].id # id
    BY <1>2 DEF LastOf
  <2>2. PICK l \in 1..n : s[l] = [id |-> id, c |-> w] /\ \A m \in l + 1 .. n : s[m].id # id
    BY <1>2 DEF LastOf
  <2>3. k = l
    BY <2>1, <2>2
  <2>4. QED
    BY <2>1, <2>2, <2>3
<1>3. QED
  BY <1>1, <1>2

\* One more element is what is said of its id, and changes no other.
LEMMA LastOfNext ==
  ASSUME NEW s, NEW t, NEW n \in Nat, \A k \in 1..n : t[k] = s[k],
         NEW e \in Entry, t[n + 1] = e, NEW id
  PROVE  /\ LastOf(t, n + 1, e.id, e.c)
         /\ \A v : id # e.id /\ LastOf(s, n, id, v) => LastOf(t, n + 1, id, v)
<1>1. e = [id |-> e.id, c |-> e.c]
  BY DEF Entry
<1>2. n + 1 \in 1..n + 1 /\ \A l \in (n + 1) + 1 .. n + 1 : FALSE
  OBVIOUS
<1>3. LastOf(t, n + 1, e.id, e.c)
  BY <1>1, <1>2 DEF LastOf
<1>4. ASSUME NEW v, id # e.id, LastOf(s, n, id, v)
      PROVE  LastOf(t, n + 1, id, v)
  <2>1. \A k \in 1..n + 1 : k \in 1..n \/ k = n + 1
    OBVIOUS
  <2>2. CASE v = None /\ \A k \in 1..n : s[k].id # id
    <3>1. \A k \in 1..n + 1 : t[k].id # id
      BY <2>1, <2>2, <1>4
    <3>2. QED
      BY <2>2, <3>1 DEF LastOf
  <2>3. CASE \E k \in 1..n : s[k] = [id |-> id, c |-> v] /\ \A l \in k + 1 .. n : s[l].id # id
    <3>1. PICK k \in 1..n : s[k] = [id |-> id, c |-> v] /\ \A l \in k + 1 .. n : s[l].id # id
      BY <2>3
    <3>2. k \in 1..n + 1 /\ t[k] = [id |-> id, c |-> v]
      BY <3>1
    <3>3. ASSUME NEW l \in k + 1 .. n + 1 PROVE t[l].id # id
      <4>1. l \in k + 1 .. n \/ l = n + 1
        OBVIOUS
      <4>2. l \in k + 1 .. n => l \in 1..n
        OBVIOUS
      <4>3. QED
        BY <4>1, <4>2, <3>1, <1>4
    <3>4. QED
      BY <3>2, <3>3 DEF LastOf
  <2>4. QED
    BY <1>4, <2>2, <2>3 DEF LastOf
<1>5. QED
  BY <1>3, <1>4

\* Removing contents that are not what the list says of an id changes nothing
\* of what it says.
LEMMA LastOfWithout ==
  ASSUME dao \in Seq(Entry), ContentsOnce, NEW c, NEW id, NEW v, v # c,
         LastOf(dao, Len(dao), id, v)
  PROVE  LastOf(Without(c), Len(Without(c)), id, v)
<1> DEFINE n == Len(dao)
<1>1. n \in Nat /\ DOMAIN dao = 1..n
  OBVIOUS
<1>2. CASE Without(c) = dao
  BY <1>2
<1>3. CASE \E i \in DOMAIN dao : dao[i].c = c /\ Without(c) = RemoveAt(dao, i)
  <2>1. PICK i \in 1..n : dao[i].c = c /\ Without(c) = RemoveAt(dao, i)
    BY <1>1, <1>3
  <2> DEFINE left == Without(c)
  <2>2. /\ Len(left) = n - 1
        /\ \A k \in 1..n - 1 : left[k] = IF k < i THEN dao[k] ELSE dao[k + 1]
    BY <1>1, <2>1, RemovedAt
  <2> HIDE DEF left, n
  <2>3. CASE v = None /\ \A k \in 1..n : dao[k].id # id
    <3>1. \A k \in 1..n - 1 : left[k].id # id
      BY <2>2, <2>3, <1>1
    <3>2. QED
      BY <2>2, <2>3, <3>1 DEF LastOf, left
  <2>4. CASE \E k \in 1..n : dao[k] = [id |-> id, c |-> v] /\ \A l \in k + 1 .. n : dao[l].id # id
    <3>1. PICK k \in 1..n : dao[k] = [id |-> id, c |-> v] /\ \A l \in k + 1 .. n : dao[l].id # id
      BY <2>4
    <3>2. k # i
      BY <2>1, <3>1
    <3>3. PICK j \in 1..n - 1 : j = IF k < i THEN k ELSE k - 1
      BY <3>2, <1>1
    <3>4. left[j] = [id |-> id, c |-> v]
      BY <1>1, <2>2, <3>1, <3>2, <3>3
    <3>5. ASSUME NEW l \in j + 1 .. n - 1 PROVE left[l].id # id
      <4>1. l \in 1..n - 1
        BY <1>1
      <4>2. CASE l < i
        <5>1. l \in k + 1 .. n /\ left[l] = dao[l]
          BY <1>1, <2>2, <3>2, <3>3, <4>1, <4>2
        <5>2. QED
          BY <3>1, <5>1
      <4>3. CASE ~(l < i)
        <5>1. l + 1 \in k + 1 .. n /\ left[l] = dao[l + 1]
          BY <1>1, <2>2, <3>2, <3>3, <4>1, <4>3
        <5>2. QED
          BY <3>1, <5>1
      <4>4. QED
        BY <4>2, <4>3
    <3>6. QED
      BY <2>2, <3>4, <3>5 DEF LastOf, left
  <2>5. QED
    BY <2>3, <2>4 DEF LastOf, n
<1>4. QED
  BY <1>2, <1>3, WithoutCases

-------------------------------------------------------------------------------
(* What is served is what was saved last.                                  *)

\* The part of the invariant that says so.
NewestServed ==
  services = registered /\ SidsDistinct /\ SaveTargets /\ StoreAgrees /\ NothingDeleted

LEMMA NewestInit == Init => NewestInv
<1> SUFFICES ASSUME Init PROVE NewestInv
  OBVIOUS
<1>1. ServicesInv
  BY ServicesInit
<1>2. /\ dao = <<[id |-> 0, c |-> Deployed]>> /\ Len(dao) = 1 /\ dao[1] = [id |-> 0, c |-> Deployed]
      /\ services = [Nothing EXCEPT ![0] = Deployed] /\ services = registered
      /\ monitor = None /\ reload.pc = "off" /\ \A a \in Admin : form[a].pc = "idle"
  BY DEF Init, NoForm, NoReload
<1>3. 0 \in Id
  BY OpsBound DEF Id
<1>4. services[0] = Deployed /\ \A id \in Id : id # 0 => services[id] = None
  BY <1>2, <1>3 DEF Nothing
<1>5. ReloadAgrees
  BY <1>2 DEF ReloadAgrees
<1>6. SidsDistinct /\ SaveTargets /\ NothingDeleted
  BY <1>2, <1>4 DEF SidsDistinct, SaveTargets, NothingDeleted, Served
<1>7. ASSUME NEW id \in Id PROVE LastOf(dao, Len(dao), id, services[id])
  <2>1. CASE id = 0
    <3>1. 1 \in 1..Len(dao) /\ \A l \in 1 + 1 .. Len(dao) : dao[l].id # id
      BY <1>2
    <3>2. QED
      BY <2>1, <3>1, <1>2, <1>4 DEF LastOf
  <2>2. CASE id # 0
    <3>1. \A k \in 1..Len(dao) : dao[k].id # id
      BY <2>2, <1>2
    <3>2. QED
      BY <2>2, <3>1, <1>4 DEF LastOf
  <2>3. QED
    BY <2>1, <2>2
<1>8. StoreAgrees
  BY <1>2, <1>7 DEF StoreAgrees
<1>9. QED
  BY <1>1, <1>2, <1>5, <1>6, <1>8 DEF NewestInv

\* Posts and re-orderings aim at no other registration's service id, and those
\* that validation lets through do not either.
LEMMA NewestRequests ==
  ASSUME ServicesInv, ReloadAgrees, OneAtATime, OwnOrders, NEW a \in Admin,
         \/ \E c \in Content, id \in Id \cup {New} : Post(a, id, c)
         \/ \E c \in Content, id \in Id : Reorder(a, id, c)
         \/ Validate(a)
  PROVE  ReloadAgrees' /\ UNCHANGED ops /\ (NewestServed => NewestServed')
<1>1. UNCHANGED <<dao, services, monitor, reload, ops, registered>>
  BY DEF Post, Reorder, Validate
<1>2. ReloadAgrees'
  BY <1>1 DEF ReloadAgrees, LastOf
<1>3. \A b \in Admin : b = a
  BY DEF OneAtATime
<1>4. form[a].pc \in {"idle", "validate"} /\ form'[a].pc \in {"idle", "validate", "save"}
  BY DEF ServicesInv, TypeOK, Post, Reorder, Validate, NoForm
<1>5. StoreAgrees => StoreAgrees'
  BY <1>1, <1>3, <1>4 DEF StoreAgrees, BeingSaved, LastOf
<1>6. ASSUME SidsDistinct, form'[a].pc = "save", NEW i \in Served, services[i].sid = form'[a].c.sid
      PROVE  i = form'[a].id
  <2>1. CASE \E c \in Content, id \in Id \cup {New} : Post(a, id, c)
    BY <2>1, <1>6 DEF ServicesInv, TypeOK, Post
  <2>2. CASE \E c \in Content, id \in Id : Reorder(a, id, c)
    <3>1. PICK c \in Content, id \in Id : Reorder(a, id, c)
      BY <2>2
    <3>2. form'[a].id = id /\ form'[a].c = c /\ id \in Served /\ services[id].sid = c.sid
      BY <3>1 DEF ServicesInv, TypeOK, Reorder
    <3>3. QED
      BY <3>2, <1>6 DEF SidsDistinct
  <2>3. CASE Validate(a)
    <3>1. PICK S \in Listings :
            form' = [form EXCEPT ![a] = IF Conflicts(form[a].id, form[a].c, S)
                                        THEN NoForm ELSE [@ EXCEPT !.pc = "save"]]
      BY <2>3 DEF Validate
    <3>2. /\ ~Conflicts(form[a].id, form[a].c, S)
          /\ form'[a].id = form[a].id /\ form'[a].c = form[a].c
      BY <3>1, <1>6 DEF ServicesInv, TypeOK, NoForm
    <3>3. PICK j \in S : services[i].key = services[j].key
      BY <1>6 DEF Listings
    <3>4. j \in Served /\ services[i] \in Content /\ services[j] \in Content
      BY <3>3 DEF Listings, Served, ServicesInv, TypeOK
    <3>5. services[j].sid = services[i].sid
      BY <3>3, <3>4 DEF OwnOrders
    <3>6. j = form[a].id
      BY <3>2, <3>5, <1>6 DEF Conflicts
    <3>7. QED
      BY <3>2, <3>4, <3>5, <3>6, <1>6 DEF SidsDistinct
  <2>4. QED
    BY <2>1, <2>2, <2>3
<1>7. NewestServed => NewestServed'
  <2> SUFFICES ASSUME NewestServed PROVE SaveTargets'
    BY <1>1, <1>3, <1>4, <1>5 DEF NewestServed, SidsDistinct, NothingDeleted, Served
  <2>1. QED
    BY <1>1, <1>3, <1>4, <1>6 DEF NewestServed, SaveTargets, Served
<1>8. QED
  BY <1>1, <1>2, <1>7

\* A save takes its contents out of the list only where the list says something
\* else of the id, or where it is about to say it again.
LEMMA NewestSaveRemove ==
  ASSUME ServicesInv, ReloadAgrees, OneAtATime, NEW a \in Admin, SaveRemove(a)
  PROVE  ReloadAgrees' /\ (NewestServed => NewestServed')
<1>1. form[a].pc = "save" /\ form[a].id \in Id \cup {New} /\ form[a].c \in Content
  BY DEF ServicesInv, TypeOK, FormsOK, SaveRemove
<1>2. /\ monitor = None /\ reload.pc = "off" /\ UNCHANGED <<services, registered>>
      /\ dao' = Without(form[a].c) /\ reload'.pc = "off"
  BY DEF SaveRemove, MayEnter, ChangeDao, OneAtATime, ServicesInv, TypeOK
<1>3. ReloadAgrees'
  BY <1>2 DEF ReloadAgrees
<1>4. \A b \in Admin : b = a
  BY DEF OneAtATime
<1>5. /\ form'[a].pc = "add" /\ form'[a].c = form[a].c
      /\ form[a].id \in Id => form'[a].id = form[a].id
  BY <1>1, OpsBound DEF SaveRemove, ServicesInv, TypeOK, Id, New
<1>6. ASSUME NewestServed PROVE NewestServed'
  <2>1. \A i \in Served : services[i].sid = form[a].c.sid => i = form'[a].id
    BY <1>1, <1>5, <1>6 DEF NewestServed, SaveTargets, Served
  <2>2. SidsDistinct' /\ SaveTargets' /\ NothingDeleted'
    BY <1>2, <1>4, <1>5, <1>6, <2>1 DEF NewestServed, SidsDistinct, NothingDeleted, SaveTargets, Served
  <2>3. ASSUME NEW id \in Id, ~BeingSaved(id)'
        PROVE  LastOf(dao', Len(dao'), id, services[id])
    <3>1. id # form'[a].id
      BY <2>3, <1>5 DEF BeingSaved
    <3>2. services[id] # form[a].c
      BY <1>1, <2>1, <3>1, NoneIsNothing DEF Served
    <3>3. LastOf(dao, Len(dao), id, services[id])
      BY <1>1, <1>4, <1>6 DEF NewestServed, StoreAgrees, BeingSaved
    <3>4. QED
      BY <1>2, <3>2, <3>3, LastOfWithout DEF ServicesInv, TypeOK, Entry
  <2>4. StoreAgrees'
    BY <1>2, <1>4, <1>5, <2>3 DEF StoreAgrees
  <2>5. QED
    BY <1>2, <1>6, <2>2, <2>4 DEF NewestServed
<1>7. QED
  BY <1>3, <1>6

LEMMA NewestSaveAdd ==
  ASSUME ServicesInv, ReloadAgrees, OneAtATime, NEW a \in Admin, SaveAdd(a)
  PROVE  ReloadAgrees' /\ UNCHANGED ops /\ (NewestServed => NewestServed')
<1>1. form[a].pc = "add" /\ form[a].id \in Id /\ form[a].c \in Content /\ monitor = a
  BY DEF ServicesInv, TypeOK, FormsOK, SaveAdd
<1>2. reload.pc = "off"
  BY <1>1, NoneIsNothing DEF ReloadAgrees
<1>3. PICK e \in Entry : e = [id |-> form[a].id, c |-> form[a].c]
  BY <1>1 DEF Entry
<1>4. e.id = form[a].id /\ e.c = form[a].c
  BY <1>3
<1>5. /\ dao' = Append(dao, e) /\ reload'.pc = "off"
      /\ UNCHANGED <<services, monitor, ops, registered>>
  BY <1>2, <1>3 DEF SaveAdd, ChangeDao, ServicesInv, TypeOK
<1>6. ReloadAgrees'
  BY <1>5 DEF ReloadAgrees
<1>7. \A b \in Admin : b = a
  BY DEF OneAtATime
<1>8. form'[a].pc = "put" /\ form'[a].id = form[a].id /\ form'[a].c = form[a].c
  BY DEF SaveAdd, ServicesInv, TypeOK
<1>9. /\ Len(dao) \in Nat /\ Len(dao') = Len(dao) + 1 /\ dao'[Len(dao) + 1] = e
      /\ \A k \in 1..Len(dao) : dao'[k] = dao[k]
  <2>1. dao \in Seq(Entry)
    BY DEF ServicesInv, TypeOK, Entry
  <2>2. QED
    BY <2>1, <1>5
<1>10. /\ LastOf(dao', Len(dao'), e.id, e.c)
       /\ \A id, v : id # e.id /\ LastOf(dao, Len(dao), id, v) => LastOf(dao', Len(dao'), id, v)
  BY <1>9, LastOfNext
<1>11. ASSUME NewestServed PROVE NewestServed'
  <2>1. SidsDistinct' /\ SaveTargets' /\ NothingDeleted'
    BY <1>1, <1>5, <1>7, <1>8, <1>11 DEF NewestServed, SidsDistinct, NothingDeleted, SaveTargets, Served
  <2>2. ASSUME NEW id \in Id, ~BeingSaved(id)'
        PROVE  LastOf(dao', Len(dao'), id, services[id])
    <3>1. id # e.id
      BY <2>2, <1>4, <1>8 DEF BeingSaved
    <3>2. LastOf(dao, Len(dao), id, services[id])
      BY <1>4, <1>7, <1>11, <3>1 DEF NewestServed, StoreAgrees, BeingSaved
    <3>3. QED
      BY <1>10, <3>1, <3>2
  <2>3. StoreAgrees'
    BY <1>4, <1>5, <1>7, <1>8, <1>10, <2>2 DEF StoreAgrees
  <2>4. QED
    BY <1>5, <1>11, <2>1, <2>3 DEF NewestServed
<1>12. QED
  BY <1>5, <1>6, <1>11

LEMMA NewestSavePut ==
  ASSUME ServicesInv, ReloadAgrees, OneAtATime, NEW a \in Admin, SavePut(a)
  PROVE  ReloadAgrees' /\ UNCHANGED ops /\ (NewestServed => NewestServed')
<1>1. form[a].pc = "put" /\ form[a].id \in Id /\ form[a].c \in Content /\ monitor = a
  BY DEF ServicesInv, TypeOK, FormsOK, SavePut
<1>2. /\ services' = [services EXCEPT ![form[a].id] = form[a].c]
      /\ registered' = [registered EXCEPT ![form[a].id] = form[a].c]
      /\ form' = [form EXCEPT ![a] = NoForm] /\ UNCHANGED <<dao, reload, ops>>
  BY DEF SavePut
<1>3. ReloadAgrees'
  BY <1>1, <1>2, NoneIsNothing DEF ReloadAgrees, LastOf
<1>4. \A b \in Admin : b = a
  BY DEF OneAtATime
<1>5. form'[a].pc = "idle"
  BY <1>2 DEF ServicesInv, TypeOK, NoForm
<1>6. \A id \in Id : services'[id] = IF id = form[a].id THEN form[a].c ELSE services[id]
  BY <1>1, <1>2 DEF ServicesInv, TypeOK
<1>7. ASSUME NewestServed PROVE NewestServed'
  <2>1. SidsDistinct'
    <3> SUFFICES ASSUME NEW i \in Served', NEW j \in Served', services'[i].sid = services'[j].sid
                 PROVE  i = j
      BY DEF SidsDistinct
    <3>1. \A k \in Served' : k # form[a].id => k \in Served
      BY <1>6 DEF Served
    <3>2. \A k \in Served' : k \in Id
      BY DEF Served
    <3>3. QED
      BY <1>1, <1>6, <1>7, <3>1, <3>2 DEF NewestServed, SidsDistinct, SaveTargets
  <2>2. SaveTargets' /\ NothingDeleted'
    BY <1>4, <1>5 DEF SaveTargets, NothingDeleted
  <2>3. \A id \in Id : LastOf(dao, Len(dao), id, services'[id])
    BY <1>1, <1>4, <1>6, <1>7 DEF NewestServed, StoreAgrees, BeingSaved
  <2>4. StoreAgrees'
    BY <1>2, <1>4, <1>5, <2>3 DEF StoreAgrees
  <2>5. QED
    BY <1>2, <1>7, <2>1, <2>2, <2>4 DEF NewestServed
<1>8. QED
  BY <1>2, <1>3, <1>7

\* A delete ends what the invariant speaks of; the reloads stay what they are.
LEMMA NewestDelete ==
  ASSUME ServicesInv, ReloadAgrees, OneAtATime, ops.deletes = 0 => NewestServed,
         NEW a \in Admin, (\E id \in Id : DeleteDao(a, id)) \/ DeleteMap(a)
  PROVE  ReloadAgrees' /\ ops'.deletes # 0
<1>1. CASE \E id \in Id : DeleteDao(a, id)
  <2>1. PICK id \in Id : DeleteDao(a, id)
    BY <1>1
  <2>2. reload.pc = "off" /\ reload'.pc = "off" /\ ops' = [ops EXCEPT !.deletes = @ + 1]
    BY <2>1 DEF DeleteDao, MayEnter, ChangeDao, OneAtATime, ServicesInv, TypeOK
  <2>3. ops.deletes \in Nat /\ ops'.deletes = ops.deletes + 1
    BY <2>2, OpsBound DEF ServicesInv, TypeOK
  <2>4. QED
    BY <2>2, <2>3 DEF ReloadAgrees
<1>2. CASE DeleteMap(a)
  <2>1. form[a].pc = "unmap" /\ monitor = a /\ monitor' = None /\ UNCHANGED <<dao, reload, ops>>
    BY <1>2 DEF DeleteMap, ServicesInv, FormsOK
  <2>2. QED
    BY <2>1, NoneIsNothing DEF ReloadAgrees, LastOf, NewestServed, NothingDeleted
<1>3. QED
  BY <1>1, <1>2

\* A reload publishes what the list says, which is what is served already.
LEMMA NewestReload ==
  ASSUME ServicesInv, ReloadAgrees, OneAtATime, Reload
  PROVE  ReloadAgrees' /\ UNCHANGED ops /\ (NewestServed => NewestServed')
<1>1. UNCHANGED <<dao, monitor, form, ops, registered>>
  BY DEF Reload, ReloadBegin, ReloadNext, ReloadEnd, ReloadPublish
<1>2. UNCHANGED services => (NewestServed => NewestServed')
  BY <1>1 DEF NewestServed, SidsDistinct, SaveTargets, StoreAgrees, NothingDeleted,
              BeingSaved, Served, LastOf
<1>3. CASE ReloadBegin
  <2>1. /\ monitor = None /\ UNCHANGED services
        /\ reload' = [pc |-> "scan", cursor |-> 1, local |-> Nothing, dirty |-> FALSE]
    BY <1>3 DEF ReloadBegin, OneAtATime, NoReload
  <2>2. \A id \in Id : LastOf(dao, 0, id, Nothing[id])
    BY DEF LastOf, Nothing
  <2>3. ReloadAgrees'
    BY <1>1, <2>1, <2>2 DEF ReloadAgrees
  <2>4. QED
    BY <1>1, <1>2, <2>1, <2>3
<1>4. CASE ReloadNext
  <2>1. /\ reload.pc = "scan" /\ ~reload.dirty /\ monitor = None /\ UNCHANGED services
        /\ reload.cursor \in 1..Len(dao) + 1 /\ reload.cursor # Len(dao) + 1
    BY <1>4, NoneIsNothing DEF ReloadNext, HasNext, ReloadAgrees, ServicesInv, CursorOK
  <2>2. PICK n \in Nat : reload.cursor = n + 1 /\ n + 1 \in DOMAIN dao /\ (n + 1) - 1 = n
    <3>1. Len(dao) \in Nat /\ DOMAIN dao = 1..Len(dao)
      BY DEF ServicesInv, TypeOK
    <3>2. reload.cursor - 1 \in Nat /\ reload.cursor = (reload.cursor - 1) + 1
          /\ reload.cursor \in 1..Len(dao)
      BY <2>1, <3>1
    <3>3. QED
      BY <3>1, <3>2
  <2>3. PICK e \in Entry : e = dao[n + 1]
    <3>1. dao \in Seq(Entry)
      BY DEF ServicesInv, TypeOK, Entry
    <3>2. QED
      BY <2>2, <3>1
  <2>4. /\ reload'.pc = "scan" /\ ~reload'.dirty /\ reload'.cursor = n + 2
        /\ \A id \in Id : reload'.local[id] = IF id = e.id THEN e.c ELSE reload.local[id]
    <3>1. reload' = [reload EXCEPT !.cursor = @ + 1, !.local[e.id] = e.c]
      BY <1>4, <2>1, <2>2, <2>3 DEF ReloadNext
    <3>2. reload \in [pc : {"off", "scan", "publish"}, cursor : Nat,
                      local : [Id -> Content \cup {None}], dirty : BOOLEAN]
      BY DEF ServicesInv, TypeOK
    <3>3. reload'.pc = reload.pc /\ reload'.dirty = reload.dirty /\ reload'.cursor = reload.cursor + 1
          /\ reload'.local = [reload.local EXCEPT ![e.id] = e.c]
      BY <3>1, <3>2
    <3>4. QED
      BY <2>1, <2>2, <3>2, <3>3
  <2>5. \A id \in Id : LastOf(dao, n, id, reload.local[id])
    BY <2>1, <2>2 DEF ReloadAgrees
  <2>6. \A id \in Id : LastOf(dao, n + 1, id, reload'.local[id])
    BY <2>3, <2>4, <2>5, LastOfNext
  <2>7. ReloadAgrees'
    <3>1. reload'.cursor - 1 = n + 1
      BY <2>4
    <3>2. QED
      BY <1>1, <2>1, <2>4, <2>6, <3>1 DEF ReloadAgrees
  <2>8. QED
    BY <1>1, <1>2, <2>1, <2>7
<1>5. CASE ReloadEnd
  <2>1. /\ reload.pc = "scan" /\ monitor = None /\ UNCHANGED services
        /\ reload.cursor = Len(dao) + 1 /\ Len(dao) \in Nat
        /\ reload'.pc = "publish" /\ reload'.local = reload.local
    BY <1>5, NoneIsNothing DEF ReloadEnd, HasNext, ReloadAgrees, ServicesInv, TypeOK
  <2>2. reload.cursor - 1 = Len(dao)
    BY <2>1
  <2>3. ReloadAgrees'
    BY <1>1, <2>1, <2>2 DEF ReloadAgrees
  <2>4. QED
    BY <1>1, <1>2, <2>1, <2>3
<1>6. CASE ReloadPublish
  <2>1. reload.pc = "publish" /\ monitor = None /\ services' = reload.local /\ reload'.pc = "off"
    BY <1>6, NoneIsNothing DEF ReloadPublish, NoReload, ReloadAgrees
  <2>2. ReloadAgrees'
    BY <2>1 DEF ReloadAgrees
  <2>3. ASSUME NewestServed PROVE UNCHANGED services
    <3>1. Len(dao) \in Nat
      BY DEF ServicesInv, TypeOK
    <3>2. \A id \in Id : ~BeingSaved(id)
      BY <2>1, NoneIsNothing DEF BeingSaved, ServicesInv, FormsOK
    <3>3. \A id \in Id : /\ LastOf(dao, Len(dao), id, reload.local[id])
                         /\ LastOf(dao, Len(dao), id, services[id])
      BY <2>1, <2>3, <3>2 DEF ReloadAgrees, NewestServed, StoreAgrees
    <3>4. \A id \in Id : reload.local[id] = services[id]
      BY <3>1, <3>3, LastOfOne
    <3>5. reload.local \in [Id -> Content \cup {None}] /\ services \in [Id -> Content \cup {None}]
      BY DEF ServicesInv, TypeOK
    <3>6. reload.local = services
      BY <3>4, <3>5
    <3>7. QED
      BY <2>1, <3>6
  <2>4. QED
    BY <1>1, <1>2, <2>2, <2>3
<1>7. QED
  BY <1>3, <1>4, <1>5, <1>6 DEF Reload

LEMMA NewestStep ==
  ASSUME OneAtATime, OwnOrders
  PROVE  NewestInv /\ [Next]_vars => NewestInv'
<1> SUFFICES ASSUME ServicesInv, ReloadAgrees, ops.deletes = 0 => NewestServed, [Next]_vars
             PROVE  ReloadAgrees' /\ (ops'.deletes = 0 => NewestServed')
  BY ServicesStep DEF NewestInv, NewestServed
<1>1. CASE Reload
  BY <1>1, NewestReload
<1>2. ASSUME NEW a \in Admin,
             \/ \E c \in Content, id \in Id \cup {New} : Post(a, id, c)
             \/ \E c \in Content, id \in Id : Reorder(a, id, c)
             \/ Validate(a)
      PROVE  ReloadAgrees' /\ (ops'.deletes = 0 => NewestServed')
  BY <1>2, NewestRequests
<1>3. ASSUME NEW a \in Admin, SaveRemove(a)
      PROVE  ReloadAgrees' /\ (ops'.deletes = 0 => NewestServed')
  <2>1. ops'.deletes = ops.deletes
    BY <1>3 DEF SaveRemove, ServicesInv, TypeOK
  <2>2. QED
    BY <1>3, <2>1, NewestSaveRemove
<1>4. ASSUME NEW a \in Admin, SaveAdd(a) \/ SavePut(a)
      PROVE  ReloadAgrees' /\ (ops'.deletes = 0 => NewestServed')
  BY <1>4, NewestSaveAdd, NewestSavePut
<1>5. ASSUME NEW a \in Admin, (\E id \in Id : DeleteDao(a, id)) \/ DeleteMap(a)
      PROVE  ReloadAgrees' /\ (ops'.deletes = 0 => NewestServed')
  BY <1>5, NewestDelete
<1>6. CASE UNCHANGED vars
  BY <1>6 DEF vars, ReloadAgrees, NewestServed, SidsDistinct, SaveTargets, StoreAgrees,
              NothingDeleted, BeingSaved, Served, LastOf
<1>7. QED
  BY <1>1, <1>2, <1>3, <1>4, <1>5, <1>6 DEF Next, Administer, Proceed

\* The list, the map and what a reload has read agree on every id at every
\* moment, with one administrator, no overlap and orders of their own.
THEOREM NewestInvariant ==
  ASSUME OneAtATime, OwnOrders
  PROVE  Spec => []NewestInv
<1>1. NewestInv /\ [Next]_vars => NewestInv'
  BY NewestStep
<1>2. QED
  BY NewestInit, <1>1, PTL DEF Spec

\* Old versions of a service that saves leave in the list never come back: as
\* long as nothing is deleted, what was saved last is served.
THEOREM SavedIsServed ==
  ASSUME OneAtATime, OwnOrders
  PROVE  Spec => []ServedIsNewest
<1>1. NewestInv => ServedIsNewest
  BY DEF NewestInv, ServedIsNewest
<1>2. QED
  BY <1>1, NewestInvariant, PTL
===============================================================================
