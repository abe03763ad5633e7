---------------------------- MODULE WidgetsProofs -----------------------------
(***************************************************************************)
(* What the widgets of the page and the events they live on keep, for any  *)
(* of their constants: the model of the change applier, the handles and    *)
(* number of the slider, the dialogs and the overlays beneath them, the    *)
(* texts of the inline editors with their undo links, the bindings and the *)
(* data cache of jQuery, the display preferences, the selection of a       *)
(* container that is one stop for the Tab key, and what the mouse drags.   *)
(*                                                                         *)
(* The eight components share no state: each has its part of this module,  *)
(* and its own specification, which the run of the page composes.          *)
(***************************************************************************)
EXTENDS ChangeApplier, Dialog, Slider, InlineEdit, Events, Settings, Selection,
        Draggable, FiniteSetTheorems, SequenceTheorems, WellFoundedInduction, TLAPS

-------------------------------------------------------------------------------
(* The change applier: the copy a transaction works on follows the model   *)
(* wherever neither it nor another transaction wrote.                      *)

Ation == [new : Model \cup {NoChange}, changes : SUBSET Path, cancelled : BOOLEAN]

(* What the change applier keeps of a transaction, opened or implied, when *)
(* the model is as it is: the copy has a value on every path and follows   *)
(* the model where neither it nor another transaction changed it.          *)
Follows(a) ==
  /\ a \in Ation /\ a.new \in Model
  /\ \A p \in Path \ (a.changes \cup overtaken) : a.new[p] = model[p]
  /\ guarded /\ a.changes = {} => Allowed(a.new)

LEMMA RequestedFollows ==
  ASSUME ModelInv, NEW a, Follows(a), NEW request \in Request,
         NEW verdict \in BOOLEAN, NEW by \in Own(request)
  PROVE  Follows(Requested(a, request, verdict, by))
<1> DEFINE b == WithOwn(a, by)
           c == [b EXCEPT !.new = ApplyChangeRequest(@, request),
                          !.changes = @ \cup {request.path}]
           d == [b EXCEPT !.cancelled = TRUE]
<1>0. /\ a \in Ation /\ a.new \in Model /\ a.changes \in SUBSET Path
      /\ by \in Request \cup {NoChange}
  BY DEF Follows, Ation, Own
<1>1. Follows(b)
  <2>1. CASE by = NoChange
    BY <2>1 DEF WithOwn
  <2>2. CASE by # NoChange
    <3>1. by \in Request /\ by.path \in Path /\ by.value \in Value
      BY <1>0, <2>2 DEF Request
    <3>2. b = [a EXCEPT !.new = [a.new EXCEPT ![by.path] = by.value],
                        !.changes = a.changes \cup {by.path}]
      BY <2>2 DEF WithOwn, ApplyChangeRequest
    <3>3. b.new = [a.new EXCEPT ![by.path] = by.value] /\ b.changes = a.changes \cup {by.path}
      BY <1>0, <3>2 DEF Ation
    <3>4. b.new \in Model /\ b.changes \in SUBSET Path /\ b.changes # {}
      BY <1>0, <3>1, <3>3 DEF Model
    <3>5. b \in Ation
      BY <1>0, <3>2, <3>3, <3>4 DEF Ation
    <3>6. \A p \in Path \ (b.changes \cup overtaken) : b.new[p] = model[p]
      BY <1>0, <3>1, <3>3 DEF Follows, Model
    <3> QED
      BY <3>4, <3>5, <3>6 DEF Follows
  <2> QED
    BY <2>1, <2>2
<1>2. request.path \in Path /\ request.value \in Value
  BY DEF Request
<1> HIDE DEF b
<1>3. b \in Ation /\ b.new \in Model /\ b.changes \in SUBSET Path
  BY <1>1 DEF Follows, Ation
<1>4. Follows(c)
  <2>1. c.new = [b.new EXCEPT ![request.path] = request.value]
        /\ c.changes = b.changes \cup {request.path}
    BY <1>3 DEF Ation, ApplyChangeRequest
  <2>2. c.new \in Model /\ c.changes \in SUBSET Path /\ c.changes # {}
    BY <1>2, <1>3, <2>1 DEF Model
  <2>3. c \in Ation
    BY <1>3, <2>1, <2>2 DEF Ation
  <2>4. \A p \in Path \ (c.changes \cup overtaken) : c.new[p] = model[p]
    BY <1>1, <1>2, <1>3, <2>1 DEF Follows, Model
  <2> QED
    BY <2>2, <2>3, <2>4 DEF Follows
<1>5. Follows(d)
  <2>1. d \in Ation /\ d.new = b.new /\ d.changes = b.changes
    BY <1>3 DEF Ation
  <2> HIDE DEF d
  <2> QED
    BY <1>1, <2>1 DEF Follows
<1>6. Requested(a, request, verdict, by) \in {a, b, c, d}
  BY DEF Requested, b
<1> HIDE DEF c, d
<1> QED
  BY <1>1, <1>4, <1>5, <1>6

(* A transaction begins with the model as it is.                           *)
LEMMA InitiatedFollows ==
  ASSUME ModelInv
  PROVE  Follows(Initiated)
BY DEF ModelInv, ModelTypeOK, ModelHolds, ModelGuarded, Follows, Initiated, Ation

LEMMA OpenFollows ==
  ASSUME ModelInv, NEW t \in Transaction, Open(t)
  PROVE  Follows(ation[t])
BY DEF ModelInv, ModelTypeOK, CopyFollows, UntouchedAllowed, Follows, Ation

(* Conversely the invariant is what its transactions follow.               *)
LEMMA FollowingSuffices ==
  ASSUME ModelInv, NEW t \in Transaction, NEW a, Follows(a) \/ a = Closed,
         ation' = [ation EXCEPT ![t] = a],
         UNCHANGED <<model, view, cull, guarded, overtaken>>
  PROVE  ModelInv'
<1>1. ation \in [Transaction -> Ation] /\ Closed \in Ation
  BY DEF ModelInv, ModelTypeOK, Closed, Ation
<1>2. a \in Ation
  BY <1>1 DEF Follows
<1>3. ation' \in [Transaction -> Ation]
  BY <1>1, <1>2
<1>4. ASSUME NEW u \in Transaction, Open(u)'
      PROVE  Follows(ation'[u])
  <2>1. CASE u = t
    BY <1>1, <1>4, <2>1 DEF Open, Closed
  <2>2. CASE u # t
    <3>1. ation'[u] = ation[u]
      BY <1>1, <2>2
    <3>2. Open(u)
      BY <1>4, <3>1 DEF Open, Closed
    <3> QED
      BY <3>1, <3>2, OpenFollows
  <2> QED
    BY <2>1, <2>2
<1>5. ModelTypeOK'
  BY <1>3, <1>4 DEF ModelInv, ModelTypeOK, Follows, Ation, Model
<1>6. ModelHolds'
  BY DEF ModelInv, ModelHolds, ModelGuarded, ListenersKnow, Allowed
<1>7. CopyFollows' /\ UntouchedAllowed'
  BY <1>4 DEF CopyFollows, UntouchedAllowed, Follows, Allowed
<1> QED
  BY <1>5, <1>6, <1>7 DEF ModelInv

(* The model becomes a copy that follows it, and the listeners are told.   *)
LEMMA ModelChanges ==
  ASSUME ModelInv, NEW a, Follows(a), guarded => Allowed(a.new),
         model' = a.new, FireModelChanged(a.new, a.changes),
         ation' \in [Transaction -> Ation],
         \A t \in Transaction : ation'[t] # Closed => ation'[t] = ation[t],
         UNCHANGED <<cull, guarded>>
  PROVE  ModelInv'
<1>1. /\ view' = [p \in Path |-> IF p \in a.changes THEN a.new[p] ELSE view[p]]
      /\ overtaken' = IF \E t \in Transaction : ation'[t] # Closed
                      THEN overtaken \cup a.changes ELSE overtaken \ a.changes
  BY DEF FireModelChanged
<1>2. a.new \in Model /\ a.changes \in SUBSET Path /\ overtaken \in SUBSET Path
      /\ view \in Model /\ model \in Model
  BY DEF Follows, Ation, ModelInv, ModelTypeOK
<1>3. ASSUME NEW t \in Transaction, Open(t)'
      PROVE  /\ ation'[t] = ation[t] /\ Follows(ation[t])
             /\ overtaken' = overtaken \cup a.changes
  <2>1. ation'[t] # Closed
    BY <1>3 DEF Open, Closed
  <2>2. ation'[t] = ation[t] /\ Open(t)
    BY <2>1 DEF Open
  <2> QED
    BY <1>1, <2>1, <2>2, OpenFollows
<1>4. ModelTypeOK'
  <2>1. view' \in Model /\ overtaken' \in SUBSET Path
    BY <1>1, <1>2 DEF Model
  <2>2. \A t \in Transaction : Open(t)' => ation'[t].new \in Model
    BY <1>3 DEF Follows
  <2> QED
    BY <1>2, <2>1, <2>2 DEF ModelInv, ModelTypeOK, Ation, Model
<1>5. ModelHolds'
  <2>1. \A p \in Path \ overtaken' : view'[p] = model'[p]
    <3> TAKE p \in Path \ overtaken'
    <3>1. CASE p \in a.changes
      BY <1>1, <3>1
    <3>2. CASE p \notin a.changes
      <4>1. p \notin overtaken
        BY <1>1, <3>2
      <4>2. view'[p] = view[p] /\ view[p] = model[p] /\ a.new[p] = model[p]
        BY <1>1, <3>2, <4>1 DEF ModelInv, ModelHolds, ListenersKnow, Follows
      <4> QED
        BY <4>2
    <3> QED
      BY <3>1, <3>2
  <2> QED
    BY <2>1 DEF ModelHolds, ModelGuarded, ListenersKnow, Allowed
<1>6. CopyFollows'
  <2> SUFFICES ASSUME NEW t \in Transaction, Open(t)',
                      NEW p \in Path \ (ation[t].changes \cup overtaken \cup a.changes)
               PROVE  ation[t].new[p] = a.new[p]
    BY <1>3 DEF CopyFollows
  <2> QED
    BY <1>3 DEF Follows
<1>7. UntouchedAllowed'
  BY <1>3 DEF UntouchedAllowed, Follows, Allowed
<1> QED
  BY <1>4, <1>5, <1>6, <1>7 DEF ModelInv

(* What commit decides, of a transaction that is open or implied.          *)
LEMMA CommittedKeeps ==
  ASSUME ModelInv, NEW a, Follows(a), Committed(a),
         ation' \in [Transaction -> Ation],
         \A t \in Transaction : ation'[t] # Closed => ation'[t] = ation[t],
         UNCHANGED <<cull, guarded>>
  PROVE  ModelInv'
<1>1. CASE UNCHANGED <<model, view, overtaken>>
  <2>1. ASSUME NEW t \in Transaction, Open(t)'
        PROVE  ation'[t] = ation[t] /\ Follows(ation[t])
    <3>1. ation'[t] = ation[t] /\ Open(t)
      BY <2>1 DEF Open, Closed
    <3> QED
      BY <3>1, OpenFollows
  <2>2. ModelTypeOK'
    BY <1>1, <2>1 DEF ModelInv, ModelTypeOK, Follows, Ation, Model
  <2>3. ModelHolds'
    BY <1>1 DEF ModelInv, ModelHolds, ModelGuarded, ListenersKnow, Allowed
  <2>4. CopyFollows' /\ UntouchedAllowed'
    BY <1>1, <2>1 DEF CopyFollows, UntouchedAllowed, Follows, Allowed
  <2> QED
    BY <2>2, <2>3, <2>4 DEF ModelInv
<1>2. CASE /\ ~(a.cancelled \/ (a.changes # {} /\ ~Allowed(a.new)))
           /\ model' = a.new /\ FireModelChanged(a.new, a.changes)
  <2>1. guarded => Allowed(a.new)
    BY <1>2 DEF Follows
  <2> QED
    BY <1>2, <2>1, ModelChanges
<1> QED
  BY <1>1, <1>2 DEF Committed

(* A request that is not guarded by a transaction.                         *)
LEMMA DirectKeeps ==
  ASSUME ModelInv, NEW request \in Request, NEW verdict \in BOOLEAN,
         NEW by \in Own(request), FireChangeRequest(request, verdict, by)
  PROVE  ModelInv'
<1>1. ation \in [Transaction -> Ation]
  BY DEF ModelInv, ModelTypeOK, Ation
<1>2. UNCHANGED <<ation, cull, guarded>>
  BY DEF FireChangeRequest
<1>3. CASE guarded
  <2> DEFINE a == Requested(Initiated, request, verdict, by)
  <2>1. Committed(a)
    BY <1>3 DEF FireChangeRequest
  <2>2. Follows(a)
    BY InitiatedFollows, RequestedFollows
  <2> QED
    BY <1>1, <1>2, <2>1, <2>2, CommittedKeeps
<1>4. CASE ~guarded
  <2> DEFINE own   == WithOwn(Initiated, by)
             both  == [own EXCEPT !.new = ApplyChangeRequest(@, request),
                                  !.changes = @ \cup {request.path}]
             after == IF verdict THEN both ELSE own
  <2>1. model' = after.new /\ FireModelChanged(after.new, after.changes)
    BY <1>4 DEF FireChangeRequest
  <2>2. Initiated \in Ation /\ Initiated.new = model /\ Initiated.changes = {}
        /\ model \in Model
    BY InitiatedFollows DEF Follows, Initiated
  <2>3. /\ own \in Ation /\ own.new \in Model
        /\ \A p \in Path \ own.changes : own.new[p] = model[p]
    <3>1. CASE by = NoChange
      BY <2>2, <3>1 DEF WithOwn
    <3>2. CASE by # NoChange
      <4>1. by \in Request /\ by.path \in Path /\ by.value \in Value
        BY <3>2 DEF Own, Request
      <4>2. /\ own = [new |-> [model EXCEPT ![by.path] = by.value],
                      changes |-> {by.path}, cancelled |-> FALSE]
        BY <3>2 DEF WithOwn, ApplyChangeRequest, Initiated
      <4> QED
        BY <2>2, <4>1, <4>2 DEF Ation, Model
    <3> QED
      BY <3>1, <3>2
  <2> HIDE DEF own
  <2>4. /\ both \in Ation /\ both.new \in Model
        /\ \A p \in Path \ both.changes : both.new[p] = model[p]
    <3>1. request.path \in Path /\ request.value \in Value
      BY DEF Request
    <3>2. both.new = [own.new EXCEPT ![request.path] = request.value]
          /\ both.changes = own.changes \cup {request.path}
      BY <2>3 DEF Ation, ApplyChangeRequest
    <3>3. both.new \in Model /\ both.changes \in SUBSET Path
      BY <2>3, <3>1, <3>2 DEF Ation, Model
    <3>4. both \in Ation
      BY <2>3, <3>2, <3>3 DEF Ation
    <3> QED
      BY <2>3, <3>1, <3>2, <3>3, <3>4 DEF Model
  <2> HIDE DEF both
  <2>5. Follows(after)
    BY <1>4, <2>3, <2>4 DEF Follows
  <2> QED
    BY <1>1, <1>2, <1>4, <2>1, <2>5, ModelChanges
<1> QED
  BY <1>3, <1>4

LEMMA ModelStep == ModelInv /\ [ModelNext]_modelVars => ModelInv'
<1> SUFFICES ASSUME ModelInv, [ModelNext]_modelVars PROVE ModelInv'
  OBVIOUS
<1>0. ation \in [Transaction -> Ation] /\ Closed \in Ation
  BY DEF ModelInv, ModelTypeOK, Closed, Ation
<1>1. ASSUME NEW t \in Transaction, Initiate(t) PROVE ModelInv'
  BY <1>1, InitiatedFollows, FollowingSuffices DEF Initiate
<1>2. ASSUME NEW t \in Transaction, Commit(t) PROVE ModelInv'
  <2>1. ation' \in [Transaction -> Ation]
        /\ \A u \in Transaction : ation'[u] # Closed => ation'[u] = ation[u]
    BY <1>0, <1>2 DEF Commit
  <2> QED
    BY <1>2, <2>1, OpenFollows, CommittedKeeps DEF Commit
<1>3. ASSUME NEW r \in Request, NEW verdict \in BOOLEAN, NEW by \in Own(r),
             FireChangeRequest(r, verdict, by)
      PROVE  ModelInv'
  BY <1>3, DirectKeeps
<1>4. ASSUME NEW r \in Request, NEW verdict \in BOOLEAN, NEW by \in Own(r),
             NEW t \in Transaction, RequestIn(t, r, verdict, by)
      PROVE  ModelInv'
  <2>1. Follows(Requested(ation[t], r, verdict, by))
    BY <1>4, OpenFollows, RequestedFollows DEF RequestIn
  <2> QED
    BY <1>4, <2>1, FollowingSuffices DEF RequestIn
<1>5. CASE UNCHANGED modelVars
  BY <1>5 DEF modelVars, ModelInv, ModelTypeOK, Model, Open, Closed, ModelHolds, ModelGuarded,
              ListenersKnow, CopyFollows, UntouchedAllowed, Allowed
<1> QED
  BY <1>1, <1>2, <1>3, <1>4, <1>5 DEF ModelNext

LEMMA ModelInitial == ModelInit => ModelInv
BY DEF ModelInit, ModelInv, ModelTypeOK, Model, Open, Closed, ModelHolds, ModelGuarded,
       ListenersKnow, CopyFollows, UntouchedAllowed

(* The applier's inductive invariant: the model's type, ModelHolds, and    *)
(* what a guarded copy owes the model, whoever committed last.             *)
THEOREM ModelInvariance == ModelSpec => []ModelInv
BY ModelInitial, ModelStep, PTL DEF ModelSpec

(* With transactional guards no order of requests and commits brings the   *)
(* model to a value the post-guard refuses, and every listener knows the   *)
(* value of its path that no commit put back behind it.                    *)
THEOREM ModelsAreGuarded == ModelSpec => []ModelHolds
<1>1. ModelInv => ModelHolds
  BY DEF ModelInv
<1> QED
  BY <1>1, ModelInvariance, PTL

-------------------------------------------------------------------------------
(* Arithmetic: multiples of a number lie that number apart, and a number   *)
(* lies less than that above one of them.                                  *)

LEMMA Products ==
  ASSUME NEW k \in Int, NEW a \in Int, NEW b \in Int, k > 0, a < b
  PROVE  k * a + k <= k * b /\ k * a \in Int /\ k * b \in Int
<1>1. k * (b - a - 1) \in Int /\ k * (b - a - 1) >= 0
  OBVIOUS
<1>2. k * (b - a - 1) = k * b - k * a - k
  OBVIOUS
<1> QED
  BY <1>1, <1>2

LEMMA Quotients ==
  ASSUME NEW x \in Int, NEW k \in Int, k > 0
  PROVE  /\ x % k \in 0 .. k - 1 /\ x \div k \in Int
         /\ x = k * (x \div k) + (x % k)
OBVIOUS

LEMMA ProductsHaveNoRest ==
  ASSUME NEW n \in Int, NEW k \in Int, k > 0
  PROVE  (k * n) % k = 0 /\ k * n \in Int
<1> DEFINE y == k * n
           q == y \div k
<1>1. y \in Int /\ y % k \in 0 .. k - 1 /\ q \in Int /\ y = k * q + (y % k)
  BY Quotients
<1>2. ~(q < n)
  BY <1>1, Products
<1>3. ~(n < q)
  BY <1>1, Products
<1>4. q = n
  BY <1>1, <1>2, <1>3
<1> QED
  BY <1>1, <1>4

-------------------------------------------------------------------------------
(* The slider: first the arithmetic of its scale, then its steps.          *)

LEMMA Division ==
  ASSUME NEW x \in Int
  PROVE  /\ x % Step \in 0 .. Step - 1 /\ x \div Step \in Int
         /\ x = Step * (x \div Step) + (x % Step)
BY Quotients, ScaleAssumption

LEMMA MultiplesHaveNoRest ==
  ASSUME NEW n \in Int
  PROVE  (Step * n) % Step = 0 /\ Step * n \in Int
BY ProductsHaveNoRest, ScaleAssumption

(* The values of the scale: its end, and the multiples of the step up to   *)
(* the first one that is not below the end.                                *)
OnScale(y) ==
  /\ y \in Nat
  /\ y = Maximum \/ \E n \in Int : y = Step * n /\ y - Step < Maximum

LEMMA TrimmedIsOnScale ==
  ASSUME NEW x \in Int
  PROVE  OnScale(TrimAlignValue(x)) /\ TrimAlignValue(x) \in Scale
<1> DEFINE rest == x % Step
           q    == x \div Step
<1>0. Step \in Int /\ Step > 0 /\ Maximum \in Int /\ Maximum >= 0
  BY ScaleAssumption
<1>1. CASE x <= 0
  <2>1. TrimAlignValue(x) = 0 /\ TrimAlignValue(0) = 0
    BY <1>1 DEF TrimAlignValue
  <2>2. 0 = Step * 0 /\ 0 - Step < Maximum /\ 0 \in 0 .. Maximum
    BY <1>0
  <2>3. OnScale(TrimAlignValue(x))
    BY <2>1, <2>2 DEF OnScale
  <2>4. TrimAlignValue(x) \in Scale
    BY <2>1, <2>2 DEF Scale
  <2> QED
    BY <2>3, <2>4
<1>2. CASE x > 0 /\ x >= Maximum
  <2>1. TrimAlignValue(x) = Maximum /\ TrimAlignValue(Maximum) = Maximum
    BY <1>0, <1>2 DEF TrimAlignValue
  <2>2. Maximum \in 0 .. Maximum /\ Maximum \in Nat
    BY <1>0
  <2>3. OnScale(TrimAlignValue(x))
    BY <2>1, <2>2 DEF OnScale
  <2>4. TrimAlignValue(x) \in Scale
    BY <2>1, <2>2 DEF Scale
  <2> QED
    BY <2>3, <2>4
<1>3. CASE x > 0 /\ x < Maximum
  <2>1. TrimAlignValue(x) = x - rest + (IF 2 * rest >= Step THEN Step ELSE 0)
    BY <1>0, <1>3 DEF TrimAlignValue
  <2>2. rest \in 0 .. Step - 1 /\ q \in Int /\ x = Step * q + rest
    BY Division
  <2>3. Step * q \in Int /\ Step * (q + 1) = Step * q + Step
    BY <1>0, <2>2
  <2>4. x - rest >= 0
    <3>1. ~(q < 0)
      BY <1>0, <1>3, <2>2, Products
    <3>2. Step * q >= 0
      BY <1>0, <2>2, <3>1
    <3> QED
      BY <1>0, <2>2, <2>3, <3>2
  <2> HIDE DEF rest, q
  <2>5. TrimAlignValue(x) = Step * q \/ TrimAlignValue(x) = Step * (q + 1)
    BY <1>0, <2>1, <2>2, <2>3
  <2>6. TrimAlignValue(x) \in Nat /\ TrimAlignValue(x) - Step < Maximum
    BY <1>0, <1>3, <2>1, <2>2, <2>4
  <2>7. x \in 0 .. Maximum
    BY <1>0, <1>3
  <2> QED
    BY <2>2, <2>5, <2>6, <2>7 DEF OnScale, Scale
<1> QED
  BY <1>0, <1>1, <1>2, <1>3

LEMMA ScaleIsOnScale == \A y \in Scale : OnScale(y)
BY ScaleAssumption, TrimmedIsOnScale DEF Scale

(* What is on the scale stays when it is aligned once more, but for the    *)
(* one value beyond its end.                                               *)
LEMMA TrimmedAgain ==
  ASSUME NEW y, OnScale(y)
  PROVE  TrimAlignValue(y) = IF y <= Maximum THEN y ELSE Maximum
<1>0. y \in Int /\ y >= 0 /\ Step \in Int /\ Step > 0 /\ Maximum \in Int /\ Maximum >= 0
  BY ScaleAssumption DEF OnScale
<1>1. CASE y <= 0 \/ y >= Maximum
  BY <1>0, <1>1 DEF TrimAlignValue
<1>2. CASE y > 0 /\ y < Maximum
  <2>1. PICK n \in Int : y = Step * n
    BY <1>0, <1>2 DEF OnScale
  <2>2. y % Step = 0
    BY <2>1, MultiplesHaveNoRest
  <2>3. TrimAlignValue(y) = y - 0 + 0
    BY <1>0, <1>2, <2>2 DEF TrimAlignValue
  <2> QED
    BY <1>0, <1>2, <2>3
<1> QED
  BY <1>0, <1>1, <1>2

LEMMA OneBeyondTheEnd ==
  ASSUME NEW y, NEW w, OnScale(y), OnScale(w), y > Maximum, w > Maximum
  PROVE  y = w
<1>0. /\ y \in Int /\ w \in Int
      /\ Step \in Int /\ Step > 0 /\ Maximum \in Int
  BY ScaleAssumption DEF OnScale
<1>1. PICK n \in Int : y = Step * n /\ y - Step < Maximum
  BY <1>0 DEF OnScale
<1>2. w # Maximum
  BY <1>0
<1>3. PICK m \in Int : w = Step * m /\ w - Step < Maximum
  BY <1>2 DEF OnScale
<1>4. ~(n < m) /\ ~(m < n)
  BY <1>0, <1>1, <1>3, Products
<1>5. n = m
  BY <1>4
<1> QED
  BY <1>1, <1>3, <1>5

(* A handle that slides stays on the scale and on its side of the other.   *)
LEMMA SlideKeeps ==
  ASSUME SliderTypeOK, values[0] <= values[1], handlesShown = values,
         NEW i \in Handle, NEW v \in Scale, Slide(i, v)
  PROVE  /\ values' \in [Handle -> Scale] /\ values'[0] <= values'[1]
         /\ handlesShown' = values'
<1> DEFINE b == Blocked(i, v)
<1>1. handlesShown' = values'
  BY DEF Slide, RefreshValue
<1>2. /\ values \in [Handle -> Scale] /\ 1 - i \in Handle /\ 0 \in Handle /\ 1 \in Handle
      /\ i = 0 \/ i = 1
  BY DEF SliderTypeOK, Handle
<1>3. values[0] \in Int /\ values[1] \in Int /\ v \in Int
  BY <1>2, ScaleIsOnScale DEF OnScale
<1>4. b \in Scale /\ (i = 0 => b <= values[1]) /\ (i = 1 => b >= values[0])
  <2>1. CASE i = 0
    BY <1>2, <1>3, <2>1 DEF Blocked
  <2>2. CASE i = 1
    BY <1>2, <1>3, <2>2 DEF Blocked
  <2> QED
    BY <1>2, <2>1, <2>2
<1>5. CASE values' = values
  BY <1>1, <1>2, <1>5
<1>6. CASE b # values[i] /\ values' = [values EXCEPT ![i] = TrimAlignValue(b)]
  <2> HIDE DEF b
  <2>1. OnScale(b) /\ b \in Int /\ OnScale(values[0]) /\ OnScale(values[1])
    BY <1>2, <1>4, ScaleIsOnScale DEF OnScale
  <2>2. TrimAlignValue(b) \in Scale /\ TrimAlignValue(b) \in Int
    BY <2>1, TrimmedIsOnScale DEF OnScale
  <2>3. TrimAlignValue(b) = IF b <= Maximum THEN b ELSE Maximum
    BY <2>1, TrimmedAgain
  <2>4. values' \in [Handle -> Scale] /\ values'[i] = TrimAlignValue(b)
        /\ values'[1 - i] = values[1 - i]
    BY <1>2, <1>6, <2>2
  <2>5. Maximum \in Int
    BY ScaleAssumption
  <2>6. CASE i = 0
    BY <1>1, <1>3, <1>4, <2>1, <2>2, <2>3, <2>4, <2>5, <2>6
  <2>7. CASE i = 1
    <3>1. values[0] <= Maximum
      <4> SUFFICES ASSUME values[0] > Maximum PROVE FALSE
        BY <1>3, <2>5
      <4>1. values[1] > Maximum /\ b > Maximum
        BY <1>3, <1>4, <2>1, <2>5, <2>7
      <4> QED
        BY <1>6, <2>1, <2>7, <4>1, OneBeyondTheEnd
    <3>2. TrimAlignValue(b) >= values[0]
      BY <1>3, <1>4, <2>1, <2>3, <2>5, <2>7, <3>1
    <3> QED
      BY <1>1, <2>4, <2>7, <3>2
  <2> QED
    BY <1>2, <2>6, <2>7
<1> QED
  BY <1>5, <1>6 DEF Slide

(* Only Slide, and the steps that write a value outright, move a handle;   *)
(* the others write who holds it and what was told.                        *)
LEMMA SliderStep == SliderInv /\ [SliderNext]_sliderVars => SliderInv'
<1> SUFFICES ASSUME SliderInv, [SliderNext]_sliderVars PROVE SliderInv'
  OBVIOUS
<1>0. /\ SliderTypeOK /\ SliderHolds
      /\ values[0] <= values[1] /\ handlesShown = values
      /\ values[0] \in Int /\ values[1] \in Int
  <2>1. \A y \in Scale : y \in Int
    BY ScaleIsOnScale DEF OnScale
  <2> QED
    BY <2>1 DEF SliderInv, SliderHolds, SliderTypeOK, Handle
<1> DEFINE Placed == /\ values' \in [Handle -> Scale] /\ values'[0] <= values'[1]
                     /\ handlesShown' = values'
<1>1. ASSUME UNCHANGED <<values, handlesShown>> PROVE Placed
  BY <1>0, <1>1 DEF SliderTypeOK
<1>2. ASSUME NEW x \in Int, NEW offset \in Int
      PROVE  NormValueFromMouse(x, offset) \in Scale
  BY TrimmedIsOnScale DEF NormValueFromMouse
<1>3. Point \subseteq Int
  BY ScaleAssumption DEF Point
<1>4. ASSUME NEW x \in Point, MouseDrag(x) PROVE SliderInv'
  <2>1. Placed
    BY <1>0, <1>2, <1>3, <1>4, SlideKeeps DEF MouseDrag, SliderTypeOK
  <2> QED
    BY <1>0, <1>4, <2>1 DEF MouseDrag, mouseState, SliderInv, SliderTypeOK, SliderHolds
<1>5. ASSUME NEW x \in Point, NEW onHandle \in BOOLEAN, MouseDown(x, onHandle)
      PROVE  SliderInv'
  <2> DEFINE i == ClosestHandle(x)
  <2>1. i \in Handle
    BY DEF ClosestHandle, Handle
  <2>2. Capture(x, i, onHandle)
    BY <1>5 DEF MouseDown
  <2> HIDE DEF i
  <2>3. Placed
    BY <1>0, <1>1, <1>2, <1>3, <2>1, <2>2, SlideKeeps DEF Capture
  <2>4. clickOffset' \in Int
    BY <1>0, <1>3, <2>1, <2>2 DEF Capture, Handle
  <2>5. /\ mouseSliding' = TRUE /\ started' = TRUE /\ handleIndex' = i /\ handleFocus' = i
        /\ keySliding' = keySliding /\ disabled' = disabled
    BY <1>5, <2>2 DEF MouseDown, Capture
  <2>6. SliderTypeOK'
    BY <1>0, <2>1, <2>3, <2>4, <2>5 DEF SliderTypeOK
  <2>7. SliderHolds'
    BY <1>0, <2>3, <2>5 DEF SliderHolds
  <2> QED
    BY <2>6, <2>7 DEF SliderInv
<1>6. CASE MouseDownRefused \/ MouseUp
  <2>1. /\ started' = FALSE /\ mouseSliding' = FALSE /\ clickOffset' = 0
        /\ UNCHANGED <<values, handlesShown, keySliding, handleFocus, disabled>>
        /\ told' = IF keySliding THEN told ELSE values'
    BY <1>6 DEF MouseDownRefused, MouseUp, SliderStop, Change
  <2>2. SliderTypeOK'
    <3>1. 0 \in Int
      OBVIOUS
    <3> QED
      BY <1>0, <2>1, <3>1, Zenon DEF SliderTypeOK
  <2>3. SliderHolds'
    BY <1>0, <2>1 DEF SliderHolds
  <2> QED
    BY <2>2, <2>3 DEF SliderInv
<1>7. ASSUME NEW key \in Key, KeyDown(key) PROVE SliderInv'
  <2>1. handleFocus \in Handle /\ values[handleFocus] \in Int
    BY <1>0, <1>7 DEF KeyDown, SliderTypeOK, Handle
  <2>2. NewValue(key, values[handleFocus]) \in Scale
    <3>1. 0 \in Scale /\ Maximum \in Scale
      <4>1. 0 \in 0 .. Maximum /\ Maximum \in 0 .. Maximum
        BY ScaleAssumption
      <4>2. TrimAlignValue(0) = 0 /\ TrimAlignValue(Maximum) = Maximum
        BY ScaleAssumption DEF TrimAlignValue
      <4> QED
        BY <4>1, <4>2 DEF Scale
    <3>2. Maximum \div 5 \in Int /\ Step \in Int
      BY ScaleAssumption
    <3> HIDE DEF Scale
    <3> QED
      BY <2>1, <3>1, <3>2, TrimmedIsOnScale DEF NewValue, Key
  <2>3. Placed
    BY <1>0, <1>7, <2>1, <2>2, SlideKeeps DEF KeyDown
  <2>4. keySliding' = TRUE /\ UNCHANGED <<mouseState, handleFocus, disabled>>
    BY <1>7 DEF KeyDown
  <2>5. SliderTypeOK'
    BY <1>0, <2>3, <2>4 DEF mouseState, SliderTypeOK
  <2>6. SliderHolds'
    BY <1>0, <2>3, <2>4 DEF mouseState, SliderHolds
  <2> QED
    BY <2>5, <2>6 DEF SliderInv
<1>8. CASE KeyDownRefused \/ KeyUp
  <2>1. /\ keySliding' \in BOOLEAN
        /\ UNCHANGED <<values, handlesShown, mouseState, handleFocus, disabled>>
        /\ ~keySliding' => told' = IF mouseSliding THEN told ELSE values'
    BY <1>8 DEF KeyDownRefused, KeyUp, Change
  <2>2. SliderTypeOK'
    BY <1>0, <2>1 DEF mouseState, SliderTypeOK
  <2>3. SliderHolds'
    BY <1>0, <2>1 DEF mouseState, SliderHolds
  <2> QED
    BY <2>2, <2>3 DEF SliderInv
<1>9. ASSUME NEW f \in Handle \cup {NoHandle}, Focus(f) PROVE SliderInv'
  BY <1>0, <1>9 DEF Focus, mouseState, SliderInv, SliderTypeOK, SliderHolds
<1>10. ASSUME NEW v \in [Handle -> {0, Step, Maximum}], SetValues(v) PROVE SliderInv'
  <2>1. /\ v[0] \in {0, Step, Maximum} /\ v[1] \in {0, Step, Maximum} /\ v[0] <= v[1]
        /\ values' = [i \in Handle |-> TrimAlignValue(v[i])]
        /\ 0 \in Handle /\ 1 \in Handle
    BY <1>10 DEF SetValues, Handle
  <2>2. Placed
    <3>1. \A i \in Handle : TrimAlignValue(v[i]) \in Scale
      BY ScaleAssumption, TrimmedIsOnScale
    <3>2. /\ TrimAlignValue(0) = 0 /\ TrimAlignValue(Maximum) = Maximum
          /\ TrimAlignValue(Step) = IF Step <= Maximum THEN Step ELSE Maximum
      <4>1. Step * 1 = Step /\ Step \in Int /\ 1 \in Int
        BY ScaleAssumption
      <4>2. Step % Step = 0
        BY <4>1, MultiplesHaveNoRest
      <4> QED
        BY <4>2, ScaleAssumption DEF TrimAlignValue
    <3>3. values'[0] <= values'[1]
      BY <2>1, <3>2, ScaleAssumption
    <3> QED
      BY <1>10, <2>1, <3>1, <3>3 DEF SetValues, RefreshValue
  <2> QED
    BY <1>0, <1>10, <2>2 DEF SetValues, Change, mouseState, SliderInv, SliderTypeOK,
                             SliderHolds
<1>11. ASSUME NEW b \in BOOLEAN, SetDisabled(b) PROVE SliderInv'
  BY <1>0, <1>11 DEF SetDisabled, mouseState, SliderInv, SliderTypeOK, SliderHolds
<1>12. CASE UNCHANGED sliderVars
  BY <1>0, <1>12 DEF sliderVars, mouseState, SliderInv, SliderTypeOK, SliderHolds
<1> QED
  BY <1>4, <1>5, <1>6, <1>7, <1>8, <1>9, <1>10, <1>11, <1>12 DEF SliderNext

LEMMA SliderInitial == SliderInit => SliderInv
<1> SUFFICES ASSUME SliderInit PROVE SliderInv
  OBVIOUS
<1>1. values \in [Handle -> Scale] /\ values[0] <= values[1]
  BY DEF SliderInit
<1>2. \A i \in Handle : values[i] \in Scale
  BY <1>1
<1>3. SliderTypeOK
  <2>1. 0 \in Int
    OBVIOUS
  <2> QED
    BY <1>1, <2>1 DEF SliderInit, SliderTypeOK
<1>4. SliderHolds
  BY <1>1, <1>2 DEF SliderInit, SliderHolds
<1> QED
  BY <1>3, <1>4 DEF SliderInv

(* The slider's inductive invariant: values are on the scale, the one      *)
(* beyond the end that rounding up can reach included, and in order.       *)
THEOREM SliderInvariance == SliderSpec => []SliderInv
BY SliderInitial, SliderStep, PTL DEF SliderSpec

(* Whatever the end of the scale and the step, the handles of a slider     *)
(* stand on the scale, never cross, are where the values are, and a slide  *)
(* that is over has told the last value.                                   *)
THEOREM HandlesKeepOrder == SliderSpec => []SliderHolds
<1>1. SliderInv => SliderHolds
  BY DEF SliderInv
<1> QED
  BY <1>1, SliderInvariance, PTL

-------------------------------------------------------------------------------
(* The dialogs.  An element is free for the next overlay because there are *)
(* more elements than dialogs, and the last z-index stays above all.       *)

(* A set of numbers within a bound has a maximum.                          *)
LEMMA HighestOfBounded ==
  ASSUME NEW N \in Nat, NEW S, S \subseteq 0 .. N
  PROVE  Highest(S) \in 0 .. N /\ \A x \in S : Highest(S) >= x
<1>1. CASE S = {}
  BY <1>1 DEF Highest
<1>2. CASE S # {}
  <2> DEFINE T == {n \in Nat : \E x \in S : n = N - x}
  <2>1. T \subseteq Nat /\ T # {}
    <3>1. PICK x \in S : TRUE
      BY <1>2
    <3>2. N - x \in T
      OBVIOUS
    <3> QED
      BY <3>2
  <2>2. PICK m \in T : \A n \in T : ~ (<<n, m>> \in OpToRel(<, Nat))
    BY <2>1, NatLessThanWellFounded, WFMin, Zenon
  <2>3. PICK x \in S : m = N - x
    BY DEF T
  <2>4. ASSUME NEW y \in S PROVE x >= y
    <3>1. N - y \in T
      BY DEF T
    <3>2. ~ (N - y < m)
      BY <3>1, <2>2 DEF OpToRel
    <3> QED
      BY <3>2, <2>3
  <2>5. Max(S) \in S /\ \A y \in S : Max(S) >= y
    BY <2>4 DEF Max
  <2>6. Highest(S) = Max(S)
    BY <1>2 DEF Highest
  <2> QED
    BY <2>5, <2>6
<1> QED
  BY <1>1, <1>2

LEMMA ElementsAreNumbers == Cardinality(Modal) \in Nat /\ NoDialog \notin Element
BY DialogAssumption, FS_CardinalityType

(* There is an element for the overlay of one more modal dialog.           *)
LEMMA OneMoreElement ==
  ASSUME DialogInv, NEW d \in Modal \ isOpen
  PROVE  \E e \in Element : e \notin InUse
<1> DEFINE others == Modal \ {d}
           f == [x \in others |-> overlay[x]]
           T == {f[x] : x \in others}
<1>1. IsFiniteSet(others) /\ Cardinality(others) = Cardinality(Modal) - 1
  BY DialogAssumption, FS_RemoveElement
<1>2. f \in Surjection(others, T)
  BY DEF Surjection
<1>3. IsFiniteSet(T) /\ Cardinality(T) <= Cardinality(others)
  BY <1>1, <1>2, FS_Surjection
<1>4. InUse \subseteq T
  BY DEF DialogInv, OverlaysOwned
<1>5. Cardinality(Modal) \in Nat /\ IsFiniteSet(Element) /\ Cardinality(Element) = Cardinality(Modal)
  BY ElementsAreNumbers, FS_Interval DEF Element
<1> SUFFICES ASSUME Element \subseteq InUse PROVE FALSE
  OBVIOUS
<1>6. Element \in SUBSET T
  BY <1>4
<1>7. Cardinality(Element) <= Cardinality(T)
  BY <1>3, <1>6, FS_Subset
<1>8. Cardinality(T) \in Nat
  BY <1>3, FS_CardinalityType
<1> QED
  BY <1>1, <1>3, <1>5, <1>7, <1>8

(* create takes an element that no overlay has.                            *)
LEMMA NextElementIsFree ==
  ASSUME DialogInv, NEW d \in Modal \ isOpen
  PROVE  NextElement \in Element \ InUse
<1>1. oldInstances \in Seq(Element \ InUse)
  BY DEF DialogInv, DialogTypeOK
<1>2. CASE Kept
  <2>1. oldInstances # <<>> /\ NextElement = oldInstances[Len(oldInstances)]
    BY <1>2 DEF Kept, NextElement
  <2>2. Len(oldInstances) \in DOMAIN oldInstances
    BY <1>1, <2>1
  <2> QED
    BY <1>1, <2>1, <2>2
<1>3. CASE ~Kept
  <2>1. NextElement = CHOOSE e \in Element : e \notin InUse
    BY <1>3 DEF NextElement
  <2>2. \E e \in Element : e \notin InUse
    BY OneMoreElement
  <2> HIDE DEF Element, InUse
  <2> QED
    BY <2>1, <2>2
<1> QED
  BY <1>2, <1>3

(* Overlays come and go.                                                   *)
LEMMA CreateKeeps ==
  ASSUME DialogInv, NEW d \in (Modal \cap exists) \ isOpen, NEW at \in ZIndex .. MaxZ,
         CreateOverlay(d, at), isOpen' = isOpen \cup {d}, UNCHANGED stale,
         InUse = {} => bindTimers < MaxTimers
  PROVE  /\ overlay' = [overlay EXCEPT ![d] = NextElement] /\ NextElement \in Element \ InUse
         /\ overlay' \in [Dialog -> Element \cup {NoDialog}]
         /\ InUse' = InUse \cup {NextElement} /\ InUse' \subseteq Element
         /\ \A e \in InUse' : instances'[e] = IF e = NextElement THEN at ELSE instances[e]
         /\ oldInstances' \in Seq(Element \ InUse')
         /\ overlayMaxZ' = at
         /\ escape' \in Dialog \cup {NoDialog} /\ blocking' \in BOOLEAN
         /\ bindTimers' \in 0 .. MaxTimers
         /\ PageIsFreed' /\ OverlaysOwned'
<1> DEFINE new == NextElement
<1>0. /\ new \in Element \ InUse /\ new # NoDialog
      /\ d \in Dialog /\ d \in Modal /\ d \notin isOpen /\ d # NoDialog
  BY NextElementIsFree, ElementsAreNumbers, DialogAssumption
<1>1. /\ overlay' = [overlay EXCEPT ![d] = new]
      /\ oldInstances' = IF Kept THEN SubSeq(oldInstances, 1, Len(oldInstances) - 1)
                         ELSE oldInstances
      /\ instances' = [e \in InUse \cup {new} |-> IF e = new THEN at ELSE instances[e]]
      /\ overlayMaxZ' = at
      /\ escape' = IF InUse = {} THEN d ELSE escape
      /\ bindTimers' = IF InUse = {} THEN bindTimers + 1 ELSE bindTimers
      /\ blocking' = blocking
  BY DEF CreateOverlay
<1>2. DialogTypeOK /\ OverlaysFit /\ PageIsFreed /\ OverlaysOwned
  BY DEF DialogInv, DialogsHold
<1>3. InUse' = InUse \cup {new}
  BY <1>1 DEF InUse
<1>4. oldInstances' \in Seq(Element \ InUse')
      /\ \A i, j \in DOMAIN oldInstances' : oldInstances'[i] = oldInstances'[j] => i = j
  <2> DEFINE free == Element \ InUse
             s    == oldInstances
             n    == Len(s)
  <2>1. s \in Seq(free) /\ n \in Nat /\ \A i, j \in 1 .. n : s[i] = s[j] => i = j
    BY <1>2 DEF DialogTypeOK, OverlaysOwned
  <2>2. CASE Kept
    <3>1. s # <<>> /\ new = s[n]
      BY <2>2 DEF Kept, NextElement
    <3>2. n \in 1 .. n
      BY <2>1, <3>1
    <3> DEFINE t == SubSeq(s, 1, n - 1)
    <3>3. t \in Seq(free) /\ Len(t) = n - 1 /\ \A i \in 1 .. n - 1 : t[i] = s[i]
      <4>1. \A i \in 1 .. n - 1 : s[i] \in free
        BY <2>1
      <4>2. 1 \in Int /\ n \in Int /\ n - 1 \in Int /\ n >= 1
        BY <2>1, <3>2
      <4> HIDE DEF free, n, s
      <4>3. /\ t \in Seq(free)
            /\ Len(t) = IF 1 <= n - 1 THEN (n - 1) - 1 + 1 ELSE 0
            /\ \A i \in 1 .. (n - 1) - 1 + 1 : t[i] = s[1 + i - 1]
        BY <4>1, <4>2, SubSeqProperties
      <4> HIDE DEF t
      <4>4. (n - 1) - 1 + 1 = n - 1 /\ Len(t) = n - 1
        BY <4>2, <4>3
      <4>5. ASSUME NEW i \in 1 .. n - 1 PROVE t[i] = s[i]
        <5>1. 1 + i - 1 = i
          BY <4>2
        <5>2. t[i] = s[1 + i - 1]
          BY <4>3, <4>4
        <5> QED
          BY <5>1, <5>2
      <4> QED
        BY <4>3, <4>4, <4>5
    <3>4. \A i \in 1 .. n - 1 : t[i] # new
      BY <2>1, <3>1, <3>2, <3>3
    <3>5. Len(t) \in Nat /\ t = [i \in 1 .. Len(t) |-> t[i]]
      BY <3>3
    <3>6. \A i \in 1 .. Len(t) : t[i] \in free \ {new}
      BY <2>1, <3>2, <3>3, <3>4
    <3> HIDE DEF t
    <3>7. t \in Seq(free \ {new})
      BY <3>5, <3>6
    <3>8. oldInstances' = t
      BY <1>1, <2>2 DEF t
    <3>9. free \ {new} = Element \ InUse'
      BY <1>3
    <3> HIDE DEF free, s, n
    <3>10. \A i, j \in 1 .. Len(t) : t[i] = t[j] => i = j
      BY <2>1, <3>2, <3>3
    <3>11. DOMAIN t = 1 .. Len(t)
      BY <3>7
    <3> QED
      BY <3>7, <3>8, <3>9, <3>10, <3>11
  <2>3. CASE ~Kept
    <3>1. oldInstances' = <<>>
      BY <1>1, <2>3 DEF Kept
    <3> QED
      BY <3>1
  <2> QED
    BY <2>2, <2>3
<1>5. escape' \in Dialog \cup {NoDialog} /\ blocking' \in BOOLEAN /\ PageIsFreed'
  <2>1. InUse' # {}
    BY <1>3
  <2>2. CASE InUse = {}
    <3>1. bindTimers \in 0 .. MaxTimers /\ blocking \in BOOLEAN
      BY <1>2 DEF DialogTypeOK
    <3>2. bindTimers' > 0
      BY <1>1, <2>2, <3>1
    <3>3. escape' = d /\ blocking' = blocking
      BY <1>1, <2>2
    <3> QED
      BY <1>0, <2>1, <3>1, <3>2, <3>3 DEF PageIsFreed
  <2>3. CASE InUse # {}
    BY <1>1, <1>2, <2>1, <2>3 DEF DialogTypeOK, PageIsFreed
  <2> QED
    BY <2>2, <2>3
<1>6. bindTimers' \in 0 .. MaxTimers
  BY <1>1, <1>2, NumberAssumption DEF DialogTypeOK
<1>7. /\ overlay \in [Dialog -> Element \cup {NoDialog}]
      /\ \A x \in Dialog : overlay'[x] = IF x = d THEN new ELSE overlay[x]
      /\ isOpen' \cap Modal = (isOpen \cap Modal) \cup {d}
      /\ isOpen \subseteq Dialog /\ d \in Modal /\ d \notin isOpen
  BY <1>0, <1>1, <1>2 DEF DialogTypeOK
<1>8. OverlaysOwned'
  <2>1. InUse' \subseteq {overlay'[x] : x \in isOpen' \cap Modal}
    <3> SUFFICES ASSUME NEW e \in InUse'
                 PROVE  \E x \in isOpen' \cap Modal : overlay'[x] = e
      OBVIOUS
    <3>1. CASE e = new
      BY <1>0, <1>7, <3>1
    <3>2. CASE e \in InUse
      <4>1. PICK x \in isOpen \cap Modal : overlay[x] = e
        BY <1>2, <3>2 DEF OverlaysOwned
      <4> QED
        BY <1>7, <4>1
    <3> QED
      BY <1>3, <3>1, <3>2
  <2>2. \A x \in isOpen' \ Modal : overlay'[x] = NoDialog
    BY <1>2, <1>7 DEF OverlaysOwned
  <2>3. ~stale' => \A x, y \in isOpen' \cap Modal : overlay'[x] = overlay'[y] => x = y
    <3> SUFFICES ASSUME ~stale, NEW x \in isOpen' \cap Modal, NEW y \in isOpen' \cap Modal,
                        overlay'[x] = overlay'[y]
                 PROVE  x = y
      OBVIOUS
    <3>1. \A u \in isOpen \cap Modal : overlay[u] \in InUse
      BY <1>2 DEF OverlaysFit
    <3>2. \A u \in isOpen \cap Modal : u # d /\ overlay'[u] = overlay[u] /\ overlay[u] # new
      BY <1>0, <1>7, <3>1
    <3>3. overlay'[d] = new
      BY <1>0, <1>7
    <3> QED
      BY <1>2, <1>7, <3>2, <3>3 DEF OverlaysOwned
  <2> QED
    BY <1>4, <2>1, <2>2, <2>3 DEF OverlaysOwned
<1>9. overlay' \in [Dialog -> Element \cup {NoDialog}] /\ InUse' \subseteq Element
      /\ \A e \in InUse' : instances'[e] = IF e = new THEN at ELSE instances[e]
  BY <1>0, <1>1, <1>2, <1>3, <1>7 DEF DialogTypeOK
<1> QED
  BY <1>0, <1>1, <1>3, <1>4, <1>5, <1>6, <1>8, <1>9

LEMMA TakeDownKeeps ==
  ASSUME DialogInv, NEW d \in Dialog, TakeDown(d), isOpen' = isOpen \ {d}, UNCHANGED z
  PROVE  /\ overlay' = overlay
         /\ InUse' = InUse \ {overlay[d]} /\ \A e \in InUse' : instances'[e] = instances[e]
         /\ oldInstances' \in Seq(Element \ InUse')
         /\ overlayMaxZ' \in 0 .. MaxZ
         /\ escape' \in Dialog \cup {NoDialog} /\ blocking' \in BOOLEAN
         /\ bindTimers' = bindTimers /\ stale' \in BOOLEAN
         /\ PageIsFreed' /\ OverlaysOwned' /\ OverlaysFit'
<1> DEFINE e == overlay[d]
           rest == InUse \ {e}
<1>0. /\ DialogTypeOK /\ OverlaysFit /\ PageIsFreed /\ OverlaysOwned
      /\ stale' = (stale \/ (d \notin isOpen /\ e \in InUse))
  BY DEF DialogInv, DialogsHold, TakeDown
<1>1. /\ e \in Element \cup {NoDialog} /\ NoDialog \notin InUse
      /\ oldInstances \in Seq(Element \ InUse) /\ InUse \subseteq Element
  BY <1>0, ElementsAreNumbers DEF DialogTypeOK
<1>2. /\ overlay' = overlay /\ bindTimers' = bindTimers
      /\ InUse' = rest /\ \A r \in rest : instances'[r] = instances[r]
      /\ oldInstances' = IF e \in InUse THEN Append(oldInstances, e) ELSE oldInstances
      /\ escape' = IF rest = {} THEN NoDialog ELSE escape
      /\ blocking' = (blocking /\ rest # {})
      /\ overlayMaxZ' \in 0 .. MaxZ
  <2>1. CASE e = NoDialog
    <3>1. UNCHANGED overlays /\ InUse' = InUse /\ rest = InUse
      BY <1>1, <2>1 DEF TakeDown, overlays, InUse
    <3> QED
      BY <1>0, <1>1, <2>1, <3>1 DEF overlays, DialogTypeOK, PageIsFreed
  <2>2. CASE e # NoDialog
    <3>1. DestroyOverlay(e)
      BY <2>2 DEF TakeDown
    <3>2. InUse' = rest /\ \A r \in rest : instances'[r] = instances[r]
      BY <3>1 DEF DestroyOverlay, InUse
    <3>3. overlayMaxZ' \in 0 .. MaxZ
      <4> DEFINE S == {instances[r] : r \in rest}
      <4>1. S \subseteq 0 .. MaxZ
        BY <1>0, NumberAssumption DEF DialogTypeOK
      <4>2. overlayMaxZ' = Highest(S)
        BY <3>1 DEF DestroyOverlay
      <4> HIDE DEF S
      <4> QED
        BY <4>1, <4>2, HighestOfBounded, NumberAssumption
    <3> QED
      BY <3>1, <3>2, <3>3 DEF DestroyOverlay
  <2> QED
    BY <2>1, <2>2
<1>3. oldInstances' \in Seq(Element \ InUse')
      /\ \A i, j \in DOMAIN oldInstances' : oldInstances'[i] = oldInstances'[j] => i = j
  <2>1. CASE e \in InUse
    <3> DEFINE s == oldInstances
               t == Append(s, e)
    <3>1. s \in Seq(Element \ rest) /\ e \in Element \ rest
      BY <1>1, <2>1
    <3>2. t \in Seq(Element \ rest) /\ Len(t) = Len(s) + 1 /\ t[Len(s) + 1] = e
          /\ \A i \in 1 .. Len(s) : t[i] = s[i]
      BY <3>1
    <3>3. \A i, j \in 1 .. Len(s) : s[i] = s[j] => i = j
      BY <1>0, <3>1 DEF OverlaysOwned
    <3>4. \A i \in 1 .. Len(s) : s[i] # e
      BY <1>1, <2>1
    <3>5. DOMAIN t = 1 .. Len(s) + 1 /\ Len(s) \in Nat
      BY <3>1, <3>2
    <3>6. oldInstances' = t /\ InUse' = rest
      BY <1>2, <2>1
    <3> HIDE DEF s, t, rest
    <3>7. \A i, j \in 1 .. Len(s) + 1 : t[i] = t[j] => i = j
      BY <3>2, <3>3, <3>4, <3>5
    <3> QED
      BY <3>2, <3>5, <3>6, <3>7
  <2>2. CASE e \notin InUse
    BY <1>0, <1>1, <1>2, <2>2 DEF OverlaysOwned
  <2> QED
    BY <2>1, <2>2
<1>4. stale' \in BOOLEAN /\ escape' \in Dialog \cup {NoDialog} /\ blocking' \in BOOLEAN
  BY <1>0, <1>2 DEF DialogTypeOK
<1>5. PageIsFreed'
  <2>1. CASE rest = {}
    BY <1>2, <2>1 DEF PageIsFreed
  <2>2. CASE rest # {}
    BY <1>0, <1>2, <2>2 DEF PageIsFreed
  <2> QED
    BY <2>1, <2>2
<1>6. \A r \in rest : \E x \in (isOpen \ {d}) \cap Modal : overlay[x] = r
  BY <1>0 DEF OverlaysOwned
<1>7. ASSUME ~stale', NEW x \in (isOpen \ {d}) \cap Modal
      PROVE  overlay[x] \in rest /\ instances[overlay[x]] = z[x] - 1
  <2>1. ~stale /\ (d \in isOpen \/ e \notin InUse)
    BY <1>0, <1>7
  <2>2. overlay[x] \in InUse /\ instances[overlay[x]] = z[x] - 1
    BY <1>0, <2>1 DEF OverlaysFit
  <2>3. overlay[x] # e
    <3>1. CASE d \in isOpen \cap Modal
      BY <1>0, <2>1, <3>1 DEF OverlaysOwned
    <3>2. CASE d \in isOpen \ Modal
      BY <1>0, <1>1, <2>2, <3>2 DEF OverlaysOwned
    <3>3. CASE d \notin isOpen
      BY <2>1, <2>2, <3>3
    <3> QED
      BY <3>1, <3>2, <3>3
  <2> QED
    BY <2>2, <2>3
<1>8. OverlaysFit'
  <2> SUFFICES ASSUME ~stale'
               PROVE  /\ InUse' = {overlay'[x] : x \in isOpen' \cap Modal}
                      /\ \A x \in isOpen' \cap Modal : instances'[overlay'[x]] = z'[x] - 1
    BY DEF OverlaysFit
  <2> HIDE DEF rest
  <2> QED
    BY <1>2, <1>6, <1>7
<1>9. OverlaysOwned'
  <2>1. ~stale' => \A x, y \in isOpen' \cap Modal : overlay'[x] = overlay'[y] => x = y
    BY <1>0, <1>2 DEF OverlaysOwned
  <2>2. \A x \in isOpen' \ Modal : overlay'[x] = NoDialog
    BY <1>0, <1>2 DEF OverlaysOwned
  <2>3. InUse' \subseteq {overlay'[x] : x \in isOpen' \cap Modal}
    BY <1>2, <1>6
  <2> QED
    BY <1>3, <2>1, <2>2, <2>3 DEF OverlaysOwned
<1> QED
  BY <1>2, <1>3, <1>4, <1>5, <1>8, <1>9

LEMMA CloseKeeps ==
  ASSUME DialogInv, NEW d \in Dialog, CloseDialog(d), bubbling' \in BOOLEAN
  PROVE  DialogInv' /\ isOpen' \subseteq isOpen
<1>0. DialogTypeOK /\ MaxIsAbove
  BY DEF DialogInv
<1>1. /\ TakeDown(d) /\ isOpen' = isOpen \ {d} /\ exists' = exists /\ z' = z
      /\ maxZ' = IF d \in Modal THEN Highest({z[e] : e \in exists \ {d}}) ELSE maxZ
  BY DEF CloseDialog
<1>2. maxZ' \in 0 .. MaxZ /\ (d \in Modal => \A e \in exists \ {d} : z[e] <= maxZ')
  <2> DEFINE S == {z[e] : e \in exists \ {d}}
  <2>1. \A e \in exists : z[e] \in 0 .. MaxZ
    BY <1>0, NumberAssumption DEF DialogTypeOK
  <2>2. S \subseteq 0 .. MaxZ /\ \A e \in exists \ {d} : z[e] \in S
    BY <2>1
  <2>3. maxZ' = IF d \in Modal THEN Highest(S) ELSE maxZ
    BY <1>1
  <2> HIDE DEF S
  <2>4. Highest(S) \in 0 .. MaxZ /\ \A x \in S : Highest(S) >= x
    BY <2>2, HighestOfBounded, NumberAssumption
  <2>5. maxZ \in 0 .. MaxZ
    BY <1>0 DEF DialogTypeOK
  <2> QED
    BY <2>1, <2>2, <2>3, <2>4, <2>5
<1>3. /\ overlay' = overlay
      /\ InUse' = InUse \ {overlay[d]} /\ \A e \in InUse' : instances'[e] = instances[e]
      /\ oldInstances' \in Seq(Element \ InUse')
      /\ overlayMaxZ' \in 0 .. MaxZ
      /\ escape' \in Dialog \cup {NoDialog} /\ blocking' \in BOOLEAN
      /\ bindTimers' = bindTimers /\ stale' \in BOOLEAN
      /\ PageIsFreed' /\ OverlaysOwned' /\ OverlaysFit'
  BY <1>1, TakeDownKeeps
<1>4. DialogTypeOK'
  BY <1>0, <1>1, <1>2, <1>3 DEF DialogTypeOK
<1>5. MaxIsAbove'
  <2> SUFFICES ASSUME NEW e \in (isOpen \ {d}) \cap (Modal \cup Stack)
               PROVE  z[e] <= Below(e)'
    BY <1>1 DEF MaxIsAbove
  <2>1. z[e] \in Int /\ maxZ \in Int /\ maxZ' \in Int /\ ZIndex \in Int /\ e \in exists
    BY <1>0, <1>2, NumberAssumption DEF DialogTypeOK
  <2>2. z[e] <= Below(e)
    BY <1>0 DEF MaxIsAbove
  <2> QED
    BY <1>1, <1>2, <2>1, <2>2 DEF Below
<1> QED
  BY <1>1, <1>3, <1>4, <1>5 DEF DialogInv, DialogsHold

LEMMA DestroyKeeps ==
  ASSUME DialogInv, NEW d \in Dialog, DestroyDialog(d)
  PROVE  DialogInv' /\ isOpen' \subseteq isOpen
<1>0. DialogTypeOK /\ MaxIsAbove
  BY DEF DialogInv
<1>1. /\ TakeDown(d) /\ isOpen' = isOpen \ {d} /\ exists' = exists \ {d}
      /\ z' = z /\ maxZ' = maxZ /\ bubbling' = bubbling
  BY DEF DestroyDialog, stacking
<1>2. /\ overlay' = overlay
      /\ InUse' = InUse \ {overlay[d]} /\ \A e \in InUse' : instances'[e] = instances[e]
      /\ oldInstances' \in Seq(Element \ InUse')
      /\ overlayMaxZ' \in 0 .. MaxZ
      /\ escape' \in Dialog \cup {NoDialog} /\ blocking' \in BOOLEAN
      /\ bindTimers' = bindTimers /\ stale' \in BOOLEAN
      /\ PageIsFreed' /\ OverlaysOwned' /\ OverlaysFit'
  BY <1>1, TakeDownKeeps
<1>3. DialogTypeOK'
  BY <1>0, <1>1, <1>2 DEF DialogTypeOK
<1>4. MaxIsAbove'
  BY <1>0, <1>1 DEF MaxIsAbove, Below
<1> QED
  BY <1>1, <1>2, <1>3, <1>4 DEF DialogInv, DialogsHold

(* A dialog that opens or is pressed comes above what is open.             *)
LEMMA OpenKeeps ==
  ASSUME DialogInv, NEW d \in Dialog, OpenDialog(d)
  PROVE  DialogInv' /\ OpensOnTop
<1>0. DialogTypeOK /\ MaxIsAbove /\ OverlaysFit /\ PageIsFreed /\ OverlaysOwned
  BY DEF DialogInv, DialogsHold
<1>1. /\ d \in exists /\ d \notin isOpen /\ Below(d) + 2 <= MaxZ
      /\ d \in Modal /\ InUse = {} => bindTimers < MaxTimers
      /\ isOpen' = isOpen \cup {d}
      /\ exists' = exists /\ bubbling' = bubbling /\ stale' = stale
  BY DEF OpenDialog
<1>2. /\ Below(d) \in Int /\ Below(d) >= ZIndex /\ Below(d) >= maxZ /\ Below(d) >= 0
      /\ maxZ \in Int /\ ZIndex \in Int /\ MaxZ \in Int
      /\ \A e \in Dialog : z[e] \in Int /\ Below(e) = Below(d)
  BY <1>0, NumberAssumption DEF Below, DialogTypeOK
<1>3. \A e \in isOpen \cap (Modal \cup Stack) : e \in Dialog /\ z[e] <= Below(d)
  BY <1>0, <1>2 DEF MaxIsAbove, DialogTypeOK
<1>4. ASSUME NEW steps \in {1, 2}, Raise(d, steps)
      PROVE  /\ z' \in [Dialog -> ZIndex .. MaxZ] /\ maxZ' \in 0 .. MaxZ
             /\ MaxIsAbove'
             /\ \A e \in Dialog : z'[e] = IF e = d THEN Below(d) + steps ELSE z[e]
  <2>1. maxZ' = Below(d) + steps /\ z' = [z EXCEPT ![d] = Below(d) + steps]
    BY <1>4 DEF Raise
  <2>2. /\ steps \in Int /\ Below(d) + steps <= MaxZ /\ Below(d) + steps >= ZIndex
        /\ Below(d) + steps >= 0
    BY <1>1, <1>2
  <2>3. /\ z' \in [Dialog -> ZIndex .. MaxZ] /\ maxZ' \in 0 .. MaxZ
        /\ \A e \in Dialog : z'[e] = IF e = d THEN Below(d) + steps ELSE z[e]
    BY <1>0, <1>2, <2>1, <2>2 DEF DialogTypeOK
  <2>4. \A e \in Dialog : Below(e)' = Below(d) + steps
    BY <1>2, <2>1, <2>2 DEF Below
  <2>5. MaxIsAbove'
    <3> SUFFICES ASSUME NEW e \in isOpen' \cap (Modal \cup Stack)
                 PROVE  z'[e] <= Below(e)'
      BY DEF MaxIsAbove
    <3>1. e \in Dialog /\ (e = d \/ z[e] <= Below(d))
      BY <1>1, <1>3
    <3>2. z'[e] = (IF e = d THEN Below(d) + steps ELSE z[e]) /\ Below(e)' = Below(d) + steps
      BY <2>3, <2>4, <3>1
    <3> QED
      BY <1>2, <2>2, <3>1, <3>2
  <2> QED
    BY <2>3, <2>5
<1>5. CASE d \in Modal
  <2>1. CreateOverlay(d, Below(d) + 1) /\ Raise(d, 2)
    BY <1>5 DEF OpenDialog
  <2> DEFINE new == NextElement
             at  == Below(d) + 1
  <2>2. at \in ZIndex .. MaxZ /\ at \in Int
    BY <1>1, <1>2
  <2>3. /\ overlay' = [overlay EXCEPT ![d] = new] /\ new \in Element \ InUse
        /\ overlay' \in [Dialog -> Element \cup {NoDialog}]
        /\ InUse' = InUse \cup {new} /\ InUse' \subseteq Element
        /\ \A e \in InUse' : instances'[e] = IF e = new THEN at ELSE instances[e]
        /\ oldInstances' \in Seq(Element \ InUse')
        /\ overlayMaxZ' = at
        /\ escape' \in Dialog \cup {NoDialog} /\ blocking' \in BOOLEAN
        /\ bindTimers' \in 0 .. MaxTimers
        /\ PageIsFreed' /\ OverlaysOwned'
    BY <1>1, <1>5, <2>1, <2>2, CreateKeeps
  <2> HIDE DEF new
  <2>4. /\ z' \in [Dialog -> ZIndex .. MaxZ] /\ maxZ' \in 0 .. MaxZ /\ MaxIsAbove'
        /\ \A e \in Dialog : z'[e] = IF e = d THEN Below(d) + 2 ELSE z[e]
    BY <1>4, <2>1
  <2>5. DialogTypeOK'
    <3>1. overlayMaxZ' \in 0 .. MaxZ /\ \A e \in InUse' : instances'[e] \in ZIndex .. MaxZ
      BY <1>0, <1>2, <2>2, <2>3, NumberAssumption DEF DialogTypeOK
    <3>2. isOpen' \subseteq exists' /\ exists' \subseteq Dialog
          /\ bubbling' \in BOOLEAN /\ stale' \in BOOLEAN
      BY <1>0, <1>1 DEF DialogTypeOK
    <3> QED
      BY <2>3, <2>4, <3>1, <3>2 DEF DialogTypeOK
  <2>6. overlay'[d] = new /\ instances'[new] = at /\ z'[d] = Below(d) + 2
    BY <1>0, <2>3, <2>4 DEF DialogTypeOK
  <2>7. OverlaysFit'
    <3> SUFFICES ASSUME ~stale
                 PROVE  /\ InUse' = {overlay'[x] : x \in isOpen' \cap Modal}
                        /\ \A x \in isOpen' \cap Modal : instances'[overlay'[x]] = z'[x] - 1
      BY <1>1 DEF OverlaysFit
    <3>1. InUse = {overlay[x] : x \in isOpen \cap Modal}
          /\ \A x \in isOpen \cap Modal : instances[overlay[x]] = z[x] - 1
      BY <1>0 DEF OverlaysFit
    <3>2. ASSUME NEW x \in isOpen \cap Modal
          PROVE  /\ overlay'[x] = overlay[x] /\ overlay[x] \in InUse /\ z'[x] = z[x]
                 /\ instances'[overlay[x]] = z[x] - 1
      <4>1. x \in Dialog /\ x # d
        BY <1>1, <3>2, DialogAssumption
      <4>2. overlay[x] \in InUse /\ overlay[x] # new
        BY <2>3, <3>1
      <4> QED
        BY <1>0, <2>3, <2>4, <3>1, <4>1, <4>2 DEF DialogTypeOK
    <3>3. isOpen' \cap Modal = (isOpen \cap Modal) \cup {d}
      BY <1>1, <1>5
    <3>4. z'[d] - 1 = at
      BY <1>2, <2>6
    <3>5. InUse' = {overlay'[x] : x \in isOpen' \cap Modal}
      <4>1. \A x \in isOpen' \cap Modal : overlay'[x] \in InUse'
        BY <2>3, <2>6, <3>2, <3>3
      <4>2. \A e \in InUse' : \E x \in isOpen' \cap Modal : overlay'[x] = e
        BY <2>3, <2>6, <3>1, <3>2, <3>3
      <4> QED
        BY <4>1, <4>2
    <3>6. \A x \in isOpen' \cap Modal : instances'[overlay'[x]] = z'[x] - 1
      BY <2>6, <3>2, <3>3, <3>4
    <3> QED
      BY <3>5, <3>6
  <2>8. OpensOnTop
    <3>1. isOpen' \ isOpen = {d}
      BY <1>1
    <3>2. instances'[overlay'[d]] = Below(d) + 1
      BY <2>6
    <3> QED
      BY <1>2, <1>3, <1>5, <3>1, <3>2 DEF OpensOnTop
  <2> QED
    BY <2>3, <2>4, <2>5, <2>7, <2>8 DEF DialogInv, DialogsHold
<1>6. CASE d \notin Modal
  <2>1. /\ IF d \in Stack THEN Raise(d, 1) ELSE UNCHANGED stacking
        /\ overlay' = [overlay EXCEPT ![d] = NoDialog]
        /\ UNCHANGED <<instances, oldInstances, overlayMaxZ, escape, blocking, bindTimers>>
    BY <1>6 DEF OpenDialog
  <2>2. InUse' = InUse /\ isOpen' \cap Modal = isOpen \cap Modal
    BY <1>1, <1>6, <2>1 DEF InUse
  <2>3. /\ z' \in [Dialog -> ZIndex .. MaxZ] /\ maxZ' \in 0 .. MaxZ /\ MaxIsAbove'
        /\ \A e \in Dialog : e # d => z'[e] = z[e]
        /\ d \in Stack => z'[d] = Below(d) + 1
    <3>1. CASE d \in Stack
      BY <1>4, <2>1, <3>1
    <3>2. CASE d \notin Stack
      <4>1. z' = z /\ maxZ' = maxZ
        BY <2>1, <3>2 DEF stacking
      <4>2. isOpen' \cap (Modal \cup Stack) = isOpen \cap (Modal \cup Stack)
        BY <1>1, <1>6, <3>2
      <4>3. MaxIsAbove'
        BY <1>0, <4>1, <4>2 DEF MaxIsAbove, Below
      <4> QED
        BY <1>0, <3>2, <4>1, <4>3 DEF DialogTypeOK
    <3> QED
      BY <3>1, <3>2
  <2>4. \A x \in Dialog : overlay'[x] = IF x = d THEN NoDialog ELSE overlay[x]
    BY <1>0, <2>1 DEF DialogTypeOK
  <2>5. DialogTypeOK'
    <3>1. overlay' \in [Dialog -> Element \cup {NoDialog}]
      BY <1>0, <2>1 DEF DialogTypeOK
    <3>2. isOpen' \subseteq exists'
      BY <1>0, <1>1 DEF DialogTypeOK
    <3> QED
      BY <1>0, <1>1, <2>1, <2>2, <2>3, <3>1, <3>2 DEF DialogTypeOK
  <2>6. \A x \in isOpen \cap Modal : x # d /\ x \in Dialog /\ overlay'[x] = overlay[x] /\ z'[x] = z[x]
    BY <1>1, <2>3, <2>4, DialogAssumption
  <2>7. OverlaysFit'
    BY <1>0, <1>1, <2>1, <2>2, <2>6 DEF OverlaysFit
  <2>8. OverlaysOwned'
    <3>1. \A x \in isOpen' \ Modal : overlay'[x] = NoDialog
      BY <1>0, <1>1, <2>4 DEF OverlaysOwned, DialogTypeOK
    <3> QED
      BY <1>0, <1>1, <2>1, <2>2, <2>6, <3>1 DEF OverlaysOwned
  <2>9. PageIsFreed'
    BY <1>0, <2>1, <2>2 DEF PageIsFreed
  <2>10. OpensOnTop
    <3>1. isOpen' \ isOpen = {d}
      BY <1>1
    <3> QED
      BY <1>2, <1>3, <1>6, <2>3, <3>1 DEF OpensOnTop
  <2> QED
    BY <2>3, <2>5, <2>7, <2>8, <2>9, <2>10 DEF DialogInv, DialogsHold
<1> QED
  BY <1>5, <1>6

LEMMA PressKeeps ==
  ASSUME DialogInv, NEW d \in Dialog, PressDialog(d)
  PROVE  DialogInv' /\ isOpen' \subseteq isOpen
<1>0. DialogTypeOK /\ MaxIsAbove /\ OverlaysFit /\ PageIsFreed /\ OverlaysOwned
  BY DEF DialogInv, DialogsHold
<1>1. /\ d \in isOpen /\ d \notin Modal /\ Below(d) + 1 <= MaxZ
      /\ maxZ' = Below(d) + 1 /\ z' = [z EXCEPT ![d] = Below(d) + 1]
      /\ UNCHANGED <<exists, isOpen, overlay, instances, oldInstances, overlayMaxZ, escape,
                     blocking, bindTimers, bubbling, stale>>
  BY DEF PressDialog, Raise, overlays
<1>2. /\ Below(d) \in Int /\ Below(d) >= ZIndex /\ Below(d) >= 0
      /\ ZIndex \in Int /\ MaxZ \in Int /\ maxZ' \in Int
      /\ \A e \in Dialog : z[e] \in Int /\ Below(e) = Below(d) /\ Below(e)' = Below(d) + 1
  BY <1>0, <1>1, NumberAssumption DEF Below, DialogTypeOK
<1>3. /\ z' \in [Dialog -> ZIndex .. MaxZ] /\ maxZ' \in 0 .. MaxZ
      /\ \A e \in Dialog : z'[e] = IF e = d THEN Below(d) + 1 ELSE z[e]
  BY <1>0, <1>1, <1>2 DEF DialogTypeOK
<1>4. DialogTypeOK'
  BY <1>0, <1>1, <1>3 DEF DialogTypeOK, InUse
<1>5. MaxIsAbove'
  <2> SUFFICES ASSUME NEW e \in isOpen \cap (Modal \cup Stack)
               PROVE  z'[e] <= Below(e)'
    BY <1>1 DEF MaxIsAbove
  <2>1. e \in Dialog /\ z[e] <= Below(d)
    BY <1>0, <1>2 DEF MaxIsAbove, DialogTypeOK
  <2> QED
    BY <1>2, <1>3, <2>1
<1>6. \A x \in isOpen \cap Modal : z'[x] = z[x]
  BY <1>0, <1>1, <1>3 DEF DialogTypeOK
<1>7. OverlaysFit' /\ PageIsFreed' /\ OverlaysOwned'
  BY <1>0, <1>1, <1>6 DEF OverlaysFit, PageIsFreed, OverlaysOwned, InUse
<1> QED
  BY <1>1, <1>4, <1>5, <1>7 DEF DialogInv, DialogsHold

LEMMA BindingKeeps ==
  ASSUME DialogInv, BindBlocking
  PROVE  DialogInv' /\ isOpen' \subseteq isOpen
<1>0. DialogTypeOK /\ MaxIsAbove /\ OverlaysFit /\ PageIsFreed /\ OverlaysOwned
  BY DEF DialogInv, DialogsHold
<1>1. /\ bindTimers > 0 /\ bindTimers' = bindTimers - 1
      /\ blocking' = (blocking \/ InUse # {})
      /\ UNCHANGED <<exists, isOpen, z, maxZ, overlay, instances, oldInstances, overlayMaxZ,
                     escape, bubbling, stale>>
  BY DEF BindBlocking, stacking
<1>2. bindTimers' \in 0 .. MaxTimers
  BY <1>0, <1>1, NumberAssumption DEF DialogTypeOK
<1>3. blocking' \in BOOLEAN
  BY <1>0, <1>1 DEF DialogTypeOK
<1>4. DialogTypeOK'
  BY <1>0, <1>1, <1>2, <1>3 DEF DialogTypeOK, InUse
<1>5. MaxIsAbove' /\ OverlaysFit' /\ OverlaysOwned'
  BY <1>0, <1>1 DEF MaxIsAbove, Below, OverlaysFit, OverlaysOwned, InUse
<1>6. PageIsFreed'
  <2>1. InUse' = InUse
    BY <1>1 DEF InUse
  <2>2. CASE InUse = {}
    BY <1>0, <1>1, <2>1, <2>2 DEF PageIsFreed
  <2>3. CASE InUse # {}
    BY <1>0, <1>1, <2>1, <2>3 DEF PageIsFreed
  <2> QED
    BY <2>2, <2>3
<1> QED
  BY <1>1, <1>4, <1>5, <1>6 DEF DialogInv, DialogsHold

LEMMA DialogStays ==
  ASSUME DialogInv, UNCHANGED <<exists, isOpen, stacking, overlays, stale>>, bubbling' \in BOOLEAN
  PROVE  DialogInv' /\ isOpen' \subseteq isOpen
<1>1. UNCHANGED <<exists, isOpen, z, maxZ, overlay, instances, oldInstances, overlayMaxZ,
                  escape, blocking, bindTimers, stale>>
  BY DEF stacking, overlays
<1> QED
  BY <1>1 DEF DialogInv, DialogTypeOK, DialogsHold, OverlaysFit, PageIsFreed, OverlaysOwned,
              MaxIsAbove, Below, InUse

LEMMA DialogStep ==
  ASSUME DialogInv, [DialogNext]_dialogVars
  PROVE  DialogInv' /\ OpensOnTop
<1>0. bubbling \in BOOLEAN /\ escape \in Dialog \cup {NoDialog}
  BY DEF DialogInv, DialogTypeOK
<1>1. isOpen' \subseteq isOpen => OpensOnTop
  BY DEF OpensOnTop
<1>2. ASSUME NEW d \in Dialog, OpenDialog(d) PROVE DialogInv' /\ OpensOnTop
  BY <1>2, OpenKeeps
<1>3. ASSUME NEW d \in Dialog, PressDialog(d) PROVE DialogInv' /\ OpensOnTop
  BY <1>1, <1>3, PressKeeps
<1>4. ASSUME NEW d \in Dialog, CloseCall(d) PROVE DialogInv' /\ OpensOnTop
  BY <1>0, <1>1, <1>4, CloseKeeps DEF CloseCall
<1>5. ASSUME NEW d \in Dialog, Escape(d) PROVE DialogInv' /\ OpensOnTop
  BY <1>1, <1>5, CloseKeeps DEF Escape
<1>6. ASSUME NEW d \in Dialog, DestroyDialog(d) PROVE DialogInv' /\ OpensOnTop
  BY <1>1, <1>6, DestroyKeeps
<1>7. CASE EscapeOutside
  BY <1>0, <1>1, <1>7, CloseKeeps DEF EscapeOutside
<1>8. CASE BindBlocking
  BY <1>1, <1>8, BindingKeeps
<1>9. CASE Bubble
  <2>1. bubbling' \in BOOLEAN
    BY <1>9 DEF Bubble
  <2>2. CASE escape # NoDialog
    BY <1>0, <1>1, <1>9, <2>1, <2>2, CloseKeeps DEF Bubble
  <2>3. CASE escape = NoDialog
    BY <1>1, <1>9, <2>1, <2>3, DialogStays DEF Bubble
  <2> QED
    BY <2>2, <2>3
<1>10. CASE UNCHANGED dialogVars
  BY <1>0, <1>1, <1>10, DialogStays DEF dialogVars
<1> QED
  BY <1>2, <1>3, <1>4, <1>5, <1>6, <1>7, <1>8, <1>9, <1>10 DEF DialogNext

LEMMA DialogInitial == DialogInit => DialogInv
<1> SUFFICES ASSUME DialogInit PROVE DialogInv
  OBVIOUS
<1>1. InUse = {} /\ isOpen = {} /\ oldInstances = <<>>
  BY DEF DialogInit, InUse
<1>2. ZIndex \in ZIndex .. MaxZ /\ 0 \in 0 .. MaxZ /\ 0 \in 0 .. MaxTimers
  BY NumberAssumption
<1>3. DialogTypeOK
  <2>1. /\ isOpen \subseteq exists /\ exists \subseteq Dialog
        /\ z \in [Dialog -> ZIndex .. MaxZ]
        /\ overlay \in [Dialog -> Element \cup {NoDialog}]
    BY <1>1, <1>2 DEF DialogInit
  <2>2. <<>> \in Seq(Element \ InUse)
    OBVIOUS
  <2>3. maxZ = 0 /\ overlayMaxZ = 0 /\ bindTimers = 0 /\ escape = NoDialog
        /\ blocking \in BOOLEAN /\ bubbling \in BOOLEAN /\ stale \in BOOLEAN
    BY DEF DialogInit
  <2> QED
    BY <1>1, <1>2, <2>1, <2>2, <2>3 DEF DialogTypeOK
<1> QED
  BY <1>1, <1>3 DEF DialogInit, DialogInv, DialogsHold, OverlaysFit, PageIsFreed, OverlaysOwned,
                    MaxIsAbove

(* The dialogs' inductive invariant: DialogsHold, overlays in use belong   *)
(* to open modal dialogs (each to one of them unless another dialog has    *)
(* taken one down), and maxZ is not below an open one that was raised.     *)
THEOREM DialogInvariance == DialogSpec => []DialogInv
BY DialogInitial, DialogStep, PTL DEF DialogSpec

(* However many dialogs are opened, raised, closed and destroyed, every    *)
(* open modal dialog lies on an overlay of its own while no dialog that    *)
(* was not open has taken one down, and when the last overlay is gone      *)
(* nothing blocks the page any more.                                       *)
THEOREM OverlaysAreOwn == DialogSpec => []DialogsHold
<1>1. DialogInv => DialogsHold
  BY DEF DialogInv
<1> QED
  BY <1>1, DialogInvariance, PTL

(* A dialog opens above all that were opened or raised before it.          *)
THEOREM DialogsOpenOnTop == DialogSpec => [][OpensOnTop]_dialogVars
<1>1. DialogInv /\ [DialogNext]_dialogVars => [OpensOnTop]_dialogVars
  BY DialogStep
<1> QED
  BY <1>1, DialogInvariance, PTL DEF DialogSpec

-------------------------------------------------------------------------------
(* The inline editors: one editor at a time, then the timers that blur and *)
(* reset them, then the steps.                                             *)

Undone == [state : {"initial", "changed", "reverted"}, initial : Text, extremal : Text]

(* What the invariant says of one editor, given its display and what its   *)
(* undo decorator holds.                                                   *)
Edited(e) ==
  /\ display[e] = Displayed(value[e])
  /\ undo[e].state = "initial"  => value[e] = commits[e][2]
  /\ undo[e].state = "changed"  => value[e] = commits[e][2] /\ undo[e].initial = commits[e][1]
  /\ undo[e].state = "reverted" => /\ value[e] = commits[e][1]
                                   /\ undo[e].extremal = commits[e][2]
                                   /\ undo[e].initial = commits[e][1]

LEMMA OfOneEditor ==
  ASSUME EditInv
  PROVE  EditTypeOK /\ \A e \in Editor : Edited(e)
<1>1. EditTypeOK
  BY DEF EditInv
<1>2. ASSUME NEW e \in Editor PROVE Edited(e)
  <2>1. undo[e].state \in {"initial", "changed", "reverted"}
    BY <1>1 DEF EditTypeOK
  <2> QED
    BY <2>1 DEF EditInv, EditsHold, EditorsAgree, UndoHolds, RevertedToFirst, Edited
<1> QED
  BY <1>1, <1>2

LEMMA ByEditor ==
  ASSUME EditTypeOK', \A e \in Editor : Edited(e)', FieldsFollow', ResetBeforeCaret'
  PROVE  EditInv'
<1>1. \A e \in Editor : undo'[e].state \in {"initial", "changed", "reverted"}
  BY DEF EditTypeOK
<1>2. UndoHolds' /\ RevertedToFirst' /\ \A e \in Editor : display'[e] = Displayed(value'[e])
  BY <1>1 DEF UndoHolds, RevertedToFirst, Edited, Displayed
<1>3. timeouts' = <<>> => \A e \in Editor : field'[e] # value'[e] =>
        e \in editing' /\ (e = fieldFocus' \/ field'[e] \in Rejected)
  BY DEF FieldsFollow, ResetPending
<1> QED
  BY <1>2, <1>3 DEF EditInv, EditsHold, EditorsAgree, Displayed

(* updateModelValue, for texts that differ from their values or not.       *)
LEMMA UpdateKeeps ==
  ASSUME EditInv, NEW S \in SUBSET Editor, NEW new \in [S -> Text], UpdateModelValues(new)
  PROVE  /\ value' \in [Editor -> Text] /\ field' \in [Editor -> Text]
         /\ display' \in [Editor -> Text \cup {Default}] /\ undo' \in [Editor -> Undone]
         /\ \A e \in Editor : Edited(e)'
         /\ \A e \in Editor : e \notin S \/ new[e] = value[e] =>
              value'[e] = value[e] /\ field'[e] = field[e]
         /\ \A e \in S : new[e] # value[e] => value'[e] = new[e] /\ field'[e] = new[e]
<1> DEFINE changed == {e \in S : new[e] # value[e]}
<1>0. EditTypeOK /\ \A e \in Editor : Edited(e)
  BY OfOneEditor
<1>1. /\ value' = [e \in Editor |-> IF e \in changed THEN new[e] ELSE value[e]]
      /\ display' = [e \in Editor |-> IF e \in changed THEN Displayed(new[e]) ELSE display[e]]
      /\ field' = [e \in Editor |-> IF e \in changed THEN new[e] ELSE field[e]]
      /\ undo' = [e \in Editor |-> IF e \in changed
                   THEN [undo[e] EXCEPT !.state = "changed", !.initial = value[e]] ELSE undo[e]]
      /\ commits' = [e \in Editor |-> IF e \in changed THEN <<value[e], new[e]>> ELSE commits[e]]
  BY DEF UpdateModelValues
<1>2. \A e \in changed : e \in Editor /\ new[e] \in Text /\ Displayed(new[e]) \in Text \cup {Default}
  BY DEF Displayed
<1> HIDE DEF changed
<1>3. undo \in [Editor -> Undone] /\ value \in [Editor -> Text]
      /\ field \in [Editor -> Text] /\ display \in [Editor -> Text \cup {Default}]
  BY <1>0 DEF EditTypeOK, Undone
<1>4. ASSUME NEW e \in changed
      PROVE  /\ undo'[e] \in Undone /\ undo'[e].state = "changed" /\ undo'[e].initial = value[e]
             /\ value'[e] = new[e] /\ display'[e] = Displayed(new[e])
             /\ commits'[e] = <<value[e], new[e]>>
  BY <1>1, <1>2, <1>3 DEF Undone
<1>5. ASSUME NEW e \in Editor \ changed
      PROVE  /\ undo'[e] = undo[e] /\ value'[e] = value[e] /\ display'[e] = display[e]
             /\ commits'[e] = commits[e]
  BY <1>1
<1>6. undo' \in [Editor -> Undone]
  BY <1>1, <1>3, <1>4, <1>5
<1>7. value' \in [Editor -> Text] /\ field' \in [Editor -> Text]
      /\ display' \in [Editor -> Text \cup {Default}]
  BY <1>1, <1>2, <1>3
<1>8. ASSUME NEW e \in Editor PROVE Edited(e)'
  <2>1. CASE e \in changed
    BY <1>4, <2>1 DEF Edited
  <2>2. CASE e \notin changed
    BY <1>0, <1>5, <2>2 DEF Edited
  <2> QED
    BY <2>1, <2>2
<1> QED
  BY <1>1, <1>6, <1>7, <1>8 DEF changed

(* A field stays right if it is not touched and neither its edit nor its   *)
(* pending reset ends; the others have to be made right.                   *)
LEMMA FieldsStay ==
  ASSUME EditInv, NEW D \in SUBSET Editor,
         \A e \in Editor \ D : value'[e] = value[e] /\ field'[e] = field[e],
         \A e \in D : \/ field'[e] = value'[e] \/ ResetPending(e)'
                      \/ e \in editing' /\ e = fieldFocus',
         editing \ D \subseteq editing',
         \A e \in editing \ D : e = fieldFocus => e = fieldFocus' \/ field[e] \in Rejected,
         \A e \in Editor \ D : ResetPending(e) => ResetPending(e)'
  PROVE  FieldsFollow'
<1>1. FieldsFollow
  BY DEF EditInv
<1> SUFFICES ASSUME NEW e \in Editor, field'[e] # value'[e]
             PROVE  \/ e \in editing' /\ (e = fieldFocus' \/ field'[e] \in Rejected)
                    \/ ResetPending(e)'
  BY DEF FieldsFollow
<1>2. CASE e \in D
  BY <1>2
<1>3. CASE e \notin D
  BY <1>1, <1>3 DEF FieldsFollow
<1> QED
  BY <1>2, <1>3

(* The timers.                                                             *)
Timers == Seq({"caret", "button", "reset"} \X Editor)
Pending(t, e) == \E i \in DOMAIN t : t[i] = <<"reset", e>>
Ordered(t, E) ==
  \A i \in DOMAIN t : \A e \in E : t[i] = <<"reset", e>> =>
    \E j \in DOMAIN t : j > i /\ t[j] = <<"caret", e>>

LEMMA TimerSet ==
  ASSUME NEW t \in Timers, NEW E, NEW F, Ordered(t, E),
         NEW kind \in {"caret", "button", "reset"}, NEW x \in Editor,
         F \subseteq IF kind = "caret" THEN E \cup {x} ELSE E,
         kind = "reset" => x \notin F
  PROVE  /\ Append(t, <<kind, x>>) \in Timers
         /\ Ordered(Append(t, <<kind, x>>), F)
         /\ \A e \in Editor : Pending(t, e) => Pending(Append(t, <<kind, x>>), e)
         /\ kind = "reset" => Pending(Append(t, <<kind, x>>), x)
<1> DEFINE u == Append(t, <<kind, x>>)
           n == Len(t)
<1>1. /\ u \in Timers /\ n \in Nat /\ DOMAIN t = 1 .. n /\ DOMAIN u = 1 .. n + 1
      /\ u[n + 1] = <<kind, x>> /\ \A i \in 1 .. n : u[i] = t[i]
  BY DEF Timers
<1> HIDE DEF u, n
<1>2. n + 1 \in DOMAIN u /\ \A i \in DOMAIN t : i \in DOMAIN u /\ i < n + 1
  BY <1>1
<1>3. Ordered(u, F)
  <2> SUFFICES ASSUME NEW i \in DOMAIN u, NEW e \in F, u[i] = <<"reset", e>>
               PROVE  \E j \in DOMAIN u : j > i /\ u[j] = <<"caret", e>>
    BY DEF Ordered
  <2>1. i # n + 1
    BY <1>1
  <2>2. i \in DOMAIN t /\ t[i] = <<"reset", e>>
    BY <1>1, <2>1
  <2>3. CASE e \in E
    <3>1. PICK j \in DOMAIN t : j > i /\ t[j] = <<"caret", e>>
      BY <2>2, <2>3 DEF Ordered
    <3> QED
      BY <1>1, <1>2, <3>1
  <2>4. CASE e \notin E
    <3>1. kind = "caret" /\ e = x
      BY <2>4
    <3>2. n + 1 > i
      BY <1>1, <2>2
    <3> QED
      BY <1>1, <1>2, <3>1, <3>2
  <2> QED
    BY <2>3, <2>4
<1>4. \A e \in Editor : Pending(t, e) => Pending(u, e)
  BY <1>1, <1>2 DEF Pending
<1>5. kind = "reset" => Pending(u, x)
  BY <1>1, <1>2 DEF Pending
<1> QED
  BY <1>1, <1>3, <1>4, <1>5 DEF u

LEMMA TimerRuns ==
  ASSUME NEW t \in Timers, t # <<>>, NEW E, Ordered(t, E)
  PROVE  /\ Head(t) \in {"caret", "button", "reset"} \X Editor /\ Tail(t) \in Timers
         /\ Ordered(Tail(t), E)
         /\ \A e \in Editor : Pending(t, e) => Head(t) = <<"reset", e>> \/ Pending(Tail(t), e)
<1> DEFINE u == Tail(t)
           n == Len(t)
<1>1. /\ u \in Timers /\ n \in Nat /\ n >= 1 /\ DOMAIN t = 1 .. n /\ DOMAIN u = 1 .. n - 1
      /\ \A i \in 1 .. n - 1 : u[i] = t[i + 1]
      /\ Head(t) = t[1] /\ t[1] \in {"caret", "button", "reset"} \X Editor
  BY DEF Timers
<1> HIDE DEF u, n
<1>2. ASSUME NEW i \in DOMAIN t, i # 1
      PROVE  i - 1 \in DOMAIN u /\ u[i - 1] = t[i]
  <2>1. i - 1 \in 1 .. n - 1 /\ (i - 1) + 1 = i
    BY <1>1, <1>2
  <2> QED
    BY <1>1, <2>1
<1>3. Ordered(u, E)
  <2> SUFFICES ASSUME NEW i \in DOMAIN u, NEW e \in E, u[i] = <<"reset", e>>
               PROVE  \E j \in DOMAIN u : j > i /\ u[j] = <<"caret", e>>
    BY DEF Ordered
  <2>1. i \in Int /\ i >= 1 /\ i + 1 \in DOMAIN t /\ t[i + 1] = <<"reset", e>>
    BY <1>1
  <2>2. PICK j \in DOMAIN t : j > i + 1 /\ t[j] = <<"caret", e>>
    BY <2>1 DEF Ordered
  <2>3. j \in Int /\ j # 1 /\ j - 1 > i
    BY <1>1, <2>1, <2>2
  <2> QED
    BY <1>2, <2>2, <2>3
<1>4. \A e \in Editor : Pending(t, e) => t[1] = <<"reset", e>> \/ Pending(u, e)
  BY <1>2 DEF Pending
<1> QED
  BY <1>1, <1>3, <1>4 DEF u

(* An edit in the field with the focus ends, or goes on with a value that  *)
(* is refused, and more may be asked of the texts that are not edited.     *)
LEMMA FinishKeeps ==
  ASSUME EditInv, NEW S \in SUBSET (editing \cap {fieldFocus}),
         NEW new, new \in [Done(S) -> Text] \/ \E x \in Editor : new \in [Done(S) \cup {x} -> Text],
         \A e \in Done(S) : new[e] = field[e],
         \A e \in DOMAIN new \ Done(S) : new[e] = value[e],
         UpdateModelValues(new),
         editing \ Done(S) \subseteq editing',
         fieldFocus' = fieldFocus \/ S = editing \cap {fieldFocus}
           \/ fieldFocus' \in editing \cap {fieldFocus},
         \A e \in Editor : ResetPending(e) => ResetPending(e)'
  PROVE  /\ value' \in [Editor -> Text] /\ field' \in [Editor -> Text]
         /\ display' \in [Editor -> Text \cup {Default}] /\ undo' \in [Editor -> Undone]
         /\ \A e \in Editor : Edited(e)'
         /\ FieldsFollow'
         /\ \A e \in Editor \ Done(S) : field'[e] = field[e]
<1>0. EditTypeOK /\ Done(S) \subseteq S /\ S \subseteq Editor
  BY OfOneEditor DEF Done, EditTypeOK
<1>1. PICK T \in SUBSET Editor : new \in [T -> Text] /\ Done(S) \subseteq T
  BY <1>0
<1>2. /\ value' \in [Editor -> Text] /\ field' \in [Editor -> Text]
      /\ display' \in [Editor -> Text \cup {Default}] /\ undo' \in [Editor -> Undone]
      /\ \A e \in Editor : Edited(e)'
      /\ \A e \in Editor : e \notin T \/ new[e] = value[e] =>
           value'[e] = value[e] /\ field'[e] = field[e]
      /\ \A e \in T : new[e] # value[e] => value'[e] = new[e] /\ field'[e] = new[e]
  BY <1>1, UpdateKeeps
<1>3. \A e \in Editor \ Done(S) : value'[e] = value[e] /\ field'[e] = field[e]
  <2> TAKE e \in Editor \ Done(S)
  <2>1. e \notin T \/ new[e] = value[e]
    BY <1>1
  <2> QED
    BY <1>2, <2>1
<1>4. \A e \in Done(S) : field'[e] = value'[e]
  <2> TAKE e \in Done(S)
  <2>1. e \in Editor /\ e \in T /\ new[e] = field[e]
    BY <1>0, <1>1
  <2>2. CASE new[e] = value[e]
    BY <1>2, <2>1, <2>2
  <2>3. CASE new[e] # value[e]
    BY <1>2, <2>1, <2>3
  <2> QED
    BY <2>2, <2>3
<1>5. \A e \in editing \ Done(S) : e = fieldFocus => e = fieldFocus' \/ field[e] \in Rejected
  BY DEF Done
<1>6. Done(S) \in SUBSET Editor
  BY <1>0
<1>7. FieldsFollow'
  BY <1>3, <1>4, <1>5, <1>6, FieldsStay
<1> QED
  BY <1>2, <1>3, <1>7

(* finish as the handlers call it.                                         *)
LEMMA FinishedEdit ==
  ASSUME EditInv, NEW S \in SUBSET (editing \cap {fieldFocus}), Finish(S),
         NEW f \in Editor \cup {NoEditor}, fieldFocus' = f,
         f = fieldFocus \/ S = editing \cap {fieldFocus},
         timeouts' \in Timers, Ordered(timeouts', editing),
         \A e \in Editor : ResetPending(e) => ResetPending(e)'
  PROVE  /\ EditInv' /\ editing' = editing \ Done(S)
         /\ \A e \in editing' : field'[e] = field[e]
<1>0. EditTypeOK /\ Done(S) \subseteq editing /\ editing \subseteq Editor
      /\ S \subseteq Editor
  BY OfOneEditor DEF Done, EditTypeOK
<1> DEFINE new == [e \in Done(S) |-> field[e]]
<1>1. /\ UpdateModelValues(new) /\ editing' = editing \ Done(S)
      /\ fieldsShown' = fieldsShown \ Done(S)
  BY DEF Finish, IsEditing
<1>2. /\ new \in [Done(S) -> Text] /\ DOMAIN new = Done(S)
      /\ \A e \in Done(S) : new[e] = field[e]
  BY <1>0 DEF EditTypeOK
<1> HIDE DEF new
<1>3. /\ value' \in [Editor -> Text] /\ field' \in [Editor -> Text]
      /\ display' \in [Editor -> Text \cup {Default}] /\ undo' \in [Editor -> Undone]
      /\ FieldsFollow' /\ \A e \in Editor : Edited(e)'
      /\ \A e \in Editor \ Done(S) : field'[e] = field[e]
  BY <1>1, <1>2, FinishKeeps
<1>4. EditTypeOK'
  BY <1>0, <1>1, <1>3 DEF EditTypeOK, Undone, Timers
<1>5. ResetBeforeCaret'
  BY <1>1 DEF ResetBeforeCaret, Ordered
<1>6. EditInv'
  BY <1>3, <1>4, <1>5, ByEditor
<1> QED
  BY <1>0, <1>1, <1>3, <1>6

LEMMA EditKeeps ==
  ASSUME EditInv, NEW x \in Editor, Edit(x)
  PROVE  EditInv' /\ TypedIsKept
<1> DEFINE S     == Blurred
           done  == Done(S)
           taken == IF value[x] = Empty THEN Empty ELSE display[x]
           new   == [e \in done \cup {x} |-> IF e = x THEN taken ELSE field[e]]
<1>0. /\ EditTypeOK /\ Edited(x) /\ ResetBeforeCaret
      /\ S = editing \cap {fieldFocus} /\ done \subseteq editing /\ x \notin fieldsShown
      /\ editing \subseteq Editor /\ fieldsShown = editing /\ S \subseteq Editor
  BY OfOneEditor DEF Edit, EditInv, EditTypeOK, Blurred, Done
<1>1. /\ UpdateModelValues(new) /\ editing' = (editing \ done) \cup {x}
      /\ fieldsShown' = (fieldsShown \ done) \cup {x} /\ fieldFocus' = NoEditor
      /\ timeouts' = Append(timeouts, <<"caret", x>>)
  BY DEF Edit, IsEditing
<1>2. taken = value[x]
  BY <1>0 DEF Edited, Displayed
<1>3. /\ new \in [done \cup {x} -> Text] /\ DOMAIN new = done \cup {x}
      /\ \A e \in done : new[e] = field[e]
      /\ \A e \in DOMAIN new \ done : new[e] = value[e]
  BY <1>0, <1>2 DEF EditTypeOK
<1> HIDE DEF new, taken
<1>4. timeouts \in Timers /\ Ordered(timeouts, editing)
  BY <1>0 DEF EditTypeOK, Timers, ResetBeforeCaret, Ordered
<1>5. /\ timeouts' \in Timers /\ Ordered(timeouts', editing')
      /\ \A e \in Editor : Pending(timeouts, e) => Pending(timeouts', e)
  <2>1. editing' \subseteq IF "caret" = "caret" THEN editing \cup {x} ELSE editing
    BY <1>1
  <2>2. /\ Append(timeouts, <<"caret", x>>) \in Timers
        /\ Ordered(Append(timeouts, <<"caret", x>>), editing')
        /\ \A e \in Editor : Pending(timeouts, e) => Pending(Append(timeouts, <<"caret", x>>), e)
    BY <1>4, <2>1, TimerSet
  <2> QED
    BY <1>1, <2>2
<1>6. \A e \in Editor : ResetPending(e) => ResetPending(e)'
  BY <1>5 DEF Pending, ResetPending
<1>7. /\ value' \in [Editor -> Text] /\ field' \in [Editor -> Text]
      /\ display' \in [Editor -> Text \cup {Default}] /\ undo' \in [Editor -> Undone]
      /\ FieldsFollow' /\ \A e \in Editor : Edited(e)'
      /\ \A e \in Editor \ done : field'[e] = field[e]
  BY <1>0, <1>1, <1>3, <1>6, FinishKeeps
<1>8. EditTypeOK'
  BY <1>0, <1>1, <1>5, <1>7 DEF EditTypeOK, Undone, Timers
<1>9. ResetBeforeCaret'
  BY <1>5 DEF ResetBeforeCaret, Ordered
<1>10. TypedIsKept
  BY <1>0, <1>1, <1>7 DEF TypedIsKept
<1> QED
  BY <1>7, <1>8, <1>9, <1>10, ByEditor

LEMMA OrderedTimers ==
  ASSUME EditInv
  PROVE  timeouts \in Timers /\ Ordered(timeouts, editing)
BY DEF EditInv, EditTypeOK, Timers, ResetBeforeCaret, Ordered

LEMMA NothingTyped ==
  ASSUME \A e \in editing \cap editing' : e \in Editor => field'[e] = field[e]
  PROVE  TypedIsKept
BY DEF TypedIsKept

LEMMA TypeKeeps ==
  ASSUME EditInv, NEW x \in Editor, NEW v \in Text, Type(x, v)
  PROVE  EditInv' /\ TypedIsKept
<1>0. EditTypeOK /\ ResetBeforeCaret /\ \A e \in Editor : Edited(e)
  BY OfOneEditor DEF EditInv
<1>1. /\ fieldFocus = x /\ x \in editing /\ field' = [field EXCEPT ![x] = v]
      /\ UNCHANGED <<value, display, editing, fieldsShown, fieldFocus, timeouts, undo, commits>>
  BY DEF Type
<1>2. \A e \in Editor \ {x} : field'[e] = field[e]
  BY <1>0, <1>1 DEF EditTypeOK
<1>3. EditTypeOK'
  BY <1>0, <1>1 DEF EditTypeOK
<1>4. \A e \in Editor : ResetPending(e) => ResetPending(e)'
  BY <1>1 DEF ResetPending
<1>5. FieldsFollow'
  <2> DEFINE D == {x}
  <2>1. /\ D \in SUBSET Editor
        /\ \A e \in Editor \ D : value'[e] = value[e] /\ field'[e] = field[e]
        /\ \A e \in D : e \in editing' /\ e = fieldFocus'
    BY <1>1, <1>2
  <2> HIDE DEF D
  <2> QED
    BY <1>1, <1>4, <2>1, FieldsStay
<1>6. ResetBeforeCaret' /\ \A e \in Editor : Edited(e)'
  BY <1>0, <1>1 DEF ResetBeforeCaret, Edited
<1>7. TypedIsKept
  BY <1>1, <1>2 DEF TypedIsKept
<1> QED
  BY <1>3, <1>5, <1>6, <1>7, ByEditor

LEMMA EnterKeeps ==
  ASSUME EditInv, NEW x \in Editor, Enter(x)
  PROVE  EditInv' /\ TypedIsKept
<1>1. /\ fieldFocus = x /\ x \in editing /\ Finish({x}) /\ fieldFocus' = x
      /\ timeouts' = Append(timeouts, <<"button", x>>)
  BY DEF Enter
<1>2. timeouts \in Timers /\ Ordered(timeouts, editing)
  BY OrderedTimers
<1>3. /\ timeouts' \in Timers /\ Ordered(timeouts', editing)
      /\ \A e \in Editor : Pending(timeouts, e) => Pending(timeouts', e)
  <2>1. editing \subseteq IF "button" = "caret" THEN editing \cup {x} ELSE editing
    OBVIOUS
  <2>2. /\ Append(timeouts, <<"button", x>>) \in Timers
        /\ Ordered(Append(timeouts, <<"button", x>>), editing)
        /\ \A e \in Editor : Pending(timeouts, e) => Pending(Append(timeouts, <<"button", x>>), e)
    BY <1>2, <2>1, TimerSet
  <2> QED
    BY <1>1, <2>2
<1>4. \A e \in Editor : ResetPending(e) => ResetPending(e)'
  BY <1>3 DEF Pending, ResetPending
<1>5. {x} \in SUBSET (editing \cap {fieldFocus})
  BY <1>1
<1>6. EditInv' /\ editing' = editing \ Done({x}) /\ \A e \in editing' : field'[e] = field[e]
  BY <1>1, <1>3, <1>4, <1>5, FinishedEdit
<1> QED
  BY <1>6, NothingTyped

LEMMA EscKeeps ==
  ASSUME EditInv, NEW x \in Editor, EscHandler(x)
  PROVE  EditInv' /\ TypedIsKept
<1> DEFINE set == Append(timeouts, <<"button", x>>)
<1>0. EditTypeOK /\ \A e \in Editor : Edited(e)
  BY OfOneEditor
<1>1. /\ editing' = editing \ {x} /\ fieldsShown' = fieldsShown \ {x}
      /\ timeouts' = Append(set, <<"reset", x>>)
      /\ UNCHANGED <<value, display, field, fieldFocus, undo, commits>>
  BY DEF EscHandler, Cancel, IsEditing
<1>2. timeouts \in Timers /\ Ordered(timeouts, editing)
  BY OrderedTimers
<1>3. /\ set \in Timers /\ Ordered(set, editing)
      /\ \A e \in Editor : Pending(timeouts, e) => Pending(set, e)
  <2>1. editing \subseteq IF "button" = "caret" THEN editing \cup {x} ELSE editing
    OBVIOUS
  <2> QED
    BY <1>2, <2>1, TimerSet
<1> HIDE DEF set
<1>4. /\ timeouts' \in Timers /\ Ordered(timeouts', editing')
      /\ \A e \in Editor : Pending(set, e) => Pending(timeouts', e)
      /\ Pending(timeouts', x)
  <2>1. editing \ {x} \subseteq IF "reset" = "caret" THEN editing \cup {x} ELSE editing
    OBVIOUS
  <2>2. x \notin editing \ {x}
    OBVIOUS
  <2>3. /\ Append(set, <<"reset", x>>) \in Timers
        /\ Ordered(Append(set, <<"reset", x>>), editing \ {x})
        /\ \A e \in Editor : Pending(set, e) => Pending(Append(set, <<"reset", x>>), e)
        /\ Pending(Append(set, <<"reset", x>>), x)
    BY <1>3, <2>1, <2>2, TimerSet
  <2> QED
    BY <1>1, <2>3
<1>5. \A e \in Editor : ResetPending(e) => ResetPending(e)'
  BY <1>3, <1>4 DEF Pending, ResetPending
<1>6. ResetPending(x)'
  BY <1>4 DEF Pending, ResetPending
<1>7. FieldsFollow'
  <2> DEFINE D == {x}
  <2>1. D \in SUBSET Editor /\ editing \ D \subseteq editing' /\ \A e \in D : ResetPending(e)'
    BY <1>1, <1>6
  <2> HIDE DEF D
  <2> QED
    BY <1>1, <1>5, <2>1, FieldsStay
<1>8. EditTypeOK'
  BY <1>0, <1>1, <1>4 DEF EditTypeOK, Timers
<1>9. ResetBeforeCaret' /\ \A e \in Editor : Edited(e)'
  BY <1>0, <1>1, <1>4 DEF ResetBeforeCaret, Ordered, Edited
<1>10. TypedIsKept
  BY <1>1, NothingTyped
<1> QED
  BY <1>7, <1>8, <1>9, <1>10, ByEditor

(* The field with the focus loses it, or another field gets it.            *)
LEMMA FocusMoves ==
  ASSUME EditInv, NEW f \in Editor \cup {NoEditor}, Finish(Blurred \ {f}), fieldFocus' = f,
         timeouts' \in Timers, Ordered(timeouts', editing),
         \A e \in Editor : ResetPending(e) => ResetPending(e)'
  PROVE  EditInv' /\ TypedIsKept
<1> DEFINE S == Blurred \ {f}
<1>1. S \in SUBSET (editing \cap {fieldFocus}) /\ (f = fieldFocus \/ S = editing \cap {fieldFocus})
  BY DEF Blurred
<1> HIDE DEF S
<1>2. EditInv' /\ editing' = editing \ Done(S) /\ \A e \in editing' : field'[e] = field[e]
  BY <1>1, FinishedEdit DEF S
<1> QED
  BY <1>2, NothingTyped

LEMMA BlurKeeps ==
  ASSUME EditInv, Blur
  PROVE  EditInv' /\ TypedIsKept
<1>1. NoEditor \notin editing
  BY EditorAssumption, OfOneEditor DEF EditTypeOK
<1>2. Blurred \ {NoEditor} = Blurred
  BY <1>1 DEF Blurred
<1>3. /\ Finish(Blurred \ {NoEditor}) /\ fieldFocus' = NoEditor /\ timeouts' = timeouts
  BY <1>2 DEF Blur
<1>4. timeouts' \in Timers /\ Ordered(timeouts', editing)
      /\ \A e \in Editor : ResetPending(e) => ResetPending(e)'
  BY <1>3, OrderedTimers DEF ResetPending
<1> QED
  BY <1>3, <1>4, FocusMoves

LEMMA ClickKeeps ==
  ASSUME EditInv, NEW x \in Editor, ClickField(x)
  PROVE  EditInv' /\ TypedIsKept
<1>1. /\ Finish(Blurred \ {x}) /\ fieldFocus' = x /\ timeouts' = timeouts
  BY DEF ClickField, FocusField
<1>2. timeouts' \in Timers /\ Ordered(timeouts', editing)
      /\ \A e \in Editor : ResetPending(e) => ResetPending(e)'
  BY <1>1, OrderedTimers DEF ResetPending
<1> QED
  BY <1>1, <1>2, FocusMoves

LEMMA TimerKeeps ==
  ASSUME EditInv, RunTimer
  PROVE  EditInv' /\ TypedIsKept
<1> DEFINE kind == Head(timeouts)[1]
           x    == Head(timeouts)[2]
           hidden == IF kind = "caret" THEN x \notin fieldsShown ELSE x \in fieldsShown
<1>0. /\ EditTypeOK /\ \A e \in Editor : Edited(e)
      /\ timeouts # <<>> /\ timeouts' = Tail(timeouts)
      /\ timeouts \in Timers /\ Ordered(timeouts, editing)
  BY OfOneEditor, OrderedTimers DEF RunTimer
<1>1. /\ Head(timeouts) \in {"caret", "button", "reset"} \X Editor
      /\ timeouts' \in Timers /\ Ordered(timeouts', editing)
      /\ \A e \in Editor : Pending(timeouts, e) =>
           Head(timeouts) = <<"reset", e>> \/ Pending(timeouts', e)
  BY <1>0, TimerRuns
<1>2. kind \in {"caret", "button", "reset"} /\ x \in Editor /\ Head(timeouts) = <<kind, x>>
  BY <1>1
<1>3. \A e \in Editor : ResetPending(e) => (kind = "reset" /\ e = x) \/ ResetPending(e)'
  <2>1. \A e \in Editor : Head(timeouts) = <<"reset", e>> => kind = "reset" /\ e = x
    OBVIOUS
  <2> QED
    BY <1>1, <2>1 DEF Pending, ResetPending
<1>4. /\ kind # "reset" /\ hidden => UNCHANGED <<value, display, field, editing, fieldsShown,
                                               fieldFocus, undo, commits>>
      /\ kind = "caret" /\ ~hidden => FocusField(x)
      /\ kind = "button" /\ ~hidden => Finish(Blurred) /\ fieldFocus' = NoEditor
      /\ kind = "reset" => /\ field' = [field EXCEPT ![x] = value[x]]
                           /\ UNCHANGED <<value, display, editing, fieldsShown, fieldFocus, undo,
                                          commits>>
  BY <1>2 DEF RunTimer
<1>5. timeouts' \in Seq({"caret", "button", "reset"} \X Editor)
  BY <1>1 DEF Timers
<1> HIDE DEF kind, x, hidden
<1>6. CASE kind # "reset" /\ hidden
  <2>1. UNCHANGED <<value, display, field, editing, fieldsShown, fieldFocus, undo, commits>>
        /\ \A e \in Editor : ResetPending(e) => ResetPending(e)'
    BY <1>3, <1>4, <1>6
  <2>2. FieldsFollow'
    BY <2>1 DEF EditInv, FieldsFollow
  <2>3. EditTypeOK' /\ ResetBeforeCaret' /\ \A e \in Editor : Edited(e)'
    BY <1>0, <1>1, <1>5, <2>1 DEF EditTypeOK, ResetBeforeCaret, Ordered, Edited
  <2> QED
    BY <2>1, <2>2, <2>3, ByEditor, NothingTyped
<1>7. CASE kind = "caret" /\ ~hidden
  <2>1. Finish(Blurred \ {x}) /\ fieldFocus' = x
    BY <1>4, <1>7 DEF FocusField
  <2>2. \A e \in Editor : ResetPending(e) => ResetPending(e)'
    BY <1>3, <1>7
  <2> QED
    BY <1>1, <1>2, <2>1, <2>2, FocusMoves
<1>8. CASE kind = "button" /\ ~hidden
  <2>1. NoEditor \notin editing
    BY <1>0, EditorAssumption DEF EditTypeOK
  <2>2. Blurred \ {NoEditor} = Blurred
    BY <2>1 DEF Blurred
  <2>3. Finish(Blurred \ {NoEditor}) /\ fieldFocus' = NoEditor
    BY <1>4, <1>8, <2>2
  <2>4. \A e \in Editor : ResetPending(e) => ResetPending(e)'
    BY <1>3, <1>8
  <2> QED
    BY <1>1, <2>3, <2>4, FocusMoves
<1>9. CASE kind = "reset"
  <2>1. /\ field' = [field EXCEPT ![x] = value[x]]
        /\ UNCHANGED <<value, display, editing, fieldsShown, fieldFocus, undo, commits>>
    BY <1>4, <1>9
  <2>2. /\ field' \in [Editor -> Text] /\ field'[x] = value'[x]
        /\ \A e \in Editor \ {x} : field'[e] = field[e]
    BY <1>0, <1>2, <2>1 DEF EditTypeOK
  <2>3. EditTypeOK' /\ ResetBeforeCaret' /\ \A e \in Editor : Edited(e)'
    BY <1>0, <1>1, <1>5, <2>1, <2>2 DEF EditTypeOK, ResetBeforeCaret, Ordered, Edited
  <2>4. \A e \in Editor \ {x} : ResetPending(e) => ResetPending(e)'
    BY <1>3
  <2>5. FieldsFollow'
    <3> DEFINE D == {x}
    <3>1. /\ D \in SUBSET Editor /\ \A e \in D : field'[e] = value'[e]
          /\ \A e \in Editor \ D : value'[e] = value[e] /\ field'[e] = field[e]
          /\ \A e \in Editor \ D : ResetPending(e) => ResetPending(e)'
      BY <1>2, <2>1, <2>2, <2>4
    <3> HIDE DEF D
    <3> QED
      BY <2>1, <3>1, FieldsStay
  <2>6. TypedIsKept
    <3> SUFFICES ASSUME x \in editing PROVE CaretPending(x)
      BY <2>2 DEF TypedIsKept
    <3>1. 1 \in DOMAIN timeouts /\ timeouts[1] = <<"reset", x>>
      BY <1>0, <1>2, <1>9 DEF Timers
    <3>2. \E j \in DOMAIN timeouts : timeouts[j] = <<"caret", x>>
      BY <1>0, <3>1 DEF Ordered
    <3> QED
      BY <3>2 DEF CaretPending
  <2> QED
    BY <2>3, <2>5, <2>6, ByEditor
<1> QED
  BY <1>2, <1>6, <1>7, <1>8, <1>9

(* updateModel with the decorator as its source.                           *)
LEMMA LinkKeeps ==
  ASSUME EditInv, NEW x \in Editor, NEW v \in Text, UpdateModel(x, v),
         undo' \in [Editor -> Undone], \A e \in Editor \ {x} : undo'[e] = undo[e],
         undo'[x] # undo[x],
         \/ /\ undo'[x].state = "reverted" /\ v = commits[x][1]
            /\ undo'[x].extremal = commits[x][2] /\ undo'[x].initial = commits[x][1]
         \/ /\ undo'[x].state = "changed" /\ v = commits[x][2]
            /\ undo'[x].initial = commits[x][1],
         UNCHANGED <<editing, fieldsShown, fieldFocus, timeouts, commits>>
  PROVE  EditInv' /\ TypedIsKept
<1>0. EditTypeOK /\ ResetBeforeCaret /\ \A e \in Editor : Edited(e)
  BY OfOneEditor DEF EditInv
<1>1. /\ value' = [value EXCEPT ![x] = v]
      /\ display' = [display EXCEPT ![x] = IF v = value[x] THEN display[x] ELSE Displayed(v)]
      /\ field' = [field EXCEPT ![x] = IF v = value[x] THEN field[x] ELSE v]
  BY DEF UpdateModel
<1>2. /\ value' \in [Editor -> Text] /\ field' \in [Editor -> Text]
      /\ value'[x] = v /\ field'[x] = IF v = value[x] THEN field[x] ELSE v
      /\ \A e \in Editor \ {x} : value'[e] = value[e] /\ field'[e] = field[e]
  BY <1>0, <1>1 DEF EditTypeOK
<1>3. /\ display' \in [Editor -> Text \cup {Default}] /\ display'[x] = Displayed(v)
      /\ \A e \in Editor \ {x} : display'[e] = display[e]
  <2>1. display \in [Editor -> Text \cup {Default}] /\ Displayed(v) \in Text \cup {Default}
    BY <1>0 DEF EditTypeOK, Displayed
  <2>2. display[x] = Displayed(value[x])
    BY <1>0 DEF Edited
  <2> QED
    BY <1>1, <2>1, <2>2
<1>4. EditTypeOK'
  BY <1>0, <1>2, <1>3 DEF EditTypeOK, Undone
<1>5. \A e \in Editor : Edited(e)'
  <2>1. \A e \in Editor \ {x} : Edited(e)'
    BY <1>0, <1>2, <1>3 DEF Edited
  <2>2. Edited(x)'
    BY <1>2, <1>3 DEF Edited
  <2> QED
    BY <2>1, <2>2
<1>6. FieldsFollow'
  <2> DEFINE D == IF v = value[x] THEN {} ELSE {x}
  <2>1. /\ D \in SUBSET Editor
        /\ \A e \in Editor \ D : value'[e] = value[e] /\ field'[e] = field[e]
        /\ \A e \in D : field'[e] = value'[e]
    BY <1>2
  <2>2. \A e \in Editor : ResetPending(e) => ResetPending(e)'
    BY DEF ResetPending
  <2> HIDE DEF D
  <2> QED
    BY <2>1, <2>2, FieldsStay
<1>7. ResetBeforeCaret'
  BY <1>0 DEF ResetBeforeCaret
<1>8. TypedIsKept
  BY <1>2 DEF TypedIsKept
<1> QED
  BY <1>4, <1>5, <1>6, <1>7, <1>8, ByEditor

LEMMA UndoKeeps ==
  ASSUME EditInv, NEW x \in Editor, Undo(x) \/ Redo(x)
  PROVE  EditInv' /\ TypedIsKept
<1>0. /\ undo \in [Editor -> Undone] /\ value \in [Editor -> Text] /\ Edited(x)
      /\ undo[x].state \in {"initial", "changed", "reverted"}
      /\ undo[x].initial \in Text /\ undo[x].extremal \in Text /\ value[x] \in Text
  BY OfOneEditor DEF EditTypeOK, Undone
<1>1. CASE Undo(x)
  <2>1. /\ undo[x].state = "changed" /\ UpdateModel(x, undo[x].initial)
        /\ undo' = [undo EXCEPT ![x] = [undo[x] EXCEPT !.extremal = value[x],
                                                       !.state = "reverted"]]
        /\ UNCHANGED <<editing, fieldsShown, fieldFocus, timeouts, commits>>
    <3>1. ShownLink(x) = "undo" => undo[x].state = "changed"
      BY <1>0, EditorAssumption DEF ShownLink
    <3> QED
      BY <1>1, <3>1 DEF Undo
  <2>2. /\ undo' \in [Editor -> Undone] /\ \A e \in Editor \ {x} : undo'[e] = undo[e]
        /\ undo'[x].state = "reverted" /\ undo'[x].extremal = value[x]
        /\ undo'[x].initial = undo[x].initial
    BY <1>0, <2>1 DEF Undone
  <2>3. value[x] = commits[x][2] /\ undo[x].initial = commits[x][1] /\ undo'[x] # undo[x]
    BY <1>0, <2>1, <2>2 DEF Edited
  <2> QED
    BY <1>0, <2>1, <2>2, <2>3, LinkKeeps
<1>2. CASE Redo(x)
  <2>1. /\ undo[x].state = "reverted" /\ UpdateModel(x, undo[x].extremal)
        /\ undo' = [undo EXCEPT ![x] = [undo[x] EXCEPT !.state = "changed"]]
        /\ UNCHANGED <<editing, fieldsShown, fieldFocus, timeouts, commits>>
    <3>1. ShownLink(x) = "redo" => undo[x].state = "reverted"
      BY <1>0, EditorAssumption DEF ShownLink
    <3> QED
      BY <1>2, <3>1 DEF Redo
  <2>2. /\ undo' \in [Editor -> Undone] /\ \A e \in Editor \ {x} : undo'[e] = undo[e]
        /\ undo'[x].state = "changed" /\ undo'[x].initial = undo[x].initial
    BY <1>0, <2>1 DEF Undone
  <2>3. undo[x].extremal = commits[x][2] /\ undo[x].initial = commits[x][1]
        /\ undo'[x] # undo[x]
    BY <1>0, <2>1, <2>2 DEF Edited
  <2> QED
    BY <1>0, <2>1, <2>2, <2>3, LinkKeeps
<1> QED
  BY <1>1, <1>2

LEMMA EditStep ==
  ASSUME EditInv, [EditNext]_editVars
  PROVE  EditInv' /\ TypedIsKept
<1>1. CASE UNCHANGED editVars
  <2>1. EditTypeOK /\ ResetBeforeCaret /\ FieldsFollow /\ \A e \in Editor : Edited(e)
    BY OfOneEditor DEF EditInv
  <2>2. /\ EditTypeOK' /\ ResetBeforeCaret' /\ FieldsFollow' /\ \A e \in Editor : Edited(e)'
    BY <1>1, <2>1 DEF editVars, EditTypeOK, ResetBeforeCaret, FieldsFollow, ResetPending, Edited
  <2> QED
    BY <1>1, <2>2, ByEditor, NothingTyped DEF editVars
<1> QED
  BY <1>1, EditKeeps, TypeKeeps, EnterKeeps, EscKeeps, BlurKeeps, ClickKeeps, TimerKeeps,
     UndoKeeps DEF EditNext

LEMMA EditInitial == EditInit => EditInv
<1> SUFFICES ASSUME EditInit PROVE EditInv
  OBVIOUS
<1>1. EditTypeOK
  BY DEF EditInit, EditTypeOK, Displayed
<1> QED
  BY <1>1 DEF EditInit, EditInv, EditsHold, UndoHolds, EditorsAgree, RevertedToFirst,
              FieldsFollow, ResetBeforeCaret

(* The editors' inductive invariant: EditsHold, what a reverted text goes  *)
(* back to, what a field holds out of edit, and that the timer that resets *)
(* a field runs before the one that gives it the caret.                    *)
THEOREM EditInvariance == EditSpec => []EditInv
BY EditInitial, EditStep, PTL DEF EditSpec

(* Undo and redo lead between the values before and after the last change  *)
(* of a text, every text displays its value, and once the timers have run  *)
(* no field that is not edited keeps a value of its own.                   *)
THEOREM EditsAreKept == EditSpec => []EditsHold
<1>1. EditInv => EditsHold
  BY DEF EditInv
<1> QED
  BY <1>1, EditInvariance, PTL

(* The late reset of a cancelled edit never reaches the next one.          *)
THEOREM TypingIsKept == EditSpec => [][TypedIsKept]_editVars
<1>1. EditInv /\ [EditNext]_editVars => [TypedIsKept]_editVars
  BY EditStep
<1> QED
  BY <1>1, EditInvariance, PTL DEF EditSpec

-------------------------------------------------------------------------------
(* Events: numbers and their least, the steps that bind and unbind, then   *)
(* those of the event under way.                                           *)

LEMMA HasMinimum ==
  ASSUME NEW T, T \subseteq Nat, T # {}
  PROVE  \E m \in T : \A n \in T : m <= n
<1>1. PICK m \in T : \A n \in T : ~ (<<n, m>> \in OpToRel(<, Nat))
  BY NatLessThanWellFounded, WFMin, Zenon
<1>2. ASSUME NEW n \in T PROVE m <= n
  <2>1. ~ (n < m)
    BY <1>1 DEF OpToRel
  <2> QED
    BY <2>1
<1> QED
  BY <1>2

LEMMA EarliestIsMember ==
  ASSUME NEW S, S # {}, \A b \in S : b.id \in Nat
  PROVE  Earliest(S) \in S
<1> DEFINE T == {b.id : b \in S}
<1>1. PICK m \in T : \A n \in T : m <= n
  BY HasMinimum, T # {}, T \subseteq Nat
<1>2. \E b \in S : \A c \in S : b.id <= c.id
  BY <1>1
<1> QED
  BY <1>2 DEF Earliest

LEMMA NearestIsMember ==
  ASSUME NEW S, S # {}, \A l \in S : l.id \in Nat /\ l.sel \in Nat
  PROVE  Nearest(S) \in S
<1> DEFINE T == {l.sel : l \in S}
           N == {l \in S : \A k \in S : l.sel <= k.sel}
<1>1. PICK m \in T : \A n \in T : m <= n
  BY HasMinimum, T # {}, T \subseteq Nat
<1>2. N # {}
  BY <1>1
<1>3. Earliest(N) \in N
  BY <1>2, EarliestIsMember
<1> QED
  BY <1>3 DEF Nearest

(* What a step that makes no binding leaves of the numbers.                *)
LEMMA NumbersStay ==
  ASSUME Numbered, ids' = ids,
         \A e \in Level : Handlers(e)' \subseteq Handlers(e) /\ Entries(e)' \subseteq Entries(e)
  PROVE  Numbered'
BY DEF Numbered

(* Code that only unbinds.                                                 *)
LEMMA UnbindingKeeps ==
  ASSUME EventsInv, handlers' \in [Level -> SUBSET Binding], live' \in [Level -> SUBSET Entry],
         \A e \in Level : handlers'[e] \subseteq handlers[e] /\ live'[e] \subseteq live[e],
         UNCHANGED <<dispatch, ran, before, ids>>,
         listening' \subseteq Level, userData' \subseteq Level, cache' \subseteq Level,
         NothingLeaks'
  PROVE  EventsInv'
<1>1. EventsTypeOK'
  BY DEF EventsInv, EventsTypeOK
<1>2. EachOnce'
  <2>1. AllIds' \subseteq AllIds
    BY DEF AllIds, Ids
  <2> QED
    BY <2>1 DEF EventsInv, EventsHold, EachOnce, Sent
<1>3. Numbered'
  BY NumbersStay DEF EventsInv, Handlers, Entries
<1>4. DispatchOK'
  BY DEF EventsInv, DispatchOK
<1>5. AheadIsNew'
  BY DEF EventsInv, AheadIsNew, HasRun
<1>6. NoneIsPassed'
  <2>1. 1 .. dispatch.at \subseteq Level
    BY DepthAssumption DEF EventsInv, EventsTypeOK, Level
  <2> QED
    BY <2>1 DEF EventsInv, NoneIsPassed, HasRun, AboutToRun
<1>7. DelegatesDown'
  BY DEF EventsInv, DelegatesDown
<1> QED
  BY <1>1, <1>2, <1>3, <1>4, <1>5, <1>6, <1>7 DEF EventsInv, EventsHold

(* event.remove leaves listeners, cache and delegates as they should be.   *)
LEMMA RemovalLeaksNothing ==
  ASSUME EventsTypeOK, NothingLeaks, NEW e \in Level, NEW gone, NEW S \in SUBSET live[e],
         live' = [live EXCEPT ![e] = S], RemoveFrom(e, gone), userData' = userData,
         \A b \in handlers[e] \ gone : b.proxy => b.id \in Ids(S)
  PROVE  /\ NothingLeaks'
         /\ handlers' \in [Level -> SUBSET Binding] /\ live' \in [Level -> SUBSET Entry]
         /\ listening' \subseteq Level /\ cache' \subseteq Level
         /\ \A f \in Level : handlers'[f] \subseteq handlers[f] /\ live'[f] \subseteq live[f]
<1> DEFINE rest == handlers[e] \ gone
<1>1. /\ handlers \in [Level -> SUBSET Binding] /\ live \in [Level -> SUBSET Entry]
      /\ listening \subseteq Level /\ cache \subseteq Level
  BY DEF EventsTypeOK
<1>2. /\ handlers' = [handlers EXCEPT ![e] = rest]
      /\ listening' = IF rest = {} THEN listening \ {e} ELSE listening
      /\ cache' = IF rest = {} /\ S = {} /\ e \notin userData THEN cache \ {e} ELSE cache
  BY <1>1 DEF RemoveFrom, Listening
<1>3. /\ handlers' \in [Level -> SUBSET Binding] /\ live' \in [Level -> SUBSET Entry]
      /\ \A f \in Level : handlers'[f] \subseteq handlers[f] /\ live'[f] \subseteq live[f]
      /\ handlers'[e] = rest /\ live'[e] = S
      /\ \A f \in Level \ {e} : handlers'[f] = handlers[f] /\ live'[f] = live[f]
  BY <1>1, <1>2
<1>4. listening' = {f \in Level : handlers'[f] # {}}
  BY <1>2, <1>3 DEF NothingLeaks
<1>5. cache' = listening' \cup userData' \cup {f \in Level : live'[f] # {}}
  <2>1. cache = {f \in Level : handlers[f] # {}} \cup userData \cup {f \in Level : live[f] # {}}
    BY DEF NothingLeaks
  <2>2. CASE rest = {} /\ S = {} /\ e \notin userData
    <3>1. cache' = cache \ {e}
      BY <2>2, <1>2
    <3> QED
      BY <3>1, <2>1, <2>2, <1>3, <1>4
  <2>3. CASE ~(rest = {} /\ S = {} /\ e \notin userData)
    <3>1. cache' = cache
      BY <2>3, <1>2
    <3>2. e \in cache => e \in listening' \cup userData' \cup {f \in Level : live'[f] # {}}
      BY <2>3, <1>3, <1>4
    <3>3. e \in listening' \cup userData' \cup {f \in Level : live'[f] # {}} => e \in cache
      BY <2>1, <1>3, <1>4
    <3> QED
      BY <3>1, <3>2, <3>3, <2>1, <1>3, <1>4
  <2> QED
    BY <2>2, <2>3
<1>6. \A f \in Level : Ids(Proxies(f)') \subseteq Ids(live'[f])
  BY <1>3 DEF NothingLeaks, Proxies, Ids
<1>7. listening' \subseteq Level /\ cache' \subseteq Level
  BY <1>1, <1>2
<1> QED
  BY <1>3, <1>4, <1>5, <1>6, <1>7 DEF NothingLeaks, Proxies, Ids

LEMMA UnbindKeeps ==
  ASSUME EventsInv, NEW e \in Level, NEW fns, NEW namespaces, Unbind(e, fns, namespaces)
  PROVE  EventsInv'
<1> DEFINE gone == {b \in handlers[e] : b.fn \in fns /\ b.ns \in namespaces}
<1>1. EventsTypeOK /\ NothingLeaks
  BY DEF EventsInv, EventsHold
<1>2. /\ RemoveFrom(e, gone) /\ live' = [live EXCEPT ![e] = live[e]]
      /\ UNCHANGED <<userData, dispatch, ran, before, ids>>
  BY <1>1 DEF Unbind, EventsTypeOK
<1>3. \A b \in handlers[e] \ gone : b.proxy => b.id \in Ids(live[e])
  BY <1>1 DEF NothingLeaks, Proxies, Ids
<1>4. userData \subseteq Level
  BY <1>1 DEF EventsTypeOK
<1> QED
  BY <1>1, <1>2, <1>3, <1>4, RemovalLeaksNothing, UnbindingKeeps

LEMMA DieKeeps ==
  ASSUME EventsInv, NEW e \in Level, NEW sel \in Level, NEW fn \in Fn, Die(e, sel, fn)
  PROVE  EventsInv'
<1> DEFINE S    == {l \in live[e] : l.sel # sel \/ l.fn # fn}
           gone == {b \in handlers[e] : b.proxy /\ b.ns = sel /\ b.fn = fn}
<1>1. EventsTypeOK /\ NothingLeaks /\ Numbered
  BY DEF EventsInv, EventsHold
<1>2. /\ RemoveFrom(e, gone) /\ live' = [live EXCEPT ![e] = S]
      /\ UNCHANGED <<userData, dispatch, ran, before, ids>>
  BY <1>1 DEF Die, EventsTypeOK
<1>3. ASSUME NEW b \in handlers[e] \ gone, b.proxy PROVE b.id \in Ids(S)
  <2>1. PICK l \in live[e] : l.id = b.id
    BY <1>1, <1>3 DEF NothingLeaks, Proxies, Ids
  <2>2. b.fn = l.fn /\ b.ns = l.sel
    BY <1>1, <2>1 DEF Numbered, Handlers, Entries
  <2>3. l \in S
    BY <1>3, <2>1, <2>2
  <2> QED
    BY <2>1, <2>3 DEF Ids
<1>4. userData \subseteq Level
  BY <1>1 DEF EventsTypeOK
<1> QED
  BY <1>1, <1>2, <1>3, <1>4, RemovalLeaksNothing, UnbindingKeeps

LEMMA CleanDataKeeps ==
  ASSUME EventsInv, NEW e \in Level, CleanData(e)
  PROVE  EventsInv'
<1>1. EventsTypeOK /\ NothingLeaks
  BY DEF EventsInv, EventsHold
<1>2. /\ handlers' \in [Level -> SUBSET Binding] /\ live' \in [Level -> SUBSET Entry]
      /\ handlers'[e] = {} /\ live'[e] = {}
      /\ \A f \in Level \ {e} : handlers'[f] = handlers[f] /\ live'[f] = live[f]
  BY <1>1 DEF CleanData, EventsTypeOK
<1>3. NothingLeaks'
  <2>1. /\ listening' = listening \ {e} /\ userData' = userData \ {e} /\ cache' = cache \ {e}
    BY DEF CleanData
  <2>2. /\ listening' = {f \in Level : handlers'[f] # {}}
        /\ cache' = listening' \cup userData' \cup {f \in Level : live'[f] # {}}
    BY <1>1, <1>2, <2>1 DEF NothingLeaks
  <2>3. \A f \in Level : Ids(Proxies(f)') \subseteq Ids(live'[f])
    BY <1>1, <1>2 DEF NothingLeaks, Proxies, Ids
  <2> QED
    BY <2>2, <2>3 DEF NothingLeaks, Proxies, Ids
<1>4. UNCHANGED <<dispatch, ran, before, ids>>
      /\ listening' \subseteq Level /\ userData' \subseteq Level /\ cache' \subseteq Level
  BY <1>1 DEF CleanData, EventsTypeOK
<1>5. \A f \in Level : handlers'[f] \subseteq handlers[f] /\ live'[f] \subseteq live[f]
  BY <1>2
<1> QED
  BY <1>2, <1>3, <1>4, <1>5, UnbindingKeeps

LEMMA DataKeeps ==
  ASSUME EventsInv, NEW e \in Level, Data(e) \/ RemoveData(e)
  PROVE  EventsInv'
<1>1. EventsTypeOK /\ NothingLeaks
  BY DEF EventsInv, EventsHold
<1>2. /\ UNCHANGED <<handlers, live, listening, dispatch, ran, before, ids>>
      /\ userData' \subseteq Level /\ cache' \subseteq Level
  BY <1>1 DEF Data, RemoveData, EventsTypeOK
<1>3. NothingLeaks'
  BY <1>1, <1>2 DEF NothingLeaks, Proxies, Ids, Data, RemoveData
<1> QED
  BY <1>1, <1>2, <1>3, UnbindingKeeps DEF EventsTypeOK

(* A new binding has a number that nothing has that ran or will run.       *)
LEMMA AddingKeeps ==
  ASSUME EventsInv, NEW e \in Level, NEW binding \in Binding, NEW new \in SUBSET Entry,
         ids < MaxBindings, ids' = ids + 1, AddTo(e, binding), binding.id = ids',
         live' = [live EXCEPT ![e] = @ \cup new],
         \A l \in new : l.id = ids' /\ l.fn = binding.fn /\ l.sel = binding.ns /\ l.sel < e,
         \A l, k \in new : l = k,
         binding.proxy <=> new # {},
         UNCHANGED <<userData, dispatch, ran, before>>
  PROVE  EventsInv'
<1>1. /\ EventsTypeOK /\ NothingLeaks /\ EachOnce /\ Numbered /\ DispatchOK
      /\ AheadIsNew /\ NoneIsPassed
  BY DEF EventsInv, EventsHold
<1>2. /\ handlers \in [Level -> SUBSET Binding] /\ live \in [Level -> SUBSET Entry]
      /\ ids \in Nat /\ ran \in Seq(1 .. ids) /\ before \subseteq 1 .. ids
      /\ 1 .. dispatch.at \subseteq Level
  BY <1>1, DepthAssumption, BindingsAssumption DEF EventsTypeOK, Level
<1>3. /\ handlers'[e] = handlers[e] \cup {binding} /\ live'[e] = live[e] \cup new
      /\ \A f \in Level \ {e} : handlers'[f] = handlers[f] /\ live'[f] = live[f]
      /\ handlers' \in [Level -> SUBSET Binding] /\ live' \in [Level -> SUBSET Entry]
      /\ listening' = listening \cup {e} /\ cache' = cache \cup {e}
  BY <1>2 DEF AddTo
<1>4. ~HasRun(ids + 1) /\ ids + 1 \notin before
  BY <1>2 DEF HasRun
<1>5. EventsTypeOK'
  <2>1. ran' \in Seq(1 .. ids') /\ before' \subseteq 1 .. ids'
    <3>1. 1 .. ids \subseteq 1 .. ids'
      BY <1>2
    <3>2. ran \in [1 .. Len(ran) -> 1 .. ids']
      BY <1>2, <3>1
    <3> QED
      BY <1>2, <3>1, <3>2
  <2> QED
    BY <1>1, <1>2, <1>3, <2>1, BindingsAssumption DEF EventsTypeOK
<1>6. NothingLeaks'
  <2>1. /\ listening' = {f \in Level : handlers'[f] # {}}
        /\ cache' = listening' \cup userData' \cup {f \in Level : live'[f] # {}}
    BY <1>1, <1>3 DEF NothingLeaks
  <2>2. \A f \in Level : Ids(Proxies(f)') \subseteq Ids(live'[f])
    BY <1>1, <1>3 DEF NothingLeaks, Proxies, Ids
  <2> QED
    BY <2>1, <2>2 DEF NothingLeaks, Proxies, Ids
<1>7. EachOnce'
  <2>1. AllIds' \subseteq AllIds \cup {ids + 1}
    BY <1>3 DEF AllIds, Ids
  <2> QED
    BY <1>1, <1>4, <2>1 DEF EachOnce, Sent
<1>8. Numbered'
  <2>1. \A f \in Level : /\ Handlers(f)' = Handlers(f) \cup (IF f = e THEN {binding} ELSE {})
                         /\ Entries(f)' = Entries(f) \cup (IF f = e THEN new ELSE {})
    BY <1>3 DEF Handlers, Entries
  <2>2. \A f \in Level : /\ \A b \in Handlers(f) : b.id \in Nat /\ b.id <= ids
                         /\ \A l \in Entries(f) : l.id \in Nat /\ l.id <= ids
    BY <1>1, <1>2 DEF Numbered, Handlers, Entries, Number, Binding, Entry, EventsTypeOK
  <2>3. \A f \in Level : /\ \A b \in Handlers(f)' : b.id <= ids'
                         /\ \A l \in Entries(f)' : l.id <= ids'
    BY <1>2, <2>1, <2>2
  <2>4. \A f, g \in Level : \A b \in Handlers(f)', c \in Handlers(g)' :
          b.id = c.id => f = g /\ b = c
    BY <1>1, <1>2, <2>1, <2>2 DEF Numbered
  <2>5. \A f, g \in Level : \A l \in Entries(f)', k \in Entries(g)' :
          l.id = k.id => f = g /\ l = k
    BY <1>1, <1>2, <2>1, <2>2 DEF Numbered
  <2>6. \A f, g \in Level : \A b \in Handlers(f)', l \in Entries(g)' :
          b.id = l.id => f = g /\ b.proxy /\ b.fn = l.fn /\ b.ns = l.sel
    BY <1>1, <1>2, <2>1, <2>2 DEF Numbered
  <2> QED
    BY <2>3, <2>4, <2>5, <2>6 DEF Numbered
<1>9. DispatchOK'
  BY <1>1 DEF DispatchOK
<1>10. AheadIsNew'
  BY <1>1, <1>3, <1>4 DEF AheadIsNew, HasRun
<1>11. NoneIsPassed'
  <2> SUFFICES ASSUME ~dispatch.stopped, NEW f \in 1 .. dispatch.at, NEW b \in handlers'[f],
                      b.id \in before
               PROVE  HasRun(b.id) \/ (f = dispatch.at /\ AboutToRun(b))
    BY DEF NoneIsPassed, AboutToRun, HasRun
  <2>1. f \in Level /\ b \in handlers[f]
    BY <1>2, <1>3, <1>4
  <2> QED
    BY <1>1, <2>1 DEF NoneIsPassed
<1>12. DelegatesDown'
  BY <1>3 DEF EventsInv, DelegatesDown
<1> QED
  BY <1>5, <1>6, <1>7, <1>8, <1>9, <1>10, <1>11, <1>12 DEF EventsInv, EventsHold

LEMMA NewBindingKeeps ==
  ASSUME EventsInv, NEW e \in Level, NEW fn \in Fn,
         \/ \E ns \in Namespace \cup {NoNamespace}, once \in BOOLEAN : Bind(e, fn, ns, once)
         \/ \E sel \in Level : Live(e, sel, fn)
  PROVE  EventsInv'
<1>1. live \in [Level -> SUBSET Entry] /\ ids \in Nat /\ (ids < MaxBindings => ids + 1 \in Number)
  BY BindingsAssumption DEF EventsInv, EventsTypeOK, Number
<1>2. ASSUME NEW ns \in Namespace \cup {NoNamespace}, NEW once \in BOOLEAN, Bind(e, fn, ns, once)
      PROVE  EventsInv'
  <2> DEFINE b == [id |-> ids', fn |-> fn, ns |-> ns, once |-> once, proxy |-> FALSE]
  <2>1. b \in Binding /\ {} \in SUBSET Entry /\ live' = [live EXCEPT ![e] = @ \cup {}]
    BY <1>1, <1>2 DEF Bind, Binding
  <2>2. /\ ids < MaxBindings /\ ids' = ids + 1 /\ AddTo(e, b)
        /\ UNCHANGED <<userData, dispatch, ran, before>>
    BY <1>2 DEF Bind
  <2>3. b.id = ids' /\ ~b.proxy
    OBVIOUS
  <2> DEFINE new == {}
  <2>4. /\ \A m \in new : m.id = ids' /\ m.fn = b.fn /\ m.sel = b.ns /\ m.sel < e
        /\ \A m, k \in new : m = k
        /\ b.proxy <=> new # {}
    BY <2>3
  <2>5. new \in SUBSET Entry /\ live' = [live EXCEPT ![e] = @ \cup new]
    BY <2>1
  <2> HIDE DEF b, new
  <2> QED
    BY <2>1, <2>2, <2>3, <2>4, <2>5, AddingKeeps
<1>3. ASSUME NEW sel \in Level, Live(e, sel, fn)
      PROVE  EventsInv'
  <2> DEFINE b == [id |-> ids', fn |-> fn, ns |-> sel, once |-> FALSE, proxy |-> TRUE]
             l == [id |-> ids', fn |-> fn, sel |-> sel]
  <2>1. b \in Binding /\ {l} \in SUBSET Entry /\ live' = [live EXCEPT ![e] = @ \cup {l}]
    BY <1>1, <1>3 DEF Live, Binding, Entry
  <2>2. /\ ids < MaxBindings /\ ids' = ids + 1 /\ AddTo(e, b)
        /\ UNCHANGED <<userData, dispatch, ran, before>>
    BY <1>3 DEF Live
  <2>3. b.id = ids' /\ b.proxy /\ sel < e
    BY <1>3 DEF Live
  <2> DEFINE new == {l}
  <2>4. /\ \A m \in new : m.id = ids' /\ m.fn = b.fn /\ m.sel = b.ns /\ m.sel < e
        /\ \A m, k \in new : m = k
        /\ b.proxy <=> new # {}
    BY <2>3
  <2>5. new \in SUBSET Entry /\ live' = [live EXCEPT ![e] = @ \cup new]
    BY <2>1
  <2> HIDE DEF b, new
  <2> QED
    BY <2>1, <2>2, <2>3, <2>4, <2>5, AddingKeeps
<1> QED
  BY <1>2, <1>3

(***************************************************************************)
(* The event under way.                                                    *)
(***************************************************************************)
Dispatches == [at : 0 .. Depth, snap : SUBSET Binding, liveQ : SUBSET Entry,
               maxLevel : 0 .. Depth, liveFired : 0 .. Depth, stopped : BOOLEAN]

(* A step that makes no binding: what is left to show of it.               *)
LEMMA DispatchKeeps ==
  ASSUME EventsInv, EventsTypeOK', NothingLeaks', UNCHANGED <<live, ids>>,
         \A e \in Level : Handlers(e)' \subseteq Handlers(e) /\ Entries(e)' \subseteq Entries(e),
         \A i, j \in DOMAIN ran' : ran'[i] = ran'[j] => i = j,
         DispatchOK', AheadIsNew', NoneIsPassed'
  PROVE  EventsInv'
<1>1. EachOnce'
  <2> SUFFICES ASSUME Sent(dispatch'), NEW id \in before', id \in AllIds'
               PROVE  HasRun(id)'
    BY DEF EachOnce, HasRun, Sent
  <2>1. PICK e \in Level : \E b \in handlers'[e] : b.id = id
    BY DEF AllIds, Ids
  <2>2. e \in 1 .. dispatch'.at /\ ~dispatch'.stopped /\ dispatch'.snap = {} /\ dispatch'.liveQ = {}
    BY DEF Sent, Level
  <2> QED
    BY <2>1, <2>2 DEF NoneIsPassed, AboutToRun
<1>2. Numbered'
  BY NumbersStay DEF EventsInv
<1>3. DelegatesDown'
  BY DEF EventsInv, DelegatesDown
<1> QED
  BY <1>1, <1>2, <1>3 DEF EventsInv, EventsHold

LEMMA ArriveIs ==
  ASSUME EventsTypeOK, NothingLeaks, NEW e \in Level, NEW d \in Dispatches
  PROVE  /\ Arrive(e, d) \in Dispatches
         /\ Arrive(e, d).at = e /\ Arrive(e, d).snap = handlers[e]
         /\ Arrive(e, d).liveQ = d.liveQ /\ Arrive(e, d).maxLevel = d.maxLevel
         /\ Arrive(e, d).liveFired = d.liveFired /\ Arrive(e, d).stopped = d.stopped
<1>1. handlers[e] \in SUBSET Binding /\ (e \notin listening => handlers[e] = {})
  BY DEF EventsTypeOK, NothingLeaks
<1>2. e \in 0 .. Depth
  BY DEF Level
<1>3. Arrive(e, d) = [d EXCEPT !.at = e, !.snap = handlers[e]]
  BY <1>1 DEF Arrive
<1> QED
  BY <1>1, <1>2, <1>3 DEF Dispatches

LEMMA FireKeeps ==
  ASSUME EventsInv, Fire
  PROVE  EventsInv'
<1>1. /\ EventsTypeOK /\ NothingLeaks /\ Numbered
      /\ UNCHANGED <<handlers, live, listening, userData, cache, ids>>
      /\ ran' = <<>> /\ before' = AllIds
  BY DEF EventsInv, EventsHold, Fire, bound
<1>2. NoDispatch \in Dispatches /\ 1 \in Level
  BY DepthAssumption DEF NoDispatch, Dispatches, Level
<1>3. /\ dispatch' \in Dispatches /\ dispatch'.at = 1 /\ dispatch'.snap = handlers[1]
      /\ dispatch'.liveQ = {} /\ dispatch'.maxLevel = 0 /\ dispatch'.liveFired = 0
      /\ dispatch'.stopped = FALSE
  BY <1>1, <1>2, ArriveIs DEF Fire, NoDispatch
<1>4. before' \subseteq 1 .. ids
  <2> SUFFICES ASSUME NEW e \in Level, NEW b \in handlers[e] PROVE b.id \in 1 .. ids
    BY <1>1 DEF AllIds, Ids
  <2> QED
    BY <1>1, BindingsAssumption DEF Numbered, Handlers, EventsTypeOK, Number, Binding
<1>5. EventsTypeOK'
  BY <1>1, <1>3, <1>4 DEF EventsTypeOK, Dispatches
<1>6. NothingLeaks'
  BY <1>1 DEF NothingLeaks, Proxies, Ids
<1>7. \A e \in Level : Handlers(e)' \subseteq Handlers(e) /\ Entries(e)' \subseteq Entries(e)
  BY <1>1, <1>3 DEF Handlers, Entries
<1>8. DispatchOK'
  BY <1>3 DEF DispatchOK
<1>9. AheadIsNew'
  BY <1>1 DEF AheadIsNew, HasRun
<1>10. NoneIsPassed'
  BY <1>1, <1>3 DEF NoneIsPassed, AboutToRun
<1> QED
  BY <1>1, <1>5, <1>6, <1>7, <1>8, <1>9, <1>10, DispatchKeeps

LEMMA BubbleKeeps ==
  ASSUME EventsInv, BubbleUp
  PROVE  EventsInv'
<1>1. /\ EventsTypeOK /\ NothingLeaks /\ EachOnce /\ DispatchOK /\ AheadIsNew /\ NoneIsPassed
      /\ UNCHANGED <<handlers, live, listening, userData, cache, ran, before, ids>>
      /\ dispatch.at \in Level /\ dispatch.liveQ = {} /\ dispatch.snap = {}
      /\ dispatch \in Dispatches
  BY DEF EventsInv, EventsHold, BubbleUp, bound, DispatchOK, EventsTypeOK, Level, Dispatches
<1>2. NothingLeaks'
  BY <1>1 DEF NothingLeaks, Proxies, Ids
<1>3. \A i, j \in DOMAIN ran' : ran'[i] = ran'[j] => i = j
  BY <1>1 DEF EachOnce
<1>4. CASE dispatch.stopped \/ dispatch.at = Depth
  <2>1. dispatch' = NoDispatch
    BY <1>4 DEF BubbleUp
  <2>2. NoDispatch \in Dispatches
    BY DepthAssumption DEF NoDispatch, Dispatches
  <2>3. EventsTypeOK'
    BY <1>1, <2>1, <2>2 DEF EventsTypeOK, Dispatches
  <2>4. \A e \in Level : Handlers(e)' \subseteq Handlers(e) /\ Entries(e)' \subseteq Entries(e)
    BY <1>1, <2>1 DEF Handlers, Entries, NoDispatch
  <2>5. DispatchOK' /\ AheadIsNew' /\ NoneIsPassed'
    BY <2>1 DEF DispatchOK, AheadIsNew, NoneIsPassed, NoDispatch
  <2> QED
    BY <1>1, <1>2, <1>3, <2>3, <2>4, <2>5, DispatchKeeps
<1>5. CASE ~(dispatch.stopped \/ dispatch.at = Depth)
  <2> DEFINE e == dispatch.at + 1
  <2>1. e \in Level /\ e \in Nat /\ dispatch.at \in Nat /\ dispatch.liveFired \in Nat
    BY <1>1, <1>5, DepthAssumption DEF Level, Dispatches
  <2>2. /\ dispatch' \in Dispatches /\ dispatch'.at = e /\ dispatch'.snap = handlers[e]
        /\ dispatch'.liveQ = {} /\ dispatch'.maxLevel = dispatch.maxLevel
        /\ dispatch'.liveFired = dispatch.liveFired /\ dispatch'.stopped = dispatch.stopped
    <3>1. dispatch' = Arrive(e, dispatch)
      BY <1>5 DEF BubbleUp
    <3> QED
      BY <1>1, <2>1, <3>1, ArriveIs
  <2>3. EventsTypeOK'
    BY <1>1, <2>2 DEF EventsTypeOK, Dispatches
  <2>4. \A f \in Level : Handlers(f)' \subseteq Handlers(f) /\ Entries(f)' \subseteq Entries(f)
    BY <1>1, <2>2 DEF Handlers, Entries
  <2>5. dispatch.liveFired < e
    BY <1>1, <2>1 DEF DispatchOK
  <2>6. DispatchOK'
    BY <1>1, <2>1, <2>2, <2>5 DEF DispatchOK
  <2>7. AheadIsNew'
    <3>1. /\ \A f \in Level : f > dispatch.at => \A b \in handlers[f] : ~HasRun(b.id)
          /\ \A f \in Level : f > dispatch.at => \A l \in live[f] : ~HasRun(l.id)
      BY <1>1 DEF AheadIsNew, Level
    <3>2. \A f \in Level : f >= e => f > dispatch.at
      BY <2>1 DEF Level
    <3> QED
      BY <1>1, <2>1, <2>2, <3>1, <3>2 DEF AheadIsNew, HasRun, Level
  <2>8. NoneIsPassed'
    <3> SUFFICES ASSUME NEW f \in 1 .. e, NEW b \in handlers[f], b.id \in before
                 PROVE  HasRun(b.id) \/ (f = e /\ AboutToRun(b)')
      BY <1>1, <2>2 DEF NoneIsPassed, HasRun
    <3>1. CASE f = e
      BY <1>1, <2>2, <2>5, <3>1 DEF AboutToRun
    <3>2. CASE f # e
      <4>1. f \in 1 .. dispatch.at
        BY <2>1, <3>2
      <4> QED
        BY <1>1, <1>5, <4>1 DEF NoneIsPassed, AboutToRun
    <3> QED
      BY <3>1, <3>2
  <2> QED
    BY <1>1, <1>2, <1>3, <2>3, <2>4, <2>6, <2>7, <2>8, DispatchKeeps
<1> QED
  BY <1>4, <1>5

LEMMA RanOneMore ==
  ASSUME ids \in Nat, ran \in Seq(1 .. ids), NEW id \in 1 .. ids, ran' = Append(ran, id),
         ~HasRun(id), \A i, j \in DOMAIN ran : ran[i] = ran[j] => i = j
  PROVE  /\ ran' \in Seq(1 .. ids)
         /\ \A x : HasRun(x)' <=> HasRun(x) \/ x = id
         /\ \A i, j \in DOMAIN ran' : ran'[i] = ran'[j] => i = j
<1>1. /\ ran' \in Seq(1 .. ids) /\ Len(ran) \in Nat /\ Len(ran') = Len(ran) + 1
      /\ DOMAIN ran = 1 .. Len(ran) /\ DOMAIN ran' = 1 .. Len(ran) + 1
      /\ \A i \in DOMAIN ran : ran'[i] = ran[i]
      /\ ran'[Len(ran) + 1] = id
  OBVIOUS
<1>2. \A x : HasRun(x)' <=> HasRun(x) \/ x = id
  BY <1>1 DEF HasRun
<1>3. \A i \in DOMAIN ran : ran[i] # id
  BY DEF HasRun
<1>4. ASSUME NEW i \in DOMAIN ran', NEW j \in DOMAIN ran', ran'[i] = ran'[j]
      PROVE  i = j
  <2>1. CASE i \in DOMAIN ran /\ j \in DOMAIN ran
    BY <1>1, <1>4, <2>1
  <2>2. CASE i = Len(ran) + 1 \/ j = Len(ran) + 1
    BY <1>1, <1>3, <1>4, <2>2
  <2> QED
    BY <1>1, <2>1, <2>2
<1> QED
  BY <1>1, <1>2, <1>4

(* While an event has something to run it is at a level, whose handlers    *)
(* and entries have numbers.                                               *)
LEMMA EventIsSomewhere ==
  ASSUME EventsInv, dispatch.snap # {} \/ dispatch.liveQ # {}
  PROVE  /\ dispatch.at \in Level /\ dispatch.at > 0 /\ dispatch \in Dispatches
         /\ \A b \in dispatch.snap : b \in Handlers(dispatch.at) /\ b.id \in 1 .. ids
         /\ \A l \in dispatch.liveQ : l \in Entries(dispatch.at) /\ l.id \in 1 .. ids
         /\ dispatch.snap # {} => Current \in dispatch.snap
         /\ dispatch.liveQ # {} => Nearest(dispatch.liveQ) \in dispatch.liveQ
<1>1. EventsTypeOK /\ Numbered /\ DispatchOK /\ dispatch \in Dispatches
  BY DEF EventsInv, EventsTypeOK, Dispatches
<1>2. dispatch.at \in Level /\ dispatch.at > 0
  BY <1>1, DepthAssumption DEF DispatchOK, NoDispatch, Dispatches, Level
<1>3. /\ \A b \in dispatch.snap : b \in Handlers(dispatch.at) /\ b.id \in Number
      /\ \A l \in dispatch.liveQ : l \in Entries(dispatch.at) /\ l.id \in Number /\ l.sel \in Level
  BY <1>1 DEF Handlers, Entries, Dispatches, Binding, Entry
<1>4. /\ \A b \in dispatch.snap : b.id \in 1 .. ids
      /\ \A l \in dispatch.liveQ : l.id \in 1 .. ids
  BY <1>1, <1>2, <1>3, BindingsAssumption DEF Numbered, Number, EventsTypeOK
<1>5. dispatch.snap # {} => Current \in dispatch.snap
  BY <1>3, EarliestIsMember DEF Number, Current
<1>6. dispatch.liveQ # {} => Nearest(dispatch.liveQ) \in dispatch.liveQ
  BY <1>3, NearestIsMember DEF Number, Level
<1> QED
  BY <1>1, <1>2, <1>3, <1>4, <1>5, <1>6

LEMMA RunHandlerKeeps ==
  ASSUME EventsInv, NEW outcome \in Outcome, RunHandler(outcome)
  PROVE  EventsInv'
<1> DEFINE at  == dispatch.at
           cur == Current
<1>1. /\ EventsTypeOK /\ NothingLeaks /\ EachOnce /\ Numbered /\ DispatchOK
      /\ AheadIsNew /\ NoneIsPassed
      /\ UNCHANGED <<live, userData, before, ids>>
      /\ dispatch.liveQ = {} /\ dispatch.snap # {} /\ ~cur.proxy
      /\ ran' = Append(ran, cur.id)
      /\ ids \in Nat /\ ran \in Seq(1 .. ids)
  BY BindingsAssumption DEF EventsInv, EventsHold, RunHandler, Running, EventsTypeOK
<1>2. /\ at \in Level /\ at > 0 /\ dispatch \in Dispatches
      /\ \A b \in dispatch.snap : b \in Handlers(at) /\ b.id \in 1 .. ids
      /\ cur \in dispatch.snap
  BY <1>1, EventIsSomewhere
<1>3. /\ dispatch' \in Dispatches /\ dispatch'.at = at
      /\ dispatch'.snap \subseteq dispatch.snap \ {cur}
      /\ outcome = "none" => dispatch'.snap = dispatch.snap \ {cur}
      /\ dispatch'.liveQ = {} /\ dispatch'.maxLevel = dispatch.maxLevel
      /\ dispatch'.liveFired = dispatch.liveFired
      /\ dispatch'.stopped <=> dispatch.stopped \/ outcome # "none"
  BY <1>1, <1>2 DEF RunHandler, Dispatches, Outcome
<1>4. /\ NothingLeaks'
      /\ handlers' \in [Level -> SUBSET Binding]
      /\ listening' \subseteq Level /\ cache' \subseteq Level
      /\ \A f \in Level : handlers'[f] \subseteq handlers[f]
  <2>1. CASE cur.once
    <3> DEFINE gone == {b \in handlers[at] : b.fn = cur.fn}
    <3>1. RemoveFrom(at, gone) /\ live' = [live EXCEPT ![at] = live[at]]
      BY <1>1, <2>1 DEF RunHandler, EventsTypeOK
    <3>2. \A b \in handlers[at] \ gone : b.proxy => b.id \in Ids(live[at])
      BY <1>1, <1>2 DEF NothingLeaks, Proxies, Ids
    <3> QED
      BY <1>1, <1>2, <3>1, <3>2, RemovalLeaksNothing
  <2>2. CASE ~cur.once
    <3>1. UNCHANGED <<handlers, listening, cache>>
      BY <2>2 DEF RunHandler
    <3> QED
      BY <1>1, <3>1 DEF NothingLeaks, Proxies, Ids, EventsTypeOK
  <2> QED
    BY <2>1, <2>2
<1>5. ~HasRun(cur.id)
  BY <1>1, <1>2 DEF AheadIsNew
<1>6. /\ ran' \in Seq(1 .. ids)
      /\ \A x : HasRun(x)' <=> HasRun(x) \/ x = cur.id
      /\ \A i, j \in DOMAIN ran' : ran'[i] = ran'[j] => i = j
  BY <1>1, <1>2, <1>5, RanOneMore DEF EachOnce
<1>7. EventsTypeOK'
  BY <1>1, <1>3, <1>4, <1>6 DEF EventsTypeOK, Dispatches
<1>8. \A e \in Level : Handlers(e)' \subseteq Handlers(e) /\ Entries(e)' \subseteq Entries(e)
  BY <1>1, <1>3, <1>4 DEF Handlers, Entries
<1>9. DispatchOK'
  BY <1>1, <1>2, <1>3 DEF DispatchOK
<1>10. AheadIsNew'
  <2>1. \A b \in dispatch'.snap : b.id # cur.id
    BY <1>1, <1>2, <1>3 DEF Numbered
  <2>2. \A e \in Level : e > at => \A b \in handlers[e] : b.id # cur.id
    <3> SUFFICES ASSUME NEW e \in Level, e > at, NEW b \in handlers[e], b.id = cur.id
                 PROVE  FALSE
      OBVIOUS
    <3>1. b \in Handlers(e) /\ cur \in Handlers(at)
      BY <1>2 DEF Handlers
    <3>2. e = at
      BY <1>1, <1>2, <3>1 DEF Numbered
    <3> QED
      BY <3>2, <1>2 DEF Level
  <2>3. \A e \in Level : \A l \in live[e] : l.id # cur.id
    BY <1>1, <1>2 DEF Numbered, Entries
  <2> QED
    BY <1>1, <1>2, <1>3, <1>4, <1>6, <2>1, <2>2, <2>3 DEF AheadIsNew
<1>11. NoneIsPassed'
  <2> SUFFICES ASSUME outcome = "none", ~dispatch.stopped,
                      NEW e \in 1 .. at, NEW b \in handlers'[e], b.id \in before
               PROVE  HasRun(b.id)' \/ (e = at /\ AboutToRun(b)')
    BY <1>1, <1>3 DEF NoneIsPassed
  <2>1. e \in Level
    BY <1>2, DepthAssumption DEF Level
  <2>2. HasRun(b.id) \/ (e = at /\ AboutToRun(b))
    BY <1>1, <1>4, <2>1 DEF NoneIsPassed
  <2> QED
    BY <1>1, <1>3, <1>6, <2>2 DEF AboutToRun
<1> QED
  BY <1>1, <1>4, <1>6, <1>7, <1>8, <1>9, <1>10, <1>11, DispatchKeeps

LEMMA LiveHandlerKeeps ==
  ASSUME EventsInv, LiveHandler
  PROVE  EventsInv'
<1> DEFINE at  == dispatch.at
           cur == Current
<1>1. /\ EventsTypeOK /\ NothingLeaks /\ EachOnce /\ Numbered /\ DispatchOK
      /\ AheadIsNew /\ NoneIsPassed /\ DelegatesDown
      /\ UNCHANGED <<handlers, live, listening, userData, cache, ran, before, ids>>
      /\ dispatch.liveQ = {} /\ dispatch.snap # {} /\ cur.proxy
  BY DEF EventsInv, EventsHold, LiveHandler, Running, bound
<1>2. /\ at \in Level /\ at > 0 /\ dispatch \in Dispatches /\ cur \in dispatch.snap
  BY <1>1, EventIsSomewhere
<1>3. NothingLeaks' /\ \A i, j \in DOMAIN ran' : ran'[i] = ran'[j] => i = j
  BY <1>1 DEF NothingLeaks, Proxies, Ids, EachOnce
<1>4. live[at] \in SUBSET Entry /\ Matches(at) = live[at]
  BY <1>1, <1>2 DEF Matches, DelegatesDown, EventsTypeOK
<1>5. CASE dispatch.liveFired = at \/ live[at] = {}
  <2>1. dispatch' = [dispatch EXCEPT !.snap = dispatch.snap \ {cur}]
    BY <1>5 DEF LiveHandler
  <2>2. /\ dispatch' \in Dispatches /\ dispatch'.at = at /\ dispatch'.snap = dispatch.snap \ {cur}
        /\ dispatch'.liveQ = {} /\ dispatch'.maxLevel = dispatch.maxLevel
        /\ dispatch'.liveFired = dispatch.liveFired /\ dispatch'.stopped = dispatch.stopped
    BY <1>1, <1>2, <2>1 DEF Dispatches
  <2>3. EventsTypeOK'
    BY <1>1, <2>2 DEF EventsTypeOK, Dispatches
  <2>4. \A e \in Level : Handlers(e)' \subseteq Handlers(e) /\ Entries(e)' \subseteq Entries(e)
    BY <1>1, <2>2 DEF Handlers, Entries
  <2>5. DispatchOK'
    BY <1>1, <1>2, <2>2 DEF DispatchOK
  <2>6. AheadIsNew'
    BY <1>1, <2>2 DEF AheadIsNew, HasRun
  <2>7. NoneIsPassed'
    <3> SUFFICES ASSUME ~dispatch.stopped, NEW e \in 1 .. at, NEW b \in handlers[e],
                        b.id \in before
                 PROVE  HasRun(b.id) \/ (e = at /\ AboutToRun(b)')
      BY <1>1, <2>2 DEF NoneIsPassed, HasRun
    <3>1. HasRun(b.id) \/ (e = at /\ AboutToRun(b))
      BY <1>1 DEF NoneIsPassed
    <3>2. e = at /\ live[at] = {} => ~b.proxy
      BY <1>1, <1>2 DEF NothingLeaks, Proxies, Ids
    <3>3. dispatch.liveFired \in Nat /\ at \in Nat
      BY <1>2 DEF Dispatches, Level
    <3> QED
      BY <1>1, <1>5, <2>2, <3>1, <3>2, <3>3 DEF AboutToRun
  <2> QED
    BY <1>1, <1>3, <2>3, <2>4, <2>5, <2>6, <2>7, DispatchKeeps
<1>6. CASE ~(dispatch.liveFired = at \/ live[at] = {})
  <2>1. dispatch' = [dispatch EXCEPT !.snap = dispatch.snap \ {cur}, !.liveFired = at,
                       !.liveQ = live[at], !.maxLevel = 0]
    BY <1>4, <1>6 DEF LiveHandler
  <2>2. /\ dispatch' \in Dispatches /\ dispatch'.at = at /\ dispatch'.snap = dispatch.snap \ {cur}
        /\ dispatch'.liveQ = live[at] /\ dispatch'.maxLevel = 0
        /\ dispatch'.liveFired = at /\ dispatch'.stopped = dispatch.stopped
    <3>1. at \in 0 .. Depth /\ 0 \in 0 .. Depth /\ dispatch.snap \ {cur} \in SUBSET Binding
      BY <1>2, DepthAssumption DEF Dispatches, Level
    <3> QED
      BY <1>2, <1>4, <2>1, <3>1 DEF Dispatches
  <2>3. EventsTypeOK'
    BY <1>1, <2>2 DEF EventsTypeOK, Dispatches
  <2>4. \A e \in Level : Handlers(e)' \subseteq Handlers(e) /\ Entries(e)' \subseteq Entries(e)
    BY <1>1, <2>2 DEF Handlers, Entries
  <2>5. at \in Nat /\ dispatch.liveFired < at
    BY <1>1, <1>2, <1>6 DEF DispatchOK, Dispatches, Level
  <2>6. DispatchOK'
    BY <1>1, <1>2, <2>2, <2>5 DEF DispatchOK
  <2>7. AheadIsNew'
    <3>1. \A l \in live[at] : ~HasRun(l.id)
      BY <1>1, <1>2, <2>5 DEF AheadIsNew
    <3> QED
      BY <1>1, <1>2, <2>2, <2>5, <3>1 DEF AheadIsNew, HasRun
  <2>8. NoneIsPassed'
    <3> SUFFICES ASSUME ~dispatch.stopped, NEW e \in 1 .. at, NEW b \in handlers[e],
                        b.id \in before
                 PROVE  HasRun(b.id) \/ (e = at /\ AboutToRun(b)')
      BY <1>1, <2>2 DEF NoneIsPassed, HasRun
    <3>1. HasRun(b.id) \/ (e = at /\ AboutToRun(b))
      BY <1>1 DEF NoneIsPassed
    <3>2. e = at /\ b.proxy => \E l \in live[at] : l.id = b.id
      BY <1>1, <1>2 DEF NothingLeaks, Proxies, Ids
    <3> QED
      BY <1>1, <2>2, <3>1, <3>2 DEF AboutToRun
  <2> QED
    BY <1>1, <1>3, <2>3, <2>4, <2>6, <2>7, <2>8, DispatchKeeps
<1> QED
  BY <1>5, <1>6

LEMMA RunLiveKeeps ==
  ASSUME EventsInv, NEW outcome \in Outcome, RunLive(outcome)
  PROVE  EventsInv'
<1> DEFINE at == dispatch.at
           l  == Nearest(dispatch.liveQ)
           stopped == dispatch.stopped \/ outcome # "none"
<1>1. /\ EventsTypeOK /\ NothingLeaks /\ EachOnce /\ Numbered /\ DispatchOK
      /\ AheadIsNew /\ NoneIsPassed
      /\ UNCHANGED <<handlers, live, listening, userData, cache, before, ids>>
      /\ dispatch.liveQ # {}
      /\ ids \in Nat /\ ran \in Seq(1 .. ids)
  BY BindingsAssumption DEF EventsInv, EventsHold, RunLive, bound, EventsTypeOK
<1>2. /\ at \in Level /\ at > 0 /\ dispatch \in Dispatches /\ l \in dispatch.liveQ
      /\ \A b \in dispatch.snap : b \in Handlers(at)
      /\ \A k \in dispatch.liveQ : k \in Entries(at) /\ k.id \in 1 .. ids
  BY <1>1, EventIsSomewhere
<1>3. NothingLeaks'
  BY <1>1 DEF NothingLeaks, Proxies, Ids
<1>4. CASE dispatch.maxLevel > 0 /\ l.sel > dispatch.maxLevel
  <2>1. dispatch' = [dispatch EXCEPT !.liveQ = {}] /\ UNCHANGED ran
    BY <1>4 DEF RunLive
  <2>2. /\ dispatch' \in Dispatches /\ dispatch'.at = at /\ dispatch'.snap = dispatch.snap
        /\ dispatch'.liveQ = {} /\ dispatch'.maxLevel = dispatch.maxLevel
        /\ dispatch'.liveFired = dispatch.liveFired /\ dispatch'.stopped
    BY <1>1, <1>2, <1>4, <2>1 DEF Dispatches, DispatchOK
  <2>3. EventsTypeOK'
    BY <1>1, <2>1, <2>2 DEF EventsTypeOK, Dispatches
  <2>4. \A e \in Level : Handlers(e)' \subseteq Handlers(e) /\ Entries(e)' \subseteq Entries(e)
    BY <1>1, <2>2 DEF Handlers, Entries
  <2>5. DispatchOK' /\ NoneIsPassed'
    BY <1>1, <1>2, <2>2 DEF DispatchOK, NoneIsPassed
  <2>6. AheadIsNew'
    BY <1>1, <2>1, <2>2 DEF AheadIsNew, HasRun
  <2>7. \A i, j \in DOMAIN ran' : ran'[i] = ran'[j] => i = j
    BY <1>1, <2>1 DEF EachOnce
  <2> QED
    BY <1>1, <1>3, <2>3, <2>4, <2>5, <2>6, <2>7, DispatchKeeps
<1>5. CASE ~(dispatch.maxLevel > 0 /\ l.sel > dispatch.maxLevel)
  <2>1. /\ ran' = Append(ran, l.id)
        /\ dispatch' = [dispatch EXCEPT
             !.liveQ = IF outcome = "immediate" THEN {} ELSE dispatch.liveQ \ {l},
             !.snap = IF outcome = "immediate" THEN {} ELSE dispatch.snap,
             !.maxLevel = IF stopped THEN l.sel ELSE dispatch.maxLevel,
             !.stopped = stopped]
    BY <1>5 DEF RunLive
  <2>2. l.sel \in 0 .. Depth
    BY <1>2 DEF Dispatches, Entry, Level
  <2>3. /\ dispatch' \in Dispatches /\ dispatch'.at = at
        /\ dispatch'.snap \subseteq dispatch.snap
        /\ dispatch'.liveQ \subseteq dispatch.liveQ \ {l}
        /\ outcome = "none" => /\ dispatch'.snap = dispatch.snap
                               /\ dispatch'.liveQ = dispatch.liveQ \ {l}
        /\ dispatch'.liveFired = dispatch.liveFired
        /\ dispatch'.stopped <=> stopped
        /\ ~stopped => dispatch'.maxLevel = dispatch.maxLevel
    BY <1>2, <2>1, <2>2 DEF Dispatches, Outcome
  <2>4. ~HasRun(l.id) /\ dispatch.liveFired = at
    BY <1>1, <1>2 DEF AheadIsNew, DispatchOK
  <2>5. /\ ran' \in Seq(1 .. ids)
        /\ \A x : HasRun(x)' <=> HasRun(x) \/ x = l.id
        /\ \A i, j \in DOMAIN ran' : ran'[i] = ran'[j] => i = j
    BY <1>1, <1>2, <2>1, <2>4, RanOneMore DEF EachOnce
  <2>6. EventsTypeOK'
    BY <1>1, <2>3, <2>5 DEF EventsTypeOK, Dispatches
  <2>7. \A e \in Level : Handlers(e)' \subseteq Handlers(e) /\ Entries(e)' \subseteq Entries(e)
    BY <1>1, <2>3 DEF Handlers, Entries
  <2>8. DispatchOK'
    BY <1>1, <1>2, <2>3, <2>4 DEF DispatchOK
  <2>9. AheadIsNew'
    <3>1. l \in Entries(at)
      BY <1>2
    <3>2. \A b \in dispatch.snap : ~b.proxy => b.id # l.id
      BY <1>1, <1>2, <3>1 DEF Numbered
    <3>3. \A k \in dispatch'.liveQ : k.id # l.id
      BY <1>1, <1>2, <2>3, <3>1 DEF Numbered
    <3>4. ASSUME NEW e \in Level, e > at
          PROVE  /\ \A b \in handlers[e] : b.id # l.id
                 /\ \A k \in live[e] : k.id # l.id
      <4>1. e # at
        BY <1>2, <3>4 DEF Level
      <4>2. \A b \in handlers[e] : b \in Handlers(e)
        BY DEF Handlers
      <4>3. \A k \in live[e] : k \in Entries(e)
        BY DEF Entries
      <4> QED
        BY <1>1, <1>2, <3>1, <4>1, <4>2, <4>3 DEF Numbered
    <3>5. \A e \in Level : ~(e = at /\ dispatch.liveFired < e)
      BY <2>4 DEF Level
    <3> QED
      BY <1>1, <1>2, <2>3, <2>5, <3>2, <3>3, <3>4, <3>5 DEF AheadIsNew
  <2>10. NoneIsPassed'
    <3> SUFFICES ASSUME outcome = "none", ~dispatch.stopped,
                        NEW e \in 1 .. at, NEW b \in handlers[e], b.id \in before
                 PROVE  HasRun(b.id)' \/ (e = at /\ AboutToRun(b)')
      BY <1>1, <2>3 DEF NoneIsPassed
    <3>1. HasRun(b.id) \/ (e = at /\ AboutToRun(b))
      BY <1>1 DEF NoneIsPassed
    <3> QED
      BY <2>3, <2>5, <3>1 DEF AboutToRun
  <2> QED
    BY <1>1, <1>3, <2>5, <2>6, <2>7, <2>8, <2>9, <2>10, DispatchKeeps
<1> QED
  BY <1>4, <1>5

LEMMA EventsStep == EventsInv /\ [EventsNext]_eventVars => EventsInv'
<1> SUFFICES ASSUME EventsInv, [EventsNext]_eventVars PROVE EventsInv'
  OBVIOUS
<1>1. ASSUME NEW e \in Level, NEW fn \in Fn,
             \/ \E ns \in Namespace \cup {NoNamespace}, once \in BOOLEAN : Bind(e, fn, ns, once)
             \/ \E sel \in Level : Live(e, sel, fn)
      PROVE  EventsInv'
  BY <1>1, NewBindingKeeps
<1>2. ASSUME NEW e \in Level, NEW sel \in Level, NEW fn \in Fn, Die(e, sel, fn)
      PROVE  EventsInv'
  BY <1>2, DieKeeps
<1>3. ASSUME NEW e \in Level,
             \/ \E fn \in Fn : Unbind(e, {fn}, Namespace \cup {NoNamespace} \cup Level)
             \/ \E ns \in Namespace : Unbind(e, Fn, {ns})
      PROVE  EventsInv'
  BY <1>3, UnbindKeeps
<1>4. ASSUME NEW e \in Level, CleanData(e) \/ Data(e) \/ RemoveData(e)
      PROVE  EventsInv'
  BY <1>4, CleanDataKeeps, DataKeeps
<1>5. CASE Fire \/ LiveHandler \/ BubbleUp
  BY <1>5, FireKeeps, LiveHandlerKeeps, BubbleKeeps
<1>6. ASSUME NEW o \in Outcome, RunHandler(o) \/ RunLive(o)
      PROVE  EventsInv'
  BY <1>6, RunHandlerKeeps, RunLiveKeeps
<1>7. CASE UNCHANGED eventVars
  BY <1>7, UnbindingKeeps DEF eventVars, bound, EventsInv, EventsHold, EventsTypeOK,
                              NothingLeaks, Proxies, Ids
<1> QED
  BY <1>1, <1>2, <1>3, <1>4, <1>5, <1>6, <1>7 DEF EventsNext

LEMMA EventsInitial == EventsInit => EventsInv
<1> SUFFICES ASSUME EventsInit PROVE EventsInv
  OBVIOUS
<1>1. NoDispatch \in Dispatches /\ 1 .. 0 = {}
  BY DepthAssumption DEF NoDispatch, Dispatches
<1>2. EventsTypeOK
  BY <1>1, BindingsAssumption DEF EventsInit, EventsTypeOK, Dispatches
<1>3. EventsHold
  BY DEF EventsInit, EventsHold, NothingLeaks, EachOnce, Sent, Proxies, Ids
<1>4. Numbered /\ DelegatesDown /\ DispatchOK /\ AheadIsNew
  BY DEF EventsInit, Numbered, DelegatesDown, DispatchOK, AheadIsNew, Handlers, Entries, NoDispatch
<1>5. NoneIsPassed
  BY <1>1 DEF EventsInit, NoneIsPassed, NoDispatch
<1> QED
  BY <1>2, <1>3, <1>4, <1>5 DEF EventsInv

(* The events' inductive invariant: EventsHold, the numbers of bindings,   *)
(* where the event is, that what is ahead of it has not run, and that it   *)
(* passed nothing that was there from the beginning.                       *)
THEOREM EventsInvariance == EventsSpec => []EventsInv
BY EventsInitial, EventsStep, PTL DEF EventsSpec

(* However code binds, unbinds, delegates and cleans while events bubble,  *)
(* no listener, cache entry or delegate is left behind, and a binding runs *)
(* once for an event; one that nobody stops misses none that was there     *)
(* from its beginning to its end.                                          *)
THEOREM NothingLeaksAndEachRunsOnce == EventsSpec => []EventsHold
<1>1. EventsInv => EventsHold
  BY DEF EventsInv
<1> QED
  BY <1>1, EventsInvariance, PTL

-------------------------------------------------------------------------------
(* The display preferences: what is set is what the page, the preview and  *)
(* the saved settings show, although the objects that hold it are changed  *)
(* in place and handed on uncopied.                                        *)

(* Text sizes are typed as numbers, and cut to the scale unless odd.       *)
LEMMA TypedIsSetting ==
  ASSUME NEW s \in Setting, NEW typed \in 0 .. (MaxSize + 1) \cup {Odd, NoNumber}
  PROVE  [s EXCEPT !.size = ValidateValue(@, typed)] \in Setting
<1>1. s.size \in MinSize .. MaxSize \cup {Odd}
  BY DEF Setting
<1>2. ValidateValue(s.size, typed) \in MinSize .. MaxSize \cup {Odd}
  <2>1. CASE typed = NoNumber
    BY <1>1, <2>1 DEF ValidateValue
  <2>2. CASE typed = Odd /\ typed # NoNumber
    BY <2>2 DEF ValidateValue
  <2>3. CASE typed # Odd /\ typed # NoNumber
    <3>1. typed \in 0 .. 3
      BY <2>3 DEF MaxSize
    <3>2. ValidateValue(s.size, typed) =
            IF typed < MinSize THEN MinSize ELSE IF typed > MaxSize THEN MaxSize ELSE typed
      BY <2>3 DEF ValidateValue
    <3> QED
      BY <3>1, <3>2 DEF MinSize, MaxSize
  <2> QED
    BY <2>1, <2>2, <2>3
<1> QED
  BY <1>2 DEF Setting

LEMMA DefaultsAreSettings == SiteDefaults \in Setting /\ NoSettings \notin Setting /\ 0 \in Object /\ 1 \in Object
BY SettingsAssumption DEF SiteDefaults, Setting, MinSize, MaxSize

(* What the page makes of a model.                                         *)
LEMMA PageUpdated ==
  ASSUME SettingsTypeOK, StylesFollow, NEW m \in Setting, UpdatePage(m)
  PROVE  /\ page' = m
         /\ page' \in Setting /\ styled' \in {NoSettings} \cup Setting
         /\ toc' \in [state : {"none", "drawing", "drawn"}, shown : BOOLEAN]
         /\ StylesFollow'
<1>1. toc.state \in {"none", "drawing", "drawn"} /\ m.toc \in BOOLEAN
  BY DEF SettingsTypeOK, Setting
<1>2. /\ page' = m
      /\ toc' = [state |-> IF m.toc /\ toc.state = "none" THEN "drawing" ELSE toc.state, shown |-> m.toc]
      /\ styled' = IF m.toc /\ toc.state = "none" THEN styled ELSE m
  BY DEF UpdatePage, ApplyTocSetting
<1>3. toc' \in [state : {"none", "drawing", "drawn"}, shown : BOOLEAN]
  BY <1>1, <1>2
<1>4. styled' \in {NoSettings} \cup Setting
  BY <1>2 DEF SettingsTypeOK
<1>5. toc'.state # "drawing" => styled' = page'
  BY <1>1, <1>2
<1>6. toc'.shown = page'.toc
  BY <1>2
<1> QED
  BY <1>2, <1>3, <1>4, <1>5, <1>6 DEF StylesFollow

(* The preview's updates: the last one put off reads the model.            *)
LEMMA PutOffAppended ==
  ASSUME SettingsTypeOK, NEW o \in Object
  PROVE  /\ Append(putOff, o) \in Seq(Object) /\ Append(putOff, o) # <<>>
         /\ Append(putOff, o)[Len(Append(putOff, o))] = o
<1>1. putOff \in Seq(Object)
  BY DEF SettingsTypeOK
<1> QED
  BY <1>1

LEMMA SettingsInitial == SettingsInit => SettingsInv
<1> SUFFICES ASSUME SettingsInit PROVE SettingsInv
  OBVIOUS
<1>1. /\ flavour \in {"preview", "plain", "panel"} /\ autoSave \in BOOLEAN
      /\ flavour = "panel" => ~autoSave
      /\ stored \in {NoSettings} \cup Setting /\ selected = 1
      /\ heap = [o \in Object |-> IF o = 1 /\ stored # NoSettings THEN stored ELSE SiteDefaults]
      /\ controls = heap[1] /\ page = heap[1] /\ frame = heap[1]
      /\ toc = [state |-> IF page.toc THEN "drawing" ELSE "none", shown |-> page.toc]
      /\ styled = IF page.toc THEN NoSettings ELSE page
      /\ preview = NoSettings /\ putOff = <<>> /\ informed = FALSE /\ spoilt = FALSE
      /\ panel = [state |-> "hidden", label |-> "show"]
  BY DEF SettingsInit
<1>2. heap \in [Object -> Setting] /\ heap[1] \in Setting /\ heap[0] = SiteDefaults
      /\ heap[1] = IF stored # NoSettings THEN stored ELSE SiteDefaults
  BY <1>1, DefaultsAreSettings
<1>3. page.toc \in BOOLEAN
  BY <1>1, <1>2 DEF Setting
<1>4. SettingsTypeOK
  <2>1. putOff \in Seq(Object)
    BY <1>1
  <2>2. toc \in [state : {"none", "drawing", "drawn"}, shown : BOOLEAN]
    BY <1>1, <1>3
  <2>3. panel \in [state : {"hidden", "showing", "shown", "hiding"}, label : {"show", "hide"}]
    BY <1>1
  <2> QED
    BY <1>1, <1>2, <1>3, <2>1, <2>2, <2>3, DefaultsAreSettings DEF SettingsTypeOK
<1>5. DefaultsKept /\ PageFollows
  BY <1>1, <1>2 DEF DefaultsKept, PageFollows, FetchSaved, Selections
<1>6. PreviewFollows /\ LastIsCurrent /\ DefaultsAside
  BY <1>1 DEF PreviewFollows, LastIsCurrent, DefaultsAside
<1>7. StylesFollow
  BY <1>1, <1>3 DEF StylesFollow
<1>8. ShownAgrees
  BY <1>1 DEF ShownAgrees, Selections
<1> QED
  BY <1>4, <1>5, <1>6, <1>7, <1>8 DEF SettingsInv, SettingsHold

(* A control changes the model's object in place, which is not that of the *)
(* defaults unless Cancel made it so.                                      *)
LEMMA ChangeStep ==
  ASSUME SettingsInv, NEW to \in Setting, ChangeControl(to)
  PROVE  SettingsInv'
<1>1. SettingsTypeOK /\ SettingsHold /\ DefaultsAside /\ LastIsCurrent
  BY DEF SettingsInv
<1>2. /\ heap' = [heap EXCEPT ![selected] = to] /\ selected' = selected /\ controls' = to
      /\ stored' = IF Saves THEN heap'[selected] ELSE stored
      /\ putOff' = IF flavour = "preview" THEN Append(putOff, selected) ELSE putOff
      /\ IF flavour = "panel" THEN UpdatePage(to) ELSE UNCHANGED shownVars
      /\ UNCHANGED <<flavour, autoSave, ready, frame, preview, informed, spoilt, panel>>
  BY DEF ChangeControl, ModelChanged
<1>3. heap \in [Object -> Setting] /\ selected \in Object /\ heap' \in [Object -> Setting]
      /\ heap'[selected] = to /\ (selected # 0 => heap'[0] = heap[0])
  BY <1>1, <1>2, DefaultsAreSettings DEF SettingsTypeOK
<1>4. /\ page' \in Setting /\ styled' \in {NoSettings} \cup Setting /\ StylesFollow'
      /\ toc' \in [state : {"none", "drawing", "drawn"}, shown : BOOLEAN]
      /\ page' = IF flavour = "panel" THEN to ELSE page
  <2>1. CASE flavour = "panel"
    BY <1>1, <1>2, <2>1, PageUpdated DEF SettingsHold
  <2>2. CASE flavour # "panel"
    BY <1>1, <1>2, <2>2 DEF SettingsHold, shownVars, StylesFollow, SettingsTypeOK
  <2> QED
    BY <2>1, <2>2
<1>5. putOff' \in Seq(Object)
  BY <1>1, <1>2, <1>3, PutOffAppended DEF SettingsTypeOK
<1>6. SettingsTypeOK'
  BY <1>1, <1>2, <1>3, <1>4, <1>5 DEF SettingsTypeOK
<1>7. DefaultsKept' /\ DefaultsAside'
  BY <1>1, <1>2, <1>3 DEF SettingsHold, DefaultsKept, DefaultsAside
<1>8. PageFollows'
  BY <1>1, <1>2, <1>3, <1>4
     DEF SettingsHold, PageFollows, DefaultsAside, FetchSaved, Selections, Saves
<1>9. LastIsCurrent' /\ PreviewFollows'
  <2>1. CASE flavour = "preview"
    BY <1>1, <1>2, <1>3, <2>1, PutOffAppended DEF LastIsCurrent, PreviewFollows
  <2>2. CASE flavour # "preview"
    <3>1. ~informed
      BY <1>1, <2>2 DEF LastIsCurrent
    <3> QED
      BY <1>1, <1>2, <2>2, <3>1 DEF LastIsCurrent, PreviewFollows
  <2> QED
    BY <2>1, <2>2
<1>10. ShownAgrees'
  BY <1>1, <1>2, <1>3 DEF SettingsHold, ShownAgrees, Selections
<1> QED
  BY <1>4, <1>6, <1>7, <1>8, <1>9, <1>10 DEF SettingsInv, SettingsHold

(* A refresh leaves the page as saved or, in the panel, as the model.      *)
LEMMA Refreshed ==
  ASSUME SettingsTypeOK, StylesFollow, NEW kept \in {NoSettings} \cup Setting,
         NEW objects \in [Object -> Setting], NEW changed \in Object,
         Refresh(kept, objects, changed)
  PROVE  /\ page' \in Setting /\ styled' \in {NoSettings} \cup Setting /\ frame' \in Setting
         /\ toc' \in [state : {"none", "drawing", "drawn"}, shown : BOOLEAN]
         /\ controls' = objects[changed] /\ StylesFollow'
         /\ page' = IF flavour # "panel" THEN FetchSaved(kept, objects)
                    ELSE IF changed = selected THEN page ELSE objects[changed]
<1>1. controls' = objects[changed]
  BY DEF Refresh
<1>2. FetchSaved(kept, objects) \in Setting /\ objects[changed] \in Setting
  BY DefaultsAreSettings DEF FetchSaved
<1>3. CASE flavour = "panel" /\ changed = selected
  <2>1. frame' = FetchSaved(kept, objects) /\ page' = page /\ toc' = toc /\ styled' = styled
    BY <1>3 DEF Refresh, shownVars
  <2> QED
    BY <1>1, <1>2, <1>3, <2>1 DEF SettingsTypeOK, StylesFollow
<1>4. CASE flavour = "panel" /\ changed # selected
  <2>1. frame' = FetchSaved(kept, objects) /\ UpdatePage(objects[changed])
    BY <1>4 DEF Refresh
  <2> QED
    BY <1>1, <1>2, <1>4, <2>1, PageUpdated
<1>5. CASE flavour # "panel"
  <2>1. UpdatePage(FetchSaved(kept, objects)) /\ frame' = frame
    BY <1>5 DEF Refresh
  <2>2. frame' \in Setting
    BY <2>1 DEF SettingsTypeOK
  <2> QED
    BY <1>1, <1>2, <1>5, <2>1, <2>2, PageUpdated
<1> QED
  BY <1>3, <1>4, <1>5

LEMMA SaveStep ==
  ASSUME SettingsInv, SaveAndApply
  PROVE  SettingsInv'
<1>1. SettingsTypeOK /\ SettingsHold /\ DefaultsAside /\ LastIsCurrent
  BY DEF SettingsInv
<1>2. /\ stored' = heap[selected] /\ Refresh(stored', heap, selected)
      /\ heap' = heap /\ selected' = selected /\ putOff' = putOff
      /\ UNCHANGED <<flavour, autoSave, ready, preview, informed, spoilt, panel>>
  BY DEF SaveAndApply, Selections
<1>3. stored' \in Setting /\ heap \in [Object -> Setting] /\ selected \in Object
  BY <1>1, <1>2 DEF SettingsTypeOK
<1>4. /\ page' \in Setting /\ styled' \in {NoSettings} \cup Setting /\ frame' \in Setting
      /\ toc' \in [state : {"none", "drawing", "drawn"}, shown : BOOLEAN]
      /\ controls' = heap[selected] /\ StylesFollow'
      /\ page' = IF flavour # "panel" THEN FetchSaved(stored', heap) ELSE page
  BY <1>1, <1>2, <1>3, Refreshed DEF SettingsHold
<1>5. SettingsTypeOK'
  BY <1>1, <1>2, <1>3, <1>4 DEF SettingsTypeOK
<1>6. DefaultsKept' /\ DefaultsAside' /\ LastIsCurrent' /\ PreviewFollows'
  BY <1>1, <1>2 DEF SettingsHold, DefaultsKept, DefaultsAside, LastIsCurrent, PreviewFollows, Selections
<1>7. PageFollows'
  BY <1>1, <1>2, <1>4 DEF SettingsHold, PageFollows, FetchSaved, Selections
<1>8. ShownAgrees'
  BY <1>1, <1>2, <1>4 DEF SettingsHold, ShownAgrees, Selections
<1> QED
  BY <1>4, <1>5, <1>6, <1>7, <1>8 DEF SettingsInv, SettingsHold

(* What Reset and Cancel have in common: the model's selections become     *)
(* another object, with what it held if it is that of the defaults.        *)
LEMMA ReplacedStep ==
  ASSUME SettingsInv, NEW o \in Object, NEW to \in Setting,
         Select(o, to),
         o = 0 => to = heap[0] /\ spoilt', spoilt => spoilt', spoilt' \in BOOLEAN,
         o # 0 => o # selected,
         putOff' = IF flavour = "preview" THEN Append(putOff, o) ELSE putOff,
         stored' \in {NoSettings} \cup Setting,
         Refresh(stored', heap', o),
         UNCHANGED <<flavour, autoSave, ready, preview, informed, panel>>
  PROVE  SettingsInv'
<1>1. SettingsTypeOK /\ SettingsHold /\ DefaultsAside /\ LastIsCurrent
  BY DEF SettingsInv
<1>2. heap \in [Object -> Setting] /\ heap' \in [Object -> Setting] /\ heap'[o] = to
      /\ heap'[0] = heap[0] /\ selected \in Object /\ selected' = o
  BY <1>1, DefaultsAreSettings DEF SettingsTypeOK, Select, Read
<1>3. /\ page' \in Setting /\ styled' \in {NoSettings} \cup Setting /\ frame' \in Setting
      /\ toc' \in [state : {"none", "drawing", "drawn"}, shown : BOOLEAN]
      /\ controls' = heap'[o] /\ StylesFollow'
      /\ page' = IF flavour # "panel" THEN FetchSaved(stored', heap')
                 ELSE IF o = selected THEN page ELSE heap'[o]
  BY <1>1, <1>2, Refreshed DEF SettingsHold
<1>4. putOff' \in Seq(Object)
  BY <1>1, PutOffAppended DEF SettingsTypeOK
<1>5. SettingsTypeOK'
  BY <1>1, <1>2, <1>3, <1>4 DEF SettingsTypeOK
<1>6. DefaultsKept' /\ DefaultsAside'
  BY <1>1, <1>2 DEF SettingsHold, DefaultsKept, DefaultsAside
<1>7. PageFollows'
  <2>1. (flavour' # "panel" /\ ~autoSave' /\ ~spoilt') => page' = FetchSaved(stored', heap')
    BY <1>3
  <2>2. ASSUME flavour' = "panel" PROVE page' = heap'[selected']
    <3>1. CASE o = selected
      <4>1. o = 0 /\ page = heap[0]
        BY <1>1, <2>2, <3>1 DEF SettingsHold, PageFollows, Selections
      <4> QED
        BY <1>2, <1>3, <2>2, <3>1, <4>1
    <3>2. CASE o # selected
      BY <1>2, <1>3, <2>2, <3>2
    <3> QED
      BY <3>1, <3>2
  <2> QED
    BY <2>1, <2>2 DEF PageFollows, Selections, FetchSaved
<1>8. LastIsCurrent' /\ PreviewFollows'
  <2>1. CASE flavour = "preview"
    BY <1>1, <1>2, <2>1, PutOffAppended DEF LastIsCurrent, PreviewFollows
  <2>2. CASE flavour # "preview"
    <3>1. ~informed /\ putOff = <<>>
      BY <1>1, <2>2 DEF LastIsCurrent
    <3> QED
      BY <1>1, <1>2, <2>2, <3>1 DEF LastIsCurrent, PreviewFollows
  <2> QED
    BY <2>1, <2>2
<1>9. ShownAgrees'
  BY <1>1, <1>2, <1>3 DEF SettingsHold, ShownAgrees, Selections
<1> QED
  BY <1>3, <1>5, <1>6, <1>7, <1>8, <1>9 DEF SettingsInv, SettingsHold

LEMMA ResetStep ==
  ASSUME SettingsInv, Reset
  PROVE  SettingsInv'
<1>1. SettingsTypeOK
  BY DEF SettingsInv
<1>2. PICK o \in Object :
        /\ Unused(o) /\ Select(o, heap[0])
        /\ putOff' = IF flavour = "preview" THEN Append(putOff, o) ELSE putOff
        /\ stored' = IF Saves \/ flavour = "plain" THEN heap[0] ELSE stored
        /\ Refresh(stored', heap', o)
  BY DEF Reset
<1>3. UNCHANGED <<flavour, autoSave, ready, preview, informed, spoilt, panel>>
  BY DEF Reset
<1>4. o # 0 /\ o # selected
  BY <1>2 DEF Unused, Read
<1>5. heap[0] \in Setting /\ stored' \in {NoSettings} \cup Setting /\ spoilt' \in BOOLEAN
  BY <1>1, <1>2, <1>3, DefaultsAreSettings DEF SettingsTypeOK
<1> QED
  BY <1>2, <1>3, <1>4, <1>5, ReplacedStep

LEMMA CancelStep ==
  ASSUME SettingsInv, CancelChanges
  PROVE  SettingsInv'
<1>1. SettingsTypeOK
  BY DEF SettingsInv
<1>2. PICK o \in Object :
        /\ IF stored = NoSettings THEN o = 0 ELSE Unused(o)
        /\ Select(o, FetchSaved(stored, heap))
        /\ ModelChanged(o, heap')
        /\ spoilt' = (spoilt \/ o = 0)
        /\ Refresh(stored', heap', o)
  BY DEF CancelChanges
<1>3. UNCHANGED <<flavour, autoSave, ready, preview, informed, panel>>
  BY DEF CancelChanges
<1>4. FetchSaved(stored, heap) \in Setting /\ heap' \in [Object -> Setting]
  BY <1>1, <1>2, DefaultsAreSettings DEF SettingsTypeOK, FetchSaved, Select
<1>5. stored' \in {NoSettings} \cup Setting /\ spoilt' \in BOOLEAN
  BY <1>1, <1>2, <1>4 DEF SettingsTypeOK, ModelChanged
<1>6. o = 0 => FetchSaved(stored, heap) = heap[0] /\ spoilt'
  BY <1>2 DEF FetchSaved, Unused, Read
<1>7. o # 0 => o # selected
  BY <1>2 DEF Unused, Read
<1>8. putOff' = IF flavour = "preview" THEN Append(putOff, o) ELSE putOff
  BY <1>2 DEF ModelChanged
<1>9. spoilt => spoilt'
  BY <1>2
<1> DEFINE to == FetchSaved(stored, heap)
<1>10. /\ to \in Setting /\ Select(o, to)
       /\ o = 0 => to = heap[0] /\ spoilt'
       /\ Refresh(stored', heap', o)
  BY <1>2, <1>4, <1>6
<1> HIDE DEF to
<1> QED
  BY <1>3, <1>5, <1>7, <1>8, <1>9, <1>10, ReplacedStep

(* The preview's timer, in whatever order objects were replaced.           *)
LEMMA PreviewStep ==
  ASSUME SettingsInv, UpdatePreview
  PROVE  SettingsInv'
<1>1. SettingsTypeOK /\ SettingsHold /\ DefaultsAside /\ LastIsCurrent
  BY DEF SettingsInv
<1>2. /\ putOff # <<>> /\ putOff' = Tail(putOff)
      /\ preview' = IF preview = NoSettings THEN NoSettings ELSE heap[Head(putOff)]
      /\ informed' = (preview # NoSettings)
      /\ UNCHANGED <<flavour, autoSave, stored, heap, selected, ready, controls,
                     page, toc, styled, frame, spoilt, panel>>
  BY DEF UpdatePreview, shownVars
<1>3. /\ putOff \in Seq(Object) /\ Head(putOff) \in Object /\ Tail(putOff) \in Seq(Object)
      /\ Tail(putOff) = <<>> => Head(putOff) = putOff[Len(putOff)]
      /\ Tail(putOff) # <<>> => Tail(putOff)[Len(Tail(putOff))] = putOff[Len(putOff)]
  <2>1. putOff \in Seq(Object) /\ putOff # <<>>
    BY <1>1, <1>2 DEF SettingsTypeOK
  <2>2. /\ Len(Tail(putOff)) = Len(putOff) - 1 /\ Len(putOff) \in Nat /\ Len(putOff) > 0
        /\ \A i \in 1 .. Len(Tail(putOff)) : Tail(putOff)[i] = putOff[i + 1]
        /\ Tail(putOff) \in Seq(Object) /\ Head(putOff) = putOff[1] /\ putOff[1] \in Object
    BY <2>1, HeadTailProperties, EmptySeq
  <2>3. Tail(putOff) = <<>> <=> Len(Tail(putOff)) = 0
    BY <2>2, EmptySeq
  <2>4. ASSUME Tail(putOff) = <<>> PROVE Len(putOff) = 1
    BY <2>2, <2>3, <2>4
  <2>5. ASSUME Tail(putOff) # <<>>
        PROVE  Tail(putOff)[Len(Tail(putOff))] = putOff[Len(putOff)]
    <3> DEFINE n == Len(Tail(putOff))
    <3>1. n \in 1 .. n /\ n + 1 = Len(putOff)
      BY <2>2, <2>3, <2>5
    <3>2. Tail(putOff)[n] = putOff[n + 1]
      BY <2>2, <3>1
    <3> QED
      BY <3>1, <3>2
  <2> QED
    BY <2>1, <2>2, <2>4, <2>5
<1>4. heap[Head(putOff)] \in Setting
  BY <1>1, <1>3 DEF SettingsTypeOK
<1>5. SettingsTypeOK'
  BY <1>1, <1>2, <1>3, <1>4 DEF SettingsTypeOK
<1>6. DefaultsKept' /\ DefaultsAside' /\ PageFollows' /\ StylesFollow' /\ ShownAgrees'
  BY <1>1, <1>2 DEF SettingsHold, DefaultsKept, DefaultsAside, PageFollows, StylesFollow,
                    ShownAgrees, Selections, FetchSaved
<1>7. LastIsCurrent'
  BY <1>1, <1>2, <1>3, <1>4, DefaultsAreSettings DEF LastIsCurrent
<1>8. PreviewFollows'
  BY <1>1, <1>2, <1>3 DEF LastIsCurrent, PreviewFollows, Selections
<1> QED
  BY <1>5, <1>6, <1>7, <1>8 DEF SettingsInv, SettingsHold

(* The templates, the table of contents, the preview and the panel.        *)
LEMMA QuietStep ==
  ASSUME SettingsInv,
         \/ AfterRender \/ OnUIOptionsComponentReady \/ PreviewLoads
         \/ TogglePanel \/ AfterPanelShow \/ AfterPanelHide \/ UNCHANGED settingsVars
  PROVE  SettingsInv'
<1>1. SettingsTypeOK /\ SettingsHold /\ DefaultsAside /\ LastIsCurrent
  BY DEF SettingsInv
<1> USE DEF SettingsInv, SettingsHold, SettingsTypeOK, DefaultsKept, DefaultsAside, PageFollows,
            PreviewFollows, StylesFollow, ShownAgrees, LastIsCurrent, Selections, FetchSaved
<1>2. CASE AfterRender
  BY <1>1, <1>2 DEF AfterRender, chosenVars
<1>3. CASE OnUIOptionsComponentReady
  BY <1>1, <1>3 DEF OnUIOptionsComponentReady, shownVars
<1>4. CASE PreviewLoads
  BY <1>1, <1>4, DefaultsAreSettings DEF PreviewLoads, shownVars, chosenVars
<1>5. CASE TogglePanel
  BY <1>1, <1>5 DEF TogglePanel, shownVars, chosenVars
<1>6. CASE AfterPanelShow
  BY <1>1, <1>6, DefaultsAreSettings DEF AfterPanelShow, shownVars, chosenVars
<1>7. CASE AfterPanelHide
  BY <1>1, <1>7 DEF AfterPanelHide, shownVars, chosenVars
<1>8. CASE UNCHANGED settingsVars
  BY <1>1, <1>8 DEF settingsVars, shownVars, chosenVars
<1> QED
  BY <1>2, <1>3, <1>4, <1>5, <1>6, <1>7, <1>8

LEMMA SettingsStep ==
  ASSUME SettingsInv, [SettingsNext]_settingsVars
  PROVE  SettingsInv'
<1>1. ASSUME NEW typed \in 0 .. (MaxSize + 1) \cup {Odd, NoNumber}, TypeSize(typed)
      PROVE  SettingsInv'
  <2>1. Selections \in Setting
    BY DEF SettingsInv, SettingsTypeOK, Selections
  <2> QED
    BY <1>1, <2>1, TypedIsSetting, ChangeStep DEF TypeSize
<1>2. ASSUME CheckToc PROVE SettingsInv'
  <2>1. [Selections EXCEPT !.toc = ~@] \in Setting
    BY DEF SettingsInv, SettingsTypeOK, Selections, Setting
  <2> QED
    BY <1>2, <2>1, ChangeStep DEF CheckToc
<1> QED
  BY <1>1, <1>2, SaveStep, ResetStep, CancelStep, PreviewStep, QuietStep DEF SettingsNext

(* What is set is what the page, the preview and the cookie show:          *)
(* SettingsInv.                                                            *)
THEOREM SettingsInvariance == SettingsSpec => []SettingsInv
BY SettingsInitial, SettingsStep, PTL DEF SettingsSpec

(* The page follows what is saved or, in the panel, what is selected; the  *)
(* preview what is selected, however late its updates are; the site's      *)
(* defaults change only after Cancel has made them the model.              *)
THEOREM SettingsAreShown == SettingsSpec => []SettingsHold
<1>1. SettingsInv => SettingsHold
  BY DEF SettingsInv
<1> QED
  BY <1>1, SettingsInvariance, PTL

-------------------------------------------------------------------------------
(* The selectable container: the handlers that a move of the focus runs    *)
(* leave one item drawn and one stop for Tab, in whatever state they were  *)
(* run, and so does a list that is read again.                             *)

(* The place of an item in a list, or 0.                                   *)
PlaceIn(list, item) == SelectInSeq(list, LAMBDA i : i = item)

LEMMA PlaceOf ==
  ASSUME NEW list \in Lists, NEW item \in Item
  PROVE  \/ PlaceIn(list, item) = 0 /\ item \notin ToSet(list)
         \/ PlaceIn(list, item) \in 1 .. Len(list) /\ list[PlaceIn(list, item)] = item
<1> DEFINE I == {i \in 1 .. Len(list) : list[i] = item}
<1> DEFINE place == PlaceIn(list, item)
<1>1. Len(list) \in Nat /\ DOMAIN list = 1 .. Len(list)
  BY SelectionAssumption DEF Lists
<1>2. CASE I = {}
  <2>1. place = 0
    BY <1>2 DEF SelectInSeq, PlaceIn
  <2>2. item \notin ToSet(list)
    BY <1>1, <1>2 DEF ToSet
  <2> QED
    BY <2>1, <2>2
<1>3. CASE I # {}
  <2>1. place = Min(I)
    BY <1>3 DEF SelectInSeq, PlaceIn
  <2>2. \E m \in I : \A j \in I : m <= j
    <3>1. I \subseteq Nat
      BY <1>1
    <3> QED
      BY <1>3, <3>1, HasMinimum
  <2>3. place \in I
    BY <2>1, <2>2 DEF Min
  <2> QED
    BY <2>3
<1> QED
  BY <1>2, <1>3

(* A state of the handlers in which only what has the focus is drawn or a  *)
(* stop; and one that agrees with a list.                                  *)
Tidy(s, items) ==
  /\ s \in [index : Int, drawn : SUBSET items, stops : SUBSET items,
            focused : items \cup {Container, Elsewhere}]
  /\ s.drawn \subseteq {s.focused} /\ s.stops \subseteq {s.focused}
Points(s, list) ==
  s.focused \in ToSet(list) /\ s.index # NO_SELECTION =>
    s.drawn = {s.focused} /\ SelectedElement(list, s.index) = {s.focused}

(* The focus goes to an item.                                              *)
LEMMA FocusTidies ==
  ASSUME NEW list \in Lists, NEW s, Tidy(s, known), known \subseteq Item, NEW item \in Item
  PROVE  LET f == FocusItem(list, s, item)
         IN  Tidy(f, known \cup {item}) /\ Points(f, list) /\ f.focused = item
<1> DEFINE place == PlaceIn(list, item)
<1> DEFINE marked == [s EXCEPT !.stops = @ \cup {item}]
<1> DEFINE old == SelectedElement(list, s.index)
<1> DEFINE a == FocusHandler(list, s, item)
<1> DEFINE f == FocusItem(list, s, item)
<1>1. Len(list) \in Nat
  BY SelectionAssumption DEF Lists
<1>2. /\ s.index \in Int /\ s.drawn \subseteq known /\ s.stops \subseteq known
      /\ s.focused \in known \cup {Container, Elsewhere}
      /\ s.drawn \subseteq {s.focused} /\ s.stops \subseteq {s.focused}
  BY DEF Tidy
<1>11. \/ place = 0 /\ item \notin ToSet(list)
       \/ place \in 1 .. Len(list) /\ list[place] = item
  BY PlaceOf
<1>12. marked.index = s.index
  BY DEF Tidy
<1>13. a = IF place = 0 THEN [marked EXCEPT !.drawn = @ \ old]
          ELSE [[marked EXCEPT !.drawn = @ \ old] EXCEPT !.index = place - 1, !.drawn = @ \cup {item}]
  BY <1>12 DEF FocusHandler, SelectElement, UnselectElement, PlaceIn
<1>14. f = [(IF s.focused \in known \ {item}
            THEN [[a EXCEPT !.stops = @ \ {s.focused}] EXCEPT !.drawn = @ \ {s.focused}]
            ELSE a) EXCEPT !.focused = item]
  BY DEF FocusItem, BlurHandler, UnselectElement
<1> HIDE DEF a, f, place, old
<1>3. /\ a.focused = s.focused /\ a.stops = s.stops \cup {item}
      /\ a \in [index : Int, drawn : SUBSET (known \cup {item}),
                stops : SUBSET (known \cup {item}), focused : known \cup {Container, Elsewhere}]
      /\ \/ item \notin ToSet(list) /\ a.drawn = s.drawn \ old
         \/ a.drawn = (s.drawn \ old) \cup {item} /\ a.index # NO_SELECTION
            /\ SelectedElement(list, a.index) = {item}
  <2>3. CASE place = 0
    <3>1. item \notin ToSet(list)
      BY <1>1, <1>11, <2>3
    <3>2. a = [marked EXCEPT !.drawn = @ \ old]
      BY <1>13, <2>3
    <3>3. /\ a.focused = s.focused /\ a.stops = s.stops \cup {item} /\ a.drawn = s.drawn \ old
          /\ a \in [index : Int, drawn : SUBSET (known \cup {item}),
                    stops : SUBSET (known \cup {item}), focused : known \cup {Container, Elsewhere}]
      BY <3>2 DEF Tidy
    <3> QED
      BY <3>1, <3>3
  <2>4. CASE place # 0
    <3>1. place \in 1 .. Len(list) /\ list[place] = item
      BY <1>11, <2>4
    <3>2. a = [[marked EXCEPT !.drawn = @ \ old] EXCEPT !.index = place - 1, !.drawn = @ \cup {item}]
      BY <1>13, <2>4
    <3>3. place - 1 \in Int
      BY <1>1, <3>1
    <3>4. /\ a.focused = s.focused /\ a.stops = s.stops \cup {item} /\ a.index = place - 1
          /\ a.drawn = (s.drawn \ old) \cup {item}
          /\ a \in [index : Int, drawn : SUBSET (known \cup {item}),
                    stops : SUBSET (known \cup {item}), focused : known \cup {Container, Elsewhere}]
      BY <3>2, <3>3 DEF Tidy
    <3>5. a.index \in 0 .. Len(list) - 1 /\ a.index + 1 = place /\ a.index # NO_SELECTION
      BY <1>1, <3>1, <3>4 DEF NO_SELECTION
    <3>6. SelectedElement(list, a.index) = {item}
      BY <3>1, <3>5 DEF SelectedElement
    <3> QED
      BY <3>4, <3>5, <3>6
  <2> QED
    BY <2>3, <2>4
<1>5. /\ f.focused = item /\ f.index = a.index
      /\ f.stops = IF s.focused \in known \ {item} THEN a.stops \ {s.focused} ELSE a.stops
      /\ f.drawn = IF s.focused \in known \ {item} THEN a.drawn \ {s.focused} ELSE a.drawn
      /\ f \in [index : Int, drawn : SUBSET (known \cup {item}), stops : SUBSET (known \cup {item}),
                focused : known \cup {item} \cup {Container, Elsewhere}]
  BY <1>3, <1>14
<1>6. f.stops \subseteq {item} /\ f.drawn \subseteq {item}
  BY <1>2, <1>3, <1>5, SelectionAssumption
<1>7. Points(f, list)
  <2>1. CASE item \notin ToSet(list)
    BY <1>5, <2>1 DEF Points
  <2>2. CASE item \in ToSet(list)
    <3>1. item \in a.drawn /\ SelectedElement(list, a.index) = {item}
      BY <1>3, <2>2
    <3>2. f.drawn = {item}
      BY <1>5, <1>6, <3>1
    <3> QED
      BY <1>5, <3>1, <3>2 DEF Points
  <2> QED
    BY <2>1, <2>2
<1> QED
  BY <1>5, <1>6, <1>7 DEF Tidy, f

(* The focus leaves the items.                                             *)
LEMMA LeavingTidies ==
  ASSUME NEW s, Tidy(s, known), known \subseteq Item, NEW to \in {Container, Elsewhere}
  PROVE  LET l == LeaveItem(s, to)
         IN  /\ Tidy(l, known) /\ l.drawn = {} /\ l.stops = {} /\ l.focused = to
             /\ l.index = s.index
<1>1. LeaveItem(s, to) =
        [(IF s.focused \in known
          THEN [[s EXCEPT !.stops = @ \ {s.focused}] EXCEPT !.drawn = @ \ {s.focused}]
          ELSE s) EXCEPT !.focused = to]
  BY DEF LeaveItem, BlurHandler, UnselectElement
<1> DEFINE l == LeaveItem(s, to)
<1>2. /\ l.focused = to /\ l.index = s.index /\ l.drawn = {} /\ l.stops = {} /\ s.index \in Int
      /\ l \in [index : Int, drawn : SUBSET known, stops : SUBSET known,
                focused : known \cup {Container, Elsewhere}]
  <2>1. CASE s.focused \in known
    BY <1>1, <2>1 DEF Tidy
  <2>2. CASE s.focused \notin known
    BY <1>1, <2>2 DEF Tidy
  <2> QED
    BY <2>1, <2>2
<1> HIDE DEF l
<1> QED
  BY <1>2 DEF Tidy, l

LEMMA SelectedIsItem ==
  ASSUME NEW list \in Lists, NEW i \in Int
  PROVE  /\ Len(list) \in Nat /\ SelectedElement(list, i) \subseteq ToSet(list)
         /\ ToSet(list) \subseteq Item
         /\ i \in 0 .. Len(list) - 1 => SelectedElement(list, i) = {list[i + 1]} /\ list[i + 1] \in Item
                                        /\ list[i + 1] \in ToSet(list)
         /\ Len(list) = 0 => ToSet(list) = {}
<1>1. Len(list) \in Nat /\ DOMAIN list = 1 .. Len(list) /\ \A k \in 1 .. Len(list) : list[k] \in Item
  BY SelectionAssumption DEF Lists
<1>2. i \in 0 .. Len(list) - 1 => i + 1 \in 1 .. Len(list)
  BY <1>1
<1>3. ToSet(list) = {list[k] : k \in 1 .. Len(list)}
  BY <1>1 DEF ToSet
<1> QED
  BY <1>1, <1>2, <1>3 DEF SelectedElement

LEMMA ReifyTidies ==
  ASSUME NEW list \in Lists, NEW s, Tidy(s, known), known \subseteq Item
  PROVE  LET r == ReifyIndex(list, s)
         IN  Tidy(r, known \cup ToSet(list)) /\ Points(r, list)
<1> DEFINE n == Len(list)
<1> DEFINE i == IF s.index >= n THEN 0
                ELSE IF s.index < 0 /\ s.index # NO_SELECTION THEN n - 1 ELSE s.index
<1> DEFINE t == [s EXCEPT !.index = i]
<1>1. n \in Nat /\ s.index \in Int /\ ToSet(list) \subseteq Item
  BY SelectedIsItem DEF Tidy
<1>2. i \in Int /\ (i \notin 0 .. n - 1 => i = NO_SELECTION \/ n = 0)
  BY <1>1 DEF NO_SELECTION
<1>3. ReifyIndex(list, s) = IF i \in 0 .. n - 1 THEN FocusItem(list, t, list[i + 1]) ELSE t
  BY DEF ReifyIndex
<1>4. Tidy(t, known) /\ t.index = i /\ t.focused = s.focused
  BY <1>2 DEF Tidy
<1> HIDE DEF t, i
<1>5. CASE i \in 0 .. n - 1
  <2>1. list[i + 1] \in Item /\ list[i + 1] \in ToSet(list)
    BY <1>2, <1>5, SelectedIsItem
  <2> DEFINE item == list[i + 1]
  <2> DEFINE r == FocusItem(list, t, item)
  <2> HIDE DEF item
  <2>2. Tidy(r, known \cup {item}) /\ Points(r, list)
    BY <1>4, <2>1, FocusTidies DEF item
  <2>3. known \cup {item} \subseteq known \cup ToSet(list)
    BY <2>1 DEF item
  <2> HIDE DEF r
  <2>4. Tidy(r, known \cup ToSet(list))
    BY <2>2, <2>3 DEF Tidy
  <2> QED
    BY <1>3, <1>5, <2>2, <2>4 DEF r, item
<1>6. CASE i \notin 0 .. n - 1
  <2>1. ToSet(list) = {} \/ t.index = NO_SELECTION
    BY <1>1, <1>2, <1>4, <1>6, SelectedIsItem
  <2>2. Points(t, list)
    BY <2>1 DEF Points
  <2>3. Tidy(t, known \cup ToSet(list))
    BY <1>4 DEF Tidy
  <2> QED
    BY <1>3, <1>6, <2>2, <2>3
<1> QED
  BY <1>5, <1>6

LEMMA NowIsTidy ==
  ASSUME SelectionInv
  PROVE  /\ Tidy(Now, known) /\ Points(Now, selectables) /\ known \subseteq Item
         /\ selectables \in Lists /\ ToSet(selectables) \subseteq known
         /\ Now.index = activeItemIndex /\ Now.focused = focused /\ activeItemIndex \in Int
         /\ leaving \in BOOLEAN /\ (leaving => focused = Container)
BY DEF SelectionInv, SelectionTypeOK, SelectionHolds, Now, Tidy, Points

LEMMA TidyInv ==
  ASSUME NEW s, Tidy(s, known'), Points(s, selectables'), Becomes(s),
         selectables' \in Lists, known' \subseteq Item, ToSet(selectables') \subseteq known',
         leaving' \in BOOLEAN, leaving' => s.focused = Container
  PROVE  SelectionInv'
<1>1. activeItemIndex' = s.index /\ drawn' = s.drawn /\ tabStops' = s.stops /\ focused' = s.focused
  BY DEF Becomes
<1>2. SelectionTypeOK'
  BY <1>1 DEF SelectionTypeOK, Tidy
<1>3. SelectionHolds'
  BY <1>1 DEF SelectionHolds, Tidy, Points
<1> QED
  BY <1>2, <1>3 DEF SelectionInv

(* What is not an item is in no list.                                      *)
LEMMA OutsidePoints ==
  ASSUME NEW list \in Lists, NEW s, s.focused \in {Container, Elsewhere}
  PROVE  Points(s, list)
<1>1. ToSet(list) \subseteq Item
  BY SelectedIsItem
<1> QED
  BY <1>1, SelectionAssumption DEF Points

LEMMA SelectionInitial == SelectionInit => SelectionInv
<1> SUFFICES ASSUME SelectionInit PROVE SelectionInv
  OBVIOUS
<1>1. selectables \in Lists /\ ToSet(selectables) \subseteq Item
  BY SelectedIsItem DEF SelectionInit
<1>2. SelectionTypeOK
  <2>1. activeItemIndex \in Int
    BY DEF SelectionInit, NO_SELECTION
  <2>2. /\ known = ToSet(selectables) /\ drawn = {} /\ tabStops = {} /\ leaving = FALSE
        /\ focused = Elsewhere
    BY DEF SelectionInit
  <2> QED
    BY <1>1, <2>1, <2>2 DEF SelectionTypeOK
<1>3. SelectionHolds
  BY <1>1, SelectionAssumption DEF SelectionInit, SelectionHolds
<1> QED
  BY <1>2, <1>3 DEF SelectionInv

LEMMA ArrowStep ==
  ASSUME SelectionInv, NEW step \in {-1, 1}, ArrowKey(step)
  PROVE  SelectionInv'
<1> DEFINE active == SelectedElement(selectables, Now.index)
<1> DEFINE p == PrepareShift(Now)
<1> DEFINE s == [p EXCEPT !.index = @ + step]
<1> DEFINE r == ReifyIndex(selectables, s)
<1>1. /\ Becomes(r) /\ selectables' = selectables /\ known' = known
      /\ leaving' = IF focused = Container /\ focused' # Container THEN FALSE ELSE leaving
  BY DEF ArrowKey
<1>2. /\ Tidy(Now, known) /\ known \subseteq Item /\ selectables \in Lists
      /\ ToSet(selectables) \subseteq known /\ Now.index \in Int
      /\ Now.focused = focused /\ leaving \in BOOLEAN /\ (leaving => focused = Container)
  BY NowIsTidy
<1> DEFINE now == Now
<1> DEFINE gone == [now EXCEPT !.stops = @ \ active, !.drawn = @ \ active,
                       !.focused = IF @ \in active THEN Elsewhere ELSE @]
<1>3. p = [gone EXCEPT !.index = IF @ = NO_SELECTION THEN -1 ELSE @]
  BY DEF PrepareShift
<1> HIDE DEF now, active, p, r
<1>4. Tidy(gone, known)
  BY <1>2 DEF Tidy, now
<1> HIDE DEF gone
<1>5. Tidy(p, known)
  BY <1>3, <1>4 DEF Tidy
<1>6. Tidy(s, known)
  BY <1>5 DEF Tidy
<1> HIDE DEF s
<1>7. Tidy(r, known \cup ToSet(selectables)) /\ Points(r, selectables)
  BY <1>2, <1>6, ReifyTidies DEF r
<1>8. known \cup ToSet(selectables) = known
  BY <1>2
<1>9. focused' = r.focused
  BY <1>1 DEF Becomes
<1>10. leaving' \in BOOLEAN /\ (leaving' => r.focused = Container)
  BY <1>1, <1>2, <1>9
<1> QED
  BY <1>1, <1>2, <1>7, <1>8, <1>10, TidyInv

LEMMA TabStep ==
  ASSUME SelectionInv, NEW shift \in BOOLEAN, TabKey(shift)
  PROVE  SelectionInv'
<1> DEFINE returns == shift /\ focused # Container
<1> DEFINE to == IF returns THEN Container ELSE Elsewhere
<1> DEFINE c == CleanedUp(Now)
<1> DEFINE l == LeaveItem(c, to)
<1>1. Becomes(l) /\ leaving' = returns /\ selectables' = selectables /\ known' = known
  BY DEF TabKey
<1>2. /\ Tidy(Now, known) /\ known \subseteq Item /\ selectables \in Lists
      /\ ToSet(selectables) \subseteq known
  BY NowIsTidy
<1> DEFINE now == Now
<1> DEFINE erased == [now EXCEPT !.drawn = @ \ SelectedElement(selectables, now.index)]
<1>3. c = IF RememberSelectionState THEN erased ELSE [erased EXCEPT !.index = NO_SELECTION]
  BY DEF CleanedUp, UnselectElement
<1> HIDE DEF now, c
<1>4. Tidy(erased, known)
  BY <1>2 DEF Tidy, now
<1> HIDE DEF erased
<1>5. Tidy([erased EXCEPT !.index = NO_SELECTION], known)
  BY <1>4 DEF Tidy, NO_SELECTION
<1>6. Tidy(c, known)
  BY <1>3, <1>4, <1>5
<1> HIDE DEF l
<1>7. Tidy(l, known) /\ l.focused = to
  <2>1. to \in {Container, Elsewhere}
    OBVIOUS
  <2> HIDE DEF to
  <2> QED
    BY <1>2, <1>6, <2>1, LeavingTidies DEF l
<1>8. Points(l, selectables)
  BY <1>2, <1>7, OutsidePoints
<1>9. leaving' \in BOOLEAN /\ (leaving' => l.focused = Container)
  BY <1>1, <1>7
<1> QED
  BY <1>1, <1>2, <1>7, <1>8, <1>9, TidyInv

LEMMA EnterStep ==
  ASSUME SelectionInv, EnterContainer
  PROVE  SelectionInv'
<1> DEFINE at == IF activeItemIndex = NO_SELECTION THEN 0 ELSE activeItemIndex
<1> DEFINE l == LeaveItem(Now, Container)
<1> DEFINE s == [l EXCEPT !.index = at]
<1> DEFINE to == SelectedElement(selectables, at)
<1> DEFINE r == IF to = {} THEN s ELSE FocusItem(selectables, s, CHOOSE i \in to : TRUE)
<1>1. Becomes(r) /\ leaving' = FALSE /\ selectables' = selectables /\ known' = known
  BY DEF EnterContainer
<1>2. /\ Tidy(Now, known) /\ known \subseteq Item /\ selectables \in Lists
      /\ ToSet(selectables) \subseteq known /\ activeItemIndex \in Int
  BY NowIsTidy
<1>3. Tidy(l, known) /\ l.focused = Container
  BY <1>2, LeavingTidies
<1>4. at \in Int /\ to \subseteq ToSet(selectables)
  BY <1>2, SelectedIsItem
<1> HIDE DEF l, at, to
<1>5. Tidy(s, known) /\ s.focused = Container
  BY <1>3, <1>4 DEF Tidy
<1> HIDE DEF s
<1>6. CASE to = {}
  <2>1. r = s
    BY <1>6
  <2>2. Points(s, selectables)
    BY <1>2, <1>5, OutsidePoints
  <2> QED
    BY <1>1, <1>2, <1>5, <2>1, <2>2, TidyInv
<1>7. CASE to # {}
  <2> DEFINE item == CHOOSE i \in to : TRUE
  <2>1. item \in to
    BY <1>7
  <2>2. r = FocusItem(selectables, s, item)
    BY <1>7
  <2> HIDE DEF item, r
  <2>3. item \in Item /\ known \cup {item} = known
    BY <1>2, <1>4, <2>1
  <2>4. Tidy(r, known) /\ Points(r, selectables)
    BY <1>2, <1>5, <2>2, <2>3, FocusTidies
  <2> QED
    BY <1>1, <1>2, <2>4, TidyInv
<1> QED
  BY <1>6, <1>7

LEMMA FocusStep ==
  ASSUME SelectionInv, NEW i \in Item, FocusOn(i)
  PROVE  SelectionInv'
<1>1. /\ i \in known /\ Becomes(FocusItem(selectables, Now, i)) /\ leaving' = FALSE
      /\ selectables' = selectables /\ known' = known
  BY DEF FocusOn
<1>2. /\ Tidy(Now, known) /\ known \subseteq Item /\ selectables \in Lists
      /\ ToSet(selectables) \subseteq known
  BY NowIsTidy
<1>3. known \cup {i} = known
  BY <1>1
<1> DEFINE r == FocusItem(selectables, Now, i)
<1>4. Tidy(r, known) /\ Points(r, selectables)
  BY <1>2, <1>3, FocusTidies
<1> HIDE DEF r
<1>5. Becomes(r)
  BY <1>1 DEF r
<1> QED
  BY <1>1, <1>2, <1>4, <1>5, TidyInv

LEMMA LeaveStep ==
  ASSUME SelectionInv, LeaveContainer
  PROVE  SelectionInv'
<1> DEFINE l == LeaveItem(Now, Elsewhere)
<1>1. Becomes(l) /\ leaving' = FALSE /\ selectables' = selectables /\ known' = known
  BY DEF LeaveContainer
<1>2. /\ Tidy(Now, known) /\ known \subseteq Item /\ selectables \in Lists
      /\ ToSet(selectables) \subseteq known
  BY NowIsTidy
<1>3. Tidy(l, known) /\ l.focused = Elsewhere
  BY <1>2, LeavingTidies
<1> HIDE DEF l
<1>4. Points(l, selectables)
  BY <1>2, <1>3, OutsidePoints
<1> QED
  BY <1>1, <1>2, <1>3, <1>4, TidyInv

(* The list is read again: whatever has become of the items, the focus and *)
(* the selection go to the one at the active place.                        *)
LEMMA RereadStep ==
  ASSUME SelectionInv, NEW list \in Lists, Reread(list)
  PROVE  SelectionInv'
<1> DEFINE now == Now
<1> DEFINE s == [now EXCEPT !.stops = @ \ ToSet(list)]
<1> DEFINE r == ReifyIndex(list, s)
<1>1. /\ Becomes(r) /\ selectables' = list /\ known' = known \cup ToSet(list)
      /\ leaving' = IF focused = Container /\ focused' # Container THEN FALSE ELSE leaving
  BY DEF Reread
<1>2. /\ Tidy(Now, known) /\ known \subseteq Item
      /\ leaving \in BOOLEAN /\ (leaving => focused = Container)
  BY NowIsTidy
<1> HIDE DEF now, r
<1>3. Tidy(s, known)
  BY <1>2 DEF Tidy, now
<1> HIDE DEF s
<1>4. Tidy(r, known \cup ToSet(list)) /\ Points(r, list)
  BY <1>2, <1>3, ReifyTidies DEF r
<1>5. known' \subseteq Item
  BY <1>1, <1>2, SelectedIsItem
<1>6. focused' = r.focused
  BY <1>1 DEF Becomes
<1>7. leaving' \in BOOLEAN /\ (leaving' => r.focused = Container)
  BY <1>1, <1>2, <1>6
<1> QED
  BY <1>1, <1>4, <1>5, <1>7, TidyInv

LEMMA SelectionStep ==
  ASSUME SelectionInv, [SelectionNext]_selectionVars
  PROVE  SelectionInv'
<1>1. CASE UNCHANGED selectionVars
  BY <1>1 DEF selectionVars, SelectionInv, SelectionTypeOK, SelectionHolds, SelectedElement
<1>2. CASE SelectionNext
  BY <1>2, ArrowStep, TabStep, EnterStep, FocusStep, LeaveStep, RereadStep DEF SelectionNext
<1> QED
  BY <1>1, <1>2

(* Only the item that has the focus is drawn or a stop: SelectionInv.      *)
THEOREM SelectionInvariance == SelectionSpec => []SelectionInv
BY SelectionInitial, SelectionStep, PTL DEF SelectionSpec

(* The selection follows the focus through keys, clicks, and lists that    *)
(* are read again.                                                         *)
THEOREM SelectionFollowsFocus == SelectionSpec => []SelectionHolds
<1>1. SelectionInv => SelectionHolds
  BY DEF SelectionInv
<1> QED
  BY <1>1, SelectionInvariance, PTL

-------------------------------------------------------------------------------
(* Dragging: where a pointer puts what is dragged, inside its containment  *)
(* and on its grid, and what a drag keeps of the one before it.            *)

(* A step of the grid is never further than half a step away.              *)
LEMMA Rounded ==
  ASSUME NEW n \in Int
  PROVE  /\ Round(n) \in Int
         /\ \E k \in Int : Round(n) = Grid * k
         /\ 2 * Round(n) <= 2 * n + Grid /\ 2 * n + Grid < 2 * Round(n) + 2 * Grid
<1> DEFINE x == 2 * n + Grid
           d == 2 * Grid
           q == x \div d
<1>1. Grid \in Int /\ Grid > 0 /\ x \in Int /\ d \in Int /\ d > 0
  BY DragAssumption
<1>2. x % d \in 0 .. d - 1 /\ q \in Int /\ x = d * q + (x % d)
  BY <1>1, Quotients
<1>3. Round(n) = q * Grid
  BY DEF Round
<1> HIDE DEF q, x
<1>4. q * Grid = Grid * q /\ d * q = 2 * (q * Grid) /\ q * Grid \in Int
  BY <1>1, <1>2
<1>5. 2 * Round(n) <= x /\ x < 2 * Round(n) + d
  BY <1>1, <1>2, <1>3, <1>4
<1> QED
  BY <1>2, <1>3, <1>4, <1>5 DEF x

Multiple(n) == \E k \in Int : n = Grid * k

LEMMA NextMultiple ==
  ASSUME NEW n \in Int, Multiple(n)
  PROVE  Multiple(n + Grid) /\ Multiple(n - Grid) /\ n % Grid = 0
<1>1. PICK k \in Int : n = Grid * k
  BY DEF Multiple
<1>2. Grid \in Int /\ Grid > 0
  BY DragAssumption
<1>3. Grid * (k + 1) = Grid * k + Grid /\ Grid * (k - 1) = Grid * k - Grid
  BY <1>2
<1>4. k + 1 \in Int /\ k - 1 \in Int
  OBVIOUS
<1> QED
  BY <1>1, <1>2, <1>3, <1>4, ProductsHaveNoRest DEF Multiple

LEMMA Contained ==
  ASSUME NEW x \in Int, NEW offset \in Int, NEW inside \in BOOLEAN
  PROVE  /\ Contain(x, offset, inside) \in Int
         /\ inside => Contain(x, offset, inside) - offset \in Low .. High
         /\ (~inside \/ x - offset \in Low .. High) => Contain(x, offset, inside) = x
<1> DEFINE c == Contain(x, offset, inside)
<1> HIDE DEF c
<1>1. Low \in Int /\ High \in Int /\ Low <= High
  BY DragAssumption
<1>2. CASE inside /\ x - offset < Low
  <2>1. c = Low + offset
    BY <1>1, <1>2 DEF Contain, c
  <2>2. c \in Int /\ c - offset \in Low .. High
    BY <1>1, <2>1
  <2>3. ~(~inside \/ x - offset \in Low .. High)
    BY <1>1, <1>2
  <2> QED
    BY <2>2, <2>3 DEF c
<1>3. CASE inside /\ x - offset > High
  <2>1. c = High + offset
    BY <1>1, <1>3 DEF Contain, c
  <2>2. c \in Int /\ c - offset \in Low .. High
    BY <1>1, <2>1
  <2>3. ~(~inside \/ x - offset \in Low .. High)
    BY <1>1, <1>3
  <2> QED
    BY <2>2, <2>3 DEF c
<1>4. CASE ~inside \/ x - offset \in Low .. High
  <2>1. c = x
    BY <1>1, <1>4 DEF Contain, c
  <2> QED
    BY <1>1, <1>4, <2>1 DEF c
<1> QED
  BY <1>1, <1>2, <1>3, <1>4

(* A step of the grid that the containment cuts is still a step of it.     *)
LEMMA Stepped ==
  ASSUME NEW x \in Int, NEW offset \in Int, NEW start \in Int, NEW inside \in BOOLEAN
  PROVE  LET to == OnGrid(x, offset, start, inside)
         IN  /\ to \in Int /\ Multiple(to - start)
             /\ inside /\ x - offset \in Low .. High /\ High - Low >= Grid - 1 =>
                  to - offset \in Low .. High
<1> DEFINE r  == Round(x - start)
           to == start + r
           g  == OnGrid(x, offset, start, inside)
<1> HIDE DEF r, g
<1> SUFFICES /\ g \in Int /\ Multiple(g - start)
             /\ inside /\ x - offset \in Low .. High /\ High - Low >= Grid - 1 =>
                  g - offset \in Low .. High
  BY DEF g
<1>1. Low \in Int /\ High \in Int /\ Low <= High /\ Grid \in Int /\ Grid > 0
  BY DragAssumption
<1>2. /\ r \in Int /\ Multiple(r)
      /\ 2 * r <= 2 * (x - start) + Grid /\ 2 * (x - start) + Grid < 2 * r + 2 * Grid
  BY Rounded DEF Multiple, r
<1>3. g = CASE inside /\ to - offset < Low  -> to + Grid
            [] inside /\ to - offset > High -> to - Grid
            [] OTHER                        -> to
  BY DEF OnGrid, r, g
<1>4. Multiple(r + Grid) /\ Multiple(r - Grid)
  BY <1>2, NextMultiple
<1>5. CASE inside /\ to - offset < Low
  <2>1. g = to + Grid
    BY <1>1, <1>2, <1>3, <1>5
  <2>2. g - start = r + Grid
    BY <1>1, <1>2, <2>1
  <2> QED
    BY <1>1, <1>2, <1>4, <1>5, <2>1, <2>2
<1>6. CASE inside /\ to - offset > High
  <2>1. g = to - Grid
    BY <1>1, <1>2, <1>3, <1>6
  <2>2. g - start = r - Grid
    BY <1>1, <1>2, <2>1
  <2> QED
    BY <1>1, <1>2, <1>4, <1>6, <2>1, <2>2
<1>7. CASE ~inside \/ to - offset \in Low .. High
  <2>1. g = to
    BY <1>1, <1>2, <1>3, <1>7
  <2>2. g - start = r
    BY <1>1, <1>2, <2>1
  <2> QED
    BY <1>1, <1>2, <1>7, <2>1, <2>2
<1> QED
  BY <1>1, <1>2, <1>5, <1>6, <1>7

LEMMA Generated ==
  ASSUME opt \in Option, NEW pointer \in Int, NEW offset \in Int, NEW first \in Int \cup {Unplaced},
         NEW start, first # Unplaced => start \in Int, NEW inside \in BOOLEAN
  PROVE  LET g == GeneratePosition(pointer, offset, first, start, inside)
         IN  /\ g \in Int
             /\ first = Unplaced => g = pointer - offset
             /\ first # Unplaced /\ ~opt.grid => (inside => g \in Low .. High)
             /\ first # Unplaced /\ opt.grid =>
                  /\ Multiple(g + offset - start)
                  /\ inside /\ Fits => g \in Low .. High
<1> DEFINE g == GeneratePosition(pointer, offset, first, start, inside)
           p == Contain(pointer, offset, inside)
           s == OnGrid(p, offset, start, inside)
<1> HIDE DEF g, p, s
<1>1. opt.grid \in BOOLEAN
  BY DEF Option
<1>2. /\ p \in Int
      /\ inside => p - offset \in Low .. High
  BY Contained DEF p
<1>3. CASE first = Unplaced
  <2>1. g = pointer - offset
    BY <1>3 DEF g, GeneratePosition
  <2> QED
    BY <1>3, <2>1 DEF g
<1>4. CASE first # Unplaced /\ ~opt.grid
  <2>1. g = p - offset
    BY <1>4 DEF g, p, GeneratePosition
  <2>2. g \in Int /\ (inside => g \in Low .. High)
    BY <1>2, <2>1
  <2> QED
    BY <1>4, <2>2 DEF g
<1>5. CASE first # Unplaced /\ opt.grid
  <2>1. g = s - offset
    BY <1>5 DEF g, p, s, GeneratePosition
  <2>2. start \in Int
    BY <1>5
  <2>3. /\ s \in Int /\ Multiple(s - start)
        /\ inside /\ p - offset \in Low .. High /\ High - Low >= Grid - 1 =>
             s - offset \in Low .. High
    BY <1>2, <2>2, Stepped DEF s
  <2>4. g \in Int /\ g + offset - start = s - start
    BY <2>1, <2>2, <2>3
  <2>5. inside /\ Fits => g \in Low .. High
    BY <1>2, <1>5, <2>1, <2>3 DEF Fits
  <2> QED
    BY <1>5, <2>3, <2>4, <2>5 DEF g
<1> QED
  BY <1>1, <1>3, <1>4, <1>5

(* Without a grid an element that is inside is put where it is.            *)
LEMMA StaysInPlace ==
  ASSUME ~opt.grid, NEW pointer \in Int, NEW offset \in Int, NEW first, first # Unplaced,
         NEW start, NEW inside \in BOOLEAN, pointer - offset \in Low .. High
  PROVE  GeneratePosition(pointer, offset, first, start, inside) = pointer - offset
<1>1. Contain(pointer, offset, inside) = pointer
  BY Contained
<1> QED
  BY <1>1 DEF GeneratePosition

LEMMA Snapped ==
  ASSUME NEW x \in Int
  PROVE  Snap(x) \in Int /\ (opt.snap = "no" => Snap(x) = x)
<1>1. Outer(x) \in Int
  <2>1. Outer(x) \in {x, Neighbour + Width, Neighbour - Width}
    BY DEF Outer
  <2> QED
    BY <2>1, DragAssumption
<1>2. Snap(x) \in {x, Neighbour, Outer(x)}
  BY DEF Snap, Inner
<1>3. opt.snap = "no" => Snap(x) = x
  BY DEF Snap
<1> QED
  BY <1>1, <1>2, <1>3, DragAssumption

(* A drag is measured from where it began.                                 *)
LEMMA Dragged ==
  ASSUME opt \in Option, edge \in Int, from' \in Int, click \in Int, original' \in Int,
         originalPage' = from' + click, containment' \in BOOLEAN,
         opt.contained => containment', NEW pointer \in Int, DragTo(pointer)
  PROVE  /\ helper' \in Int /\ edge' \in Int /\ snapping' \in BOOLEAN
         /\ opt.clone => edge' = edge
         /\ opt.snap = "no" =>
              /\ opt.contained /\ Fits => helper' \in Low .. High
              /\ opt.grid => (helper' - from') % Grid = 0
<1> DEFINE x == GeneratePosition(pointer, click, original', originalPage', containment')
<1> HIDE DEF x
<1>1. /\ helper' = Snap(x) /\ edge' = (IF opt.clone THEN edge ELSE Snap(x))
      /\ snapping' = (opt.snap # "no" /\ Snap(x) # x)
  BY DEF DragTo, Place, x
<1>2. original' # Unplaced /\ originalPage' \in Int
  BY DragAssumption
<1>3. /\ x \in Int
      /\ ~opt.grid => (containment' => x \in Low .. High)
      /\ opt.grid =>
           /\ Multiple(x + click - originalPage')
           /\ containment' /\ Fits => x \in Low .. High
  BY <1>2, Generated DEF x
<1>4. opt.grid => (x - from') % Grid = 0
  <2>1. x + click - originalPage' = x - from'
    BY <1>3
  <2> QED
    BY <1>3, <2>1, NextMultiple
<1>5. opt.grid \in BOOLEAN /\ opt.contained \in BOOLEAN /\ opt.clone \in BOOLEAN
  BY DEF Option
<1>6. Snap(x) \in Int /\ (opt.snap = "no" => Snap(x) = x)
  BY <1>3, Snapped
<1>7. helper' \in Int /\ edge' \in Int /\ snapping' \in BOOLEAN
  BY <1>1, <1>6
<1>8. opt.clone => edge' = edge
  BY <1>1
<1>9. opt.contained /\ Fits => x \in Low .. High
  BY <1>3, <1>5
<1> QED
  BY <1>1, <1>4, <1>6, <1>7, <1>8, <1>9

(* Before the first drag there is no position to adjust; later, what the   *)
(* last drag left leaves an element inside the containment where it is.    *)
LEMMA DragBegins ==
  ASSUME DragInv, phase = "pressed", Started
  PROVE  /\ original' \in Int /\ originalPage' = from' + click /\ from' = edge
         /\ originalPage' \in Int
         /\ containment' \in BOOLEAN /\ (opt.contained => containment')
         /\ containment' => opt.contained
         /\ back' = FALSE /\ saved' \in {"auto", "move"} /\ (~refused => saved' = "auto")
         /\ opt.revert /\ ~opt.grid => from' \in Low .. High /\ original' = from'
<1>1. /\ opt \in Option /\ edge \in Int /\ click \in Int /\ press = edge + click
      /\ original \in Int \cup {Unplaced} /\ originalPage \in Int \cup {Unplaced}
      /\ original # Unplaced => originalPage # Unplaced
      /\ containment \in BOOLEAN /\ (containment => opt.contained)
      /\ cursor \in {"auto", "move"} /\ (~refused => cursor = "auto")
      /\ opt.revert /\ ~opt.grid => edge \in Low .. High
  BY DEF DragInv, DragTypeOK, DragHolds, NothingLeft, UnderWay, Remembered, WayBack
<1>2. /\ original' = GeneratePosition(press, click, original, originalPage, containment)
      /\ originalPage' = press /\ from' = edge /\ back' = FALSE /\ saved' = cursor
      /\ containment' = (containment \/ opt.contained)
  BY DEF Started
<1>3. press \in Int /\ press - click = edge
  BY <1>1
<1>4. original # Unplaced => originalPage \in Int
  BY <1>1
<1> DEFINE g == GeneratePosition(press, click, original, originalPage, containment)
<1> HIDE DEF g
<1>5. /\ g \in Int
      /\ original = Unplaced => g = edge
      /\ original # Unplaced /\ ~opt.grid /\ edge \in Low .. High => g = edge
  <2>1. g \in Int /\ (original = Unplaced => g = press - click)
    BY <1>1, <1>3, <1>4, Generated DEF g
  <2>2. original # Unplaced /\ ~opt.grid /\ press - click \in Low .. High => g = press - click
    BY <1>1, <1>3, <1>4, StaysInPlace DEF g
  <2> QED
    BY <1>3, <2>1, <2>2
<1>6. opt.revert /\ ~opt.grid => g = edge
  BY <1>1, <1>5
<1>7. opt.contained \in BOOLEAN
  BY <1>1 DEF Option
<1>8. containment' \in BOOLEAN /\ (opt.contained => containment') /\ (containment' => opt.contained)
  BY <1>1, <1>2, <1>7
<1> QED
  BY <1>1, <1>2, <1>3, <1>5, <1>6, <1>8 DEF g

LEMMA DragInitial == DragInit => DragInv
<1> SUFFICES ASSUME DragInit PROVE DragInv
  OBVIOUS
<1>1. DragTypeOK
  <2>1. /\ opt \in Option /\ phase = "idle" /\ edge = Low /\ click = 0 /\ from = Low
        /\ helper = Unplaced /\ press = Unplaced /\ original = Unplaced /\ originalPage = Unplaced
        /\ containment = FALSE /\ snapping = FALSE /\ swallow = FALSE /\ back = FALSE
        /\ refused = FALSE /\ cursor = "auto" /\ saved = Unplaced
    BY DEF DragInit
  <2>2. edge \in Int /\ from \in Int /\ click \in Int
    BY <2>1, DragAssumption
  <2> QED
    BY <2>1, <2>2 DEF DragTypeOK
<1>2. DragHolds
  BY DEF DragInit, DragHolds, NothingLeft, StaysInside, ComesBack
<1>3. UnderWay /\ Remembered
  BY DEF DragInit, UnderWay, Remembered
<1>4. WayBack
  BY DragAssumption DEF DragInit, WayBack
<1> QED
  BY <1>1, <1>2, <1>3, <1>4 DEF DragInv

LEMMA PressStep ==
  ASSUME DragInv, NEW offset \in 0 .. (Width - 1), Press(offset)
  PROVE  DragInv'
<1>1. /\ phase = "idle" /\ phase' = "pressed" /\ press' = edge + offset /\ click' = offset
      /\ helper = Unplaced /\ swallow' = FALSE
      /\ UNCHANGED <<opt, edge, helper, original, originalPage, containment, snapping,
                     cursor, saved, from, back, refused>>
  BY DEF Press
<1>2. offset \in Int
  BY DragAssumption
<1>3. DragTypeOK /\ DragHolds /\ Remembered /\ WayBack
  BY DEF DragInv
<1>4. DragTypeOK'
  <2>1. press' \in Int \cup {Unplaced} /\ click' \in Int
    BY <1>1, <1>2, <1>3 DEF DragTypeOK
  <2> QED
    BY <1>1, <1>3, <2>1 DEF DragTypeOK
<1>5. DragHolds'
  BY <1>1, <1>3 DEF DragHolds, NothingLeft, StaysInside, ComesBack
<1>6. UnderWay'
  BY <1>1, <1>3 DEF UnderWay, DragHolds, ComesBack
<1>7. Remembered' /\ WayBack'
  BY <1>1, <1>3 DEF Remembered, WayBack
<1> QED
  BY <1>4, <1>5, <1>6, <1>7 DEF DragInv

LEMMA DragStartsStep ==
  ASSUME DragInv, NEW pointer \in Page, DragStarts(pointer)
  PROVE  DragInv'
<1>1. /\ phase = "pressed" /\ phase' = "dragging" /\ cursor' = "move" /\ Started /\ DragTo(pointer)
      /\ UNCHANGED <<opt, press, click, swallow, refused>>
  BY DEF DragStarts
<1>2. /\ original' \in Int /\ originalPage' = from' + click /\ from' = edge
      /\ originalPage' \in Int
      /\ containment' \in BOOLEAN /\ (opt.contained => containment')
      /\ containment' => opt.contained
      /\ back' = FALSE /\ saved' \in {"auto", "move"} /\ (~refused => saved' = "auto")
      /\ opt.revert /\ ~opt.grid => from' \in Low .. High /\ original' = from'
  BY <1>1, DragBegins
<1>3. DragTypeOK
  BY DEF DragInv
<1>4. pointer \in Int
  BY DragAssumption DEF Page
<1>5. /\ helper' \in Int /\ edge' \in Int /\ snapping' \in BOOLEAN
      /\ opt.clone => edge' = edge
      /\ opt.snap = "no" =>
           /\ opt.contained /\ Fits => helper' \in Low .. High
           /\ opt.grid => (helper' - from') % Grid = 0
  BY <1>1, <1>2, <1>3, <1>4, Dragged DEF DragTypeOK
<1>6. DragTypeOK'
  BY <1>1, <1>2, <1>3, <1>5 DEF DragTypeOK
<1>7. DragHolds'
  BY <1>1, <1>5 DEF DragHolds, NothingLeft, StaysInside, ComesBack, Fits
<1>8. UnderWay'
  BY <1>1, <1>2, DragAssumption DEF UnderWay
<1>9. Remembered' /\ WayBack'
  BY <1>1, <1>2, <1>5, DragAssumption DEF Remembered, WayBack
<1> QED
  BY <1>6, <1>7, <1>8, <1>9 DEF DragInv

LEMMA DragRefusedStep ==
  ASSUME DragInv, NEW pointer \in Page, DragRefused(pointer)
  PROVE  DragInv'
<1>1. /\ phase = "pressed" /\ phase' = "idle" /\ cursor' = "move" /\ refused' = TRUE /\ Started
      /\ UNCHANGED <<opt, edge, helper, press, click, snapping, swallow>>
  BY DEF DragRefused
<1>2. /\ original' \in Int /\ originalPage' = from' + click /\ from' = edge
      /\ originalPage' \in Int
      /\ containment' \in BOOLEAN /\ (containment' => opt.contained)
      /\ back' = FALSE /\ saved' \in {"auto", "move"}
  BY <1>1, DragBegins
<1>3. DragTypeOK /\ DragHolds /\ WayBack
  BY DEF DragInv
<1>4. DragTypeOK'
  BY <1>1, <1>2, <1>3 DEF DragTypeOK
<1>5. DragHolds'
  BY <1>1, <1>2, <1>3 DEF DragHolds, NothingLeft, StaysInside, ComesBack
<1>6. UnderWay'
  BY <1>1 DEF UnderWay
<1>7. Remembered' /\ WayBack'
  BY <1>1, <1>2, <1>3, DragAssumption DEF Remembered, WayBack
<1> QED
  BY <1>4, <1>5, <1>6, <1>7 DEF DragInv

LEMMA DragOnStep ==
  ASSUME DragInv, NEW pointer \in Page, Drag(pointer)
  PROVE  DragInv'
<1>1. /\ phase = "dragging" /\ DragTo(pointer)
      /\ UNCHANGED <<original, originalPage, containment>>
      /\ UNCHANGED <<opt, phase, press, click, cursor, saved, swallow, from, back, refused>>
  BY DEF Drag
<1>2. /\ DragTypeOK /\ UnderWay /\ Remembered /\ WayBack
  BY DEF DragInv
<1>3. pointer \in Int
  BY DragAssumption DEF Page
<1>4. /\ original' \in Int /\ originalPage' = from' + click /\ (opt.contained => containment')
      /\ from' \in Int /\ click \in Int /\ containment' \in BOOLEAN
  BY <1>1, <1>2 DEF DragTypeOK, UnderWay
<1>5. /\ helper' \in Int /\ edge' \in Int /\ snapping' \in BOOLEAN
      /\ opt.clone => edge' = edge
      /\ opt.snap = "no" =>
           /\ opt.contained /\ Fits => helper' \in Low .. High
           /\ opt.grid => (helper' - from') % Grid = 0
  BY <1>1, <1>2, <1>3, <1>4, Dragged DEF DragTypeOK
<1>6. DragTypeOK'
  BY <1>1, <1>2, <1>5 DEF DragTypeOK
<1>7. DragHolds'
  BY <1>1, <1>5 DEF DragHolds, NothingLeft, StaysInside, ComesBack, Fits
<1>8. UnderWay' /\ Remembered'
  BY <1>1, <1>2 DEF UnderWay, Remembered
<1>9. WayBack'
  BY <1>1, <1>2, <1>5 DEF WayBack
<1> QED
  BY <1>6, <1>7, <1>8, <1>9 DEF DragInv

LEMMA ReleaseStep ==
  ASSUME DragInv, NEW refuses \in BOOLEAN, NEW same \in BOOLEAN, Release(refuses, same)
  PROVE  DragInv'
<1>1. /\ phase = "dragging" /\ swallow' = same
      /\ \/ opt.revert /\ phase' = "reverting" /\ UNCHANGED <<helper, cursor>>
         \/ /\ ~opt.revert /\ cursor' = saved
            /\ \/ phase' = "kept" /\ helper' = helper
               \/ phase' = "idle" /\ helper' = Unplaced
      /\ UNCHANGED <<opt, edge, press, click, original, originalPage, containment,
                     snapping, saved, from, back, refused>>
  BY DEF Release, Stopped
<1>2. DragTypeOK /\ UnderWay /\ Remembered /\ WayBack
  BY DEF DragInv
<1>3. saved \in {"auto", "move"} /\ (~refused => saved = "auto")
  BY <1>1, <1>2 DEF DragTypeOK, UnderWay
<1>4. DragTypeOK'
  <2>1. helper' \in Int \cup {Unplaced} /\ cursor' \in {"auto", "move"}
    BY <1>1, <1>2, <1>3 DEF DragTypeOK
  <2> QED
    BY <1>1, <1>2, <2>1 DEF DragTypeOK
<1>5. DragHolds'
  BY <1>1, <1>2, <1>3 DEF DragHolds, NothingLeft, StaysInside, ComesBack, UnderWay
<1>6. UnderWay' /\ Remembered' /\ WayBack'
  BY <1>1, <1>2 DEF UnderWay, Remembered, WayBack
<1> QED
  BY <1>4, <1>5, <1>6 DEF DragInv

(* What was brought back is at its original position, and a clone has left *)
(* the element where it was.                                               *)
LEMMA RevertedStep ==
  ASSUME DragInv, NEW refuses \in BOOLEAN, Reverted(refuses)
  PROVE  DragInv'
<1>1. /\ phase = "reverting" /\ cursor' = saved /\ back' = TRUE
      /\ edge' = IF opt.clone THEN edge ELSE original
      /\ \/ phase' = "kept" /\ helper' = helper
         \/ phase' = "idle" /\ helper' = Unplaced
      /\ UNCHANGED <<opt, press, click, original, originalPage, containment, snapping,
                     saved, swallow, from, refused>>
  BY DEF Reverted, Stopped
<1>2. DragTypeOK /\ UnderWay /\ Remembered /\ WayBack
  BY DEF DragInv
<1>3. /\ saved \in {"auto", "move"} /\ (~refused => saved = "auto")
      /\ opt.revert /\ original \in Int
      /\ ~opt.grid => from \in Low .. High /\ original = from /\ (opt.clone => edge = from)
  BY <1>1, <1>2 DEF DragTypeOK, UnderWay, WayBack
<1>4. edge' \in Int /\ (~opt.grid => edge' = from)
  BY <1>1, <1>2, <1>3 DEF DragTypeOK
<1>5. DragTypeOK'
  <2>1. helper' \in Int \cup {Unplaced} /\ cursor' \in {"auto", "move"}
    BY <1>1, <1>2, <1>3 DEF DragTypeOK
  <2> QED
    BY <1>1, <1>2, <1>4, <2>1 DEF DragTypeOK
<1>6. DragHolds'
  BY <1>1, <1>3, <1>4 DEF DragHolds, NothingLeft, StaysInside, ComesBack
<1>7. UnderWay' /\ Remembered' /\ WayBack'
  BY <1>1, <1>2, <1>3, <1>4 DEF UnderWay, Remembered, WayBack
<1> QED
  BY <1>5, <1>6, <1>7 DEF DragInv

LEMMA QuietDragStep ==
  ASSUME DragInv, ReleasePressed \/ Click \/ UNCHANGED dragVars
  PROVE  DragInv'
<1>1. /\ phase' \in {phase, "idle"} /\ (phase' # phase => phase = "pressed")
      /\ swallow' \in {swallow, FALSE}
      /\ UNCHANGED <<opt, edge, helper, press, click, original, originalPage, containment,
                     snapping, cursor, saved, from, back, refused>>
  BY DEF ReleasePressed, Click, dragVars
<1>2. DragTypeOK /\ DragHolds /\ UnderWay /\ Remembered /\ WayBack
  BY DEF DragInv
<1>3. DragTypeOK'
  <2>1. phase' \in {"idle", "pressed", "dragging", "reverting", "kept"} /\ swallow' \in BOOLEAN
    BY <1>1, <1>2 DEF DragTypeOK
  <2> QED
    BY <1>1, <1>2, <2>1 DEF DragTypeOK
<1>4. DragHolds'
  BY <1>1, <1>2 DEF DragHolds, NothingLeft, StaysInside, ComesBack, UnderWay, Fits
<1>5. UnderWay' /\ Remembered' /\ WayBack'
  BY <1>1, <1>2 DEF UnderWay, Remembered, WayBack
<1> QED
  BY <1>3, <1>4, <1>5 DEF DragInv

LEMMA DragStep ==
  ASSUME DragInv, [DragNext]_dragVars
  PROVE  DragInv'
<1>1. CASE UNCHANGED dragVars
  BY <1>1, QuietDragStep
<1>2. CASE DragNext
  BY <1>2, PressStep, DragStartsStep, DragRefusedStep, DragOnStep, ReleaseStep, RevertedStep,
     QuietDragStep DEF DragNext
<1> QED
  BY <1>1, <1>2

(* A drag is measured from where it began, and an element that is always   *)
(* brought back is always inside its containment: DragInv.                 *)
THEOREM DragInvariance == DragSpec => []DragInv
BY DragInitial, DragStep, PTL DEF DragSpec

(* What is dragged stays inside a containment that it fits and on its      *)
(* grid, wherever the pointer goes; what is brought back is where it was,  *)
(* also when a later drag begins with what the one before it left; and     *)
(* nothing of a drag outlives it.                                          *)
THEOREM DragsStayInside == DragSpec => []DragHolds
<1>1. DragInv => DragHolds
  BY DEF DragInv
<1> QED
  BY <1>1, DragInvariance, PTL
===============================================================================
