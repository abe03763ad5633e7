--------------------------- MODULE ChangeApplier ---------------------------
(***************************************************************************)
(* The change applier of MyInfusion.js: changes to a shared model are      *)
(* requested directly or gathered in a transaction, pass the guards, and   *)
(* are told to the listeners of the changed paths.  Several transactions   *)
(* may be open at once; each works on a copy of the model it began with.   *)
(*                                                                         *)
(* Requests are synchronous.  Every path has a guard, whose verdict is     *)
(* free and which may itself change another path; one post-guard looks at  *)
(* the whole outcome.  Nested paths, thin appliers and changes requested   *)
(* by listeners are not represented.                                       *)
(***************************************************************************)
EXTENDS Naturals, FiniteSets

CONSTANTS Path, Value, Transaction, NoChange

VARIABLES
  model,
  ation,      \* of each open transaction: [new, changes, cancelled]
  view,       \* what the listener of each path was told last
  cull,       \* the option cullUnchanged
  guarded,    \* the guards are transactional
  overtaken   \* history: paths changed while a transaction was open

modelVars == <<model, ation, view, cull, guarded, overtaken>>

Model   == [Path -> Value]
Closed  == [new |-> NoChange, changes |-> {}, cancelled |-> FALSE]
Open(t) == ation[t] # Closed

(* The post-guard asks for two paths with different values.                *)
Allowed(m) == \E p, q \in Path : m[p] # m[q]

ModelInit ==
  /\ model \in {m \in Model : Allowed(m)}
  /\ view = model
  /\ ation = [t \in Transaction |-> Closed]
  /\ cull \in BOOLEAN /\ guarded \in BOOLEAN
  /\ overtaken = {}

(***************************************************************************)
(* isNullChange, applyChangeRequest, and telling the listeners.            *)
(***************************************************************************)
IsNullChange(m, request) == m[request.path] = request.value

ApplyChangeRequest(m, request) == [m EXCEPT ![request.path] = request.value]

FireModelChanged(new, paths) ==
  /\ view' = [p \in Path |-> IF p \in paths THEN new[p] ELSE view[p]]
  /\ overtaken' = IF \E t \in Transaction : ation'[t] # Closed
                  THEN overtaken \cup paths ELSE overtaken \ paths

(***************************************************************************)
(* A change inside a transaction.  by is the change the guard makes on its *)
(* own, or None; it passes no guard.                                       *)
(***************************************************************************)
Initiated == [new |-> model, changes |-> {}, cancelled |-> FALSE]

(* a bug: the guard's own change is applied and told to nobody.            *)
WithOwnUntold(a, by) ==
  IF by = NoChange THEN a ELSE [a EXCEPT !.new = ApplyChangeRequest(@, by)]
WithOwn(a, by) ==
  IF by = NoChange THEN a
  ELSE [a EXCEPT !.new = ApplyChangeRequest(@, by), !.changes = @ \cup {by.path}]

Requested(a, request, verdict, by) ==
  LET b == WithOwn(a, by)
  IN  IF cull /\ IsNullChange(model, request) THEN a
      ELSE IF ~verdict THEN [b EXCEPT !.cancelled = TRUE]
      ELSE IF b.cancelled \/ (cull /\ IsNullChange(b.new, request)) THEN b
      ELSE [b EXCEPT !.new = ApplyChangeRequest(@, request),
                     !.changes = @ \cup {request.path}]

(* The outcome replaces the whole model; only the changed paths are told.  *)
Committed(a) ==
  IF a.cancelled \/ (a.changes # {} /\ ~Allowed(a.new))
  THEN UNCHANGED <<model, view, overtaken>>
  ELSE model' = a.new /\ FireModelChanged(a.new, a.changes)

(***************************************************************************)
(* The operations.                                                         *)
(***************************************************************************)
Initiate(t) ==
  /\ ~Open(t)
  /\ ation' = [ation EXCEPT ![t] = Initiated]
  /\ UNCHANGED <<model, view, cull, guarded, overtaken>>

RequestIn(t, request, verdict, by) ==
  /\ Open(t)
  /\ ation' = [ation EXCEPT ![t] = Requested(@, request, verdict, by)]
  /\ UNCHANGED <<model, view, cull, guarded, overtaken>>

Commit(t) ==
  /\ Open(t)
  /\ ation' = [ation EXCEPT ![t] = Closed]
  /\ Committed(ation[t])
  /\ UNCHANGED <<cull, guarded>>

(* A direct request: a transaction of its own if the guard is a            *)
(* transactional one.                                                      *)
FireChangeRequest(request, verdict, by) ==
  /\ UNCHANGED <<ation, cull, guarded>>
  /\ IF guarded THEN Committed(Requested(Initiated, request, verdict, by))
     ELSE LET own   == WithOwn(Initiated, by)
              after == IF verdict
                       THEN [own EXCEPT !.new = ApplyChangeRequest(@, request),
                                        !.changes = @ \cup {request.path}]
                       ELSE own
          IN  model' = after.new /\ FireModelChanged(after.new, after.changes)

Request == [path : Path, value : Value]
Own(r)  == {own \in Request : own.path # r.path} \cup {NoChange}

ModelNext ==
  \/ \E t \in Transaction :
       Initiate(t) \/ Commit(t)
  \/ \E r \in Request, verdict \in BOOLEAN : \E by \in Own(r) :
       \/ FireChangeRequest(r, verdict, by)
       \/ \E t \in Transaction : RequestIn(t, r, verdict, by)

ModelSpec == ModelInit /\ [][ModelNext]_modelVars

-----------------------------------------------------------------------------
(* The model and its copies have a value on every path.                    *)
ModelTypeOK ==
  /\ model \in Model /\ view \in Model /\ overtaken \subseteq Path
  /\ cull \in BOOLEAN /\ guarded \in BOOLEAN
  /\ ation \in [Transaction -> [new : Model \cup {NoChange}, changes : SUBSET Path,
                                cancelled : BOOLEAN]]
  /\ \A t \in Transaction : Open(t) => ation[t].new \in Model

(* With transactional guards no order of requests, transactions and        *)
(* guards that change things themselves brings the model to a value the    *)
(* post-guard refuses, though transactions overwrite one another.          *)
ModelGuarded == guarded => Allowed(model)

(* A listener knows the value of its path, unless the path was changed     *)
(* while a transaction was open, whose commit then puts the old value back *)
(* without telling.                                                        *)
ListenersKnow == \A p \in Path \ overtaken : view[p] = model[p]

ModelHolds == ModelGuarded /\ ListenersKnow

(* What makes a commit harmless: the copy of an open transaction differs   *)
(* from the model only where the transaction or another one since has      *)
(* changed it, and a copy nothing was requested of may be committed        *)
(* without asking the post-guard.                                          *)
CopyFollows ==
  \A t \in Transaction : Open(t) =>
    \A p \in Path \ (ation[t].changes \cup overtaken) : ation[t].new[p] = model[p]

UntouchedAllowed ==
  guarded => \A t \in Transaction :
    Open(t) /\ ation[t].changes = {} => Allowed(ation[t].new)

ModelInv == ModelTypeOK /\ ModelHolds /\ CopyFollows /\ UntouchedAllowed
=============================================================================
