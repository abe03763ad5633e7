-------------------------- MODULE ServicesPageProofs ---------------------------
(***************************************************************************)
(* Proofs about the page of services.  What is shown of a service, and the *)
(* buttons of its row, do not depend on where in the table the row is, and *)
(* the invariant says nothing of the rows: their order is a fold over the  *)
(* moves of permuteDom, about which only the runs can tell.                *)
(***************************************************************************)
EXTENDS ServicesPage, TLAPS

LEMMA NoSuchRow == NoRow \notin Service
<1>1. \A s \in Service : s \in Int
  BY ServiceAssumption
<1>2. NoRow \notin Int
  BY MarkAssumption
<1> QED
  BY <1>1, <1>2

LEMMA TableInitial == TableInit => TableInv
<1> SUFFICES ASSUME TableInit PROVE TableInv
  OBVIOUS
<1>1. server \in [Service -> Orders \cup {Deleted}] /\ cell = server
  BY InitialAssumption DEF TableInit, Orders
<1>2. buttons = [s \in Service |-> s] /\ currentRow = NoRow
  BY DEF TableInit
<1>3. NoRow \notin Service
  BY NoSuchRow
<1> QED
  BY <1>1, <1>2, <1>3 DEF TableInv, Agree, OneConfirmation, AsideIsOwn

(* A page that is loaded shows what the server has and asks nothing.       *)
LEMMA Loading ==
  ASSUME server' \in [Service -> Orders \cup {Deleted}], Load(server')
  PROVE  TableInv'
<1>1. cell' = server' /\ buttons' = [s \in Service |-> s] /\ currentRow' = NoRow
  BY DEF Load
<1>2. NoRow \notin Service
  BY NoSuchRow
<1> QED
  BY <1>1, <1>2 DEF TableInv, Agree, OneConfirmation, AsideIsOwn, Orders

(* A request to move: the order that the page shows afterwards is the one  *)
(* the server has, or the reply tells nothing and the service is unsure.   *)
LEMMA Requesting ==
  ASSUME TableInv, NEW item, NEW at, NEW answer \in {"saved", "login", "refused", "cut", "lost"},
         UpdateRegisteredServiceOrder(item, at, answer), UNCHANGED confirm
  PROVE  TableInv'
<1> DEFINE order == NewOrder(at)
<1>1. order \in Orders
  BY DEF UpdateRegisteredServiceOrder
<1>2. /\ server' = [server EXCEPT ![item] = IF answer \in {"saved", "lost"} THEN order ELSE @]
      /\ cell' = [cell EXCEPT ![item] = IF answer \in {"saved", "login"} THEN order ELSE @]
  BY DEF UpdateRegisteredServiceOrder, Success
<1>3. unsure' = CASE answer = "saved" -> unsure \ {item}
                  [] answer \in {"login", "lost"} -> unsure \cup {item}
                  [] OTHER -> unsure
  BY DEF UpdateRegisteredServiceOrder
<1>4. {server, cell} \subseteq [Service -> Orders \cup {Deleted}] /\ Agree
  BY DEF TableInv
<1> HIDE DEF order
<1>5. {server', cell'} \subseteq [Service -> Orders \cup {Deleted}]
  BY <1>1, <1>2, <1>4
<1>6. Agree'
  <2> SUFFICES ASSUME NEW s \in Service, cell'[s] # server'[s]
               PROVE  s \in unsure'
    BY DEF Agree
  <2>1. CASE s # item
    <3>1. cell'[s] = cell[s] /\ server'[s] = server[s]
      BY <1>2, <1>4, <2>1
    <3>2. s \in unsure
      BY <1>4, <3>1 DEF Agree
    <3> QED
      BY <1>3, <2>1, <3>2
  <2>2. CASE s = item /\ answer = "saved"
    <3>1. cell'[s] = order /\ server'[s] = order
      BY <1>2, <1>4, <2>2
    <3> QED
      BY <3>1
  <2>3. CASE s = item /\ answer \in {"login", "lost"}
    BY <1>3, <2>3
  <2>4. CASE s = item /\ answer \in {"refused", "cut"}
    <3>1. cell'[s] = cell[s] /\ server'[s] = server[s]
      BY <1>2, <1>4, <2>4
    <3>2. s \in unsure
      BY <1>4, <3>1 DEF Agree
    <3> QED
      BY <1>3, <2>4, <3>2
  <2> QED
    BY <2>1, <2>2, <2>3, <2>4
<1>7. currentRow' = currentRow /\ editInnerHTML' = editInnerHTML /\ buttons' = buttons
  BY DEF confirm
<1> QED
  BY <1>5, <1>6, <1>7 DEF TableInv, OneConfirmation, AsideIsOwn

(* What says nothing to the server leaves all of it alone.                 *)
LEMMA NothingAsked ==
  ASSUME TableInv, UNCHANGED <<server, cell, unsure, confirm>>
  PROVE  TableInv'
BY DEF TableInv, Agree, OneConfirmation, AsideIsOwn, Orders, confirm

(* With its question taken back, every row shows its own buttons.          *)
LEMMA RestoredIsOwn ==
  ASSUME TableInv
  PROVE  Restored = [s \in Service |-> s]
<1>1. CASE currentRow = NoRow
  <2>1. NoRow \notin Service
    BY NoSuchRow
  <2>2. Restored = buttons /\ \A s \in Service : buttons[s] = s
    BY <1>1, <2>1 DEF TableInv, OneConfirmation, Restored
  <2>3. buttons \in [Service -> Service \cup {Really}]
    BY DEF TableInv
  <2> QED
    BY <2>2, <2>3
<1>2. CASE currentRow # NoRow
  <2>1. Restored = [buttons EXCEPT ![currentRow] = currentRow]
    BY <1>2 DEF Restored, TableInv, AsideIsOwn
  <2>2. buttons \in [Service -> Service \cup {Really}] /\ currentRow \in Service
    BY <1>2 DEF TableInv
  <2>3. \A s \in Service : s # currentRow => buttons[s] = s
    BY DEF TableInv, OneConfirmation
  <2>4. Restored = [s \in Service |-> IF s = currentRow THEN currentRow ELSE buttons[s]]
    BY <2>1, <2>2
  <2> QED
    BY <2>3, <2>4
<1> QED
  BY <1>1, <1>2

LEMMA TableStep ==
  ASSUME TableInv, [TableNext]_tableVars
  PROVE  TableInv'
<1> USE DEF TableInv
<1>1. CASE UNCHANGED tableVars
  BY <1>1, NothingAsked DEF tableVars
<1>2. ASSUME NEW r \in Service, FocusRow(r) \/ MouseStart(r)
      PROVE  TableInv'
  BY <1>2, NothingAsked DEF FocusRow, MouseStart
<1>3. CASE FocusContainer \/ Leave \/ HandleKeyDownGrab \/ HandleKeyUp
  BY <1>3, NothingAsked DEF FocusContainer, Leave, HandleKeyDownGrab, HandleKeyUp
<1>4. ASSUME NEW dir \in {"up", "down"}, HandleKeyDownArrow(dir)
      PROVE  TableInv'
  BY <1>4, NothingAsked DEF HandleKeyDownArrow
<1>5. ASSUME NEW dir \in {"up", "down"}, HandleKeyDownMove(dir)
      PROVE  TableInv'
  <2>1. UNCHANGED confirm
    BY <1>5 DEF HandleKeyDownMove
  <2>2. \/ NoRequest
        \/ \E answer \in Answers(active) : RequestMovement(active, Directed(dir), answer)
    BY <1>5 DEF HandleKeyDownMove
  <2>3. CASE NoRequest
    BY <2>1, <2>3, NothingAsked DEF NoRequest
  <2>4. ASSUME NEW answer \in Answers(active), RequestMovement(active, Directed(dir), answer)
        PROVE  TableInv'
    <3>1. answer \in {"saved", "login", "refused", "cut", "lost"}
      BY DEF Answers
    <3> QED
      BY <2>1, <2>4, <3>1, Requesting DEF RequestMovement
  <2> QED
    BY <2>2, <2>3, <2>4
<1>6. ASSUME NEW r \in Service, NEW p \in {BEFORE, AFTER}, MouseMove(r, p)
      PROVE  TableInv'
  BY <1>6, NothingAsked DEF MouseMove
<1>7. CASE MouseStop
  <2>1. UNCHANGED confirm
    BY <1>7 DEF MouseStop
  <2>2. \/ NoRequest
        \/ \E answer \in Answers(drag) : RequestMovement(drag, lastClosest, answer)
    BY <1>7 DEF MouseStop
  <2>3. CASE NoRequest
    BY <2>1, <2>3, NothingAsked DEF NoRequest
  <2>4. ASSUME NEW answer \in Answers(drag), RequestMovement(drag, lastClosest, answer)
        PROVE  TableInv'
    <3>1. answer \in {"saved", "login", "refused", "cut", "lost"}
      BY DEF Answers
    <3> QED
      BY <2>1, <2>4, <3>1, Requesting DEF RequestMovement
  <2> QED
    BY <2>2, <2>3, <2>4
<1>8. ASSUME NEW r \in Service, SwapButtonsForConfirm(r)
      PROVE  TableInv'
  <2>1. Restored = [s \in Service |-> s]
    BY RestoredIsOwn
  <2>2. /\ editInnerHTML' = r /\ currentRow' = r
        /\ buttons' = [s \in Service |-> IF s = r THEN Really ELSE s]
    BY <1>8, <2>1 DEF SwapButtonsForConfirm
  <2>3. UNCHANGED <<server, cell, unsure>>
    BY <1>8 DEF SwapButtonsForConfirm
  <2> QED
    BY <2>2, <2>3 DEF Agree, OneConfirmation, AsideIsOwn, Orders
<1>9. CASE ResetOldValue
  <2>1. Restored = [s \in Service |-> s]
    BY RestoredIsOwn
  <2>2. buttons' = [s \in Service |-> s] /\ currentRow' = NoRow
    BY <1>9, <2>1 DEF ResetOldValue
  <2>3. UNCHANGED <<server, cell, unsure>>
    BY <1>9 DEF ResetOldValue
  <2>4. NoRow \notin Service
    BY NoSuchRow
  <2> QED
    BY <2>2, <2>3, <2>4 DEF Agree, OneConfirmation, AsideIsOwn, Orders
<1>10. CASE DeleteRegisteredService
  <2>1. server' = [server EXCEPT ![currentRow] = Deleted] /\ Load(server')
    BY <1>10 DEF DeleteRegisteredService
  <2>2. server' \in [Service -> Orders \cup {Deleted}]
    BY <2>1
  <2> QED
    BY <2>1, <2>2, Loading
<1>11. CASE Manage
  <2>1. server' = server /\ Load(server')
    BY <1>11 DEF Manage
  <2>2. server' \in [Service -> Orders \cup {Deleted}]
    BY <2>1
  <2> QED
    BY <2>1, <2>2, Loading
<1>12. ASSUME NEW s \in Service, NEW o \in {MaxOrder, Deleted}, OtherAdministrator(s, o)
       PROVE  TableInv'
  <2>1. /\ server' = [server EXCEPT ![s] = o]
        /\ unsure' = unsure \cup {s}
        /\ UNCHANGED <<cell, confirm>>
    BY <1>12 DEF OtherAdministrator
  <2>2. o \in Orders \cup {Deleted}
    BY OrderAssumption DEF Orders
  <2>3. {server', cell'} \subseteq [Service -> Orders \cup {Deleted}]
    BY <2>1, <2>2 DEF Orders
  <2>4. Agree'
    BY <2>1 DEF Agree
  <2> QED
    BY <2>1, <2>3, <2>4 DEF OneConfirmation, AsideIsOwn, confirm
<1> QED
  BY <1>1, <1>2, <1>3, <1>4, <1>5, <1>6, <1>7, <1>8, <1>9, <1>10, <1>11, <1>12
  DEF TableNext

(* The inductive invariant of the page of services.                        *)
THEOREM TableInvariance == TableSpec => []TableInv
  BY TableInitial, TableStep, PTL DEF TableSpec

(* The orders on the page are the server's but for those that a lost reply,*)
(* a session that was over or another administrator has touched, whatever  *)
(* the moves and their answers (services.js, updateRegisteredServiceOrder).*)
THEOREM ShownIsServed == TableSpec => []Agree
<1>1. TableInv => Agree
  BY DEF TableInv
<1>2. QED
  BY <1>1, TableInvariance, PTL

(* At most one row asks whether to delete it, and the others have their    *)
(* own buttons (cas.js, swapButtonsForConfirm and resetOldValue).          *)
THEOREM OneRowAsks == TableSpec => []OneConfirmation
<1>1. TableInv => OneConfirmation
  BY DEF TableInv
<1>2. QED
  BY <1>1, TableInvariance, PTL
================================================================================
