------------------------------ MODULE AjaxProofs -------------------------------
(***************************************************************************)
(* Requests end once, whatever the order of answers, timers, aborts and    *)
(* late registrations: for any set of requests, any number of callbacks on *)
(* each, and failing callbacks.                                            *)
(*                                                                         *)
(* The first half is about one request: its lists hold the callbacks       *)
(* Upto(n, m), and what ran are the first n.  The second half is about the *)
(* steps.                                                                  *)
(***************************************************************************)
EXTENDS Ajax, SequenceTheorems, FiniteSetTheorems, TLAPS

Ids == 1 .. MaxCallbacks

-------------------------------------------------------------------------------
(* The callbacks n + 1, ..., m.                                            *)

LEMMA UptoSeq ==
  ASSUME NEW n \in Nat, NEW m \in 0 .. MaxCallbacks, n <= m
  PROVE  /\ Upto(n, m) \in Seq(Ids) /\ Len(Upto(n, m)) = m - n
         /\ \A k \in 1 .. m - n : Upto(n, m)[k] = n + k
<1>1. MaxCallbacks \in Nat /\ m - n \in Nat
  BY CallbacksAssumption
<1>2. \A k \in 1 .. m - n : n + k \in Ids
  BY <1>1 DEF Ids
<1>3. Upto(n, m) \in [1 .. m - n -> Ids]
  BY <1>2 DEF Upto
<1>4. Upto(n, m) \in Seq(Ids)
  BY <1>1, <1>3, SeqDef
<1>5. QED
  BY <1>1, <1>3, <1>4 DEF Upto

LEMMA UptoAppend ==
  ASSUME NEW n \in Nat, NEW m \in 0 .. MaxCallbacks, n <= m, m + 1 <= MaxCallbacks
  PROVE  Append(Upto(n, m), m + 1) = Upto(n, m + 1)
<1>1. MaxCallbacks \in Nat /\ m - n \in Nat /\ m + 1 \in 0 .. MaxCallbacks /\ m + 1 \in Ids
  BY CallbacksAssumption DEF Ids
<1>2. Upto(n, m) \in Seq(Ids) /\ Len(Upto(n, m)) = m - n
      /\ \A k \in 1 .. m - n : Upto(n, m)[k] = n + k
  BY UptoSeq
<1>3. Upto(n, m + 1) \in Seq(Ids) /\ Len(Upto(n, m + 1)) = m + 1 - n
      /\ \A k \in 1 .. m + 1 - n : Upto(n, m + 1)[k] = n + k
  <2>1. PICK p \in 0 .. MaxCallbacks : p = m + 1 /\ n <= p
    BY <1>1
  <2>2. Upto(n, p) \in Seq(Ids) /\ Len(Upto(n, p)) = p - n
        /\ \A k \in 1 .. p - n : Upto(n, p)[k] = n + k
    BY <2>1, UptoSeq
  <2>3. QED
    BY <2>1, <2>2
<1> DEFINE s == Append(Upto(n, m), m + 1)
<1>4. s \in Seq(Ids) /\ Len(s) = m - n + 1
  BY <1>1, <1>2
<1>5. \A k \in 1 .. m - n + 1 : s[k] = n + k
  BY <1>1, <1>2
<1> HIDE DEF s
<1>6. s = Upto(n, m + 1)
  BY <1>1, <1>3, <1>4, <1>5, SeqEqual
<1>7. QED
  BY <1>6 DEF s

LEMMA UptoFirst ==
  ASSUME NEW m \in Ids
  PROVE  /\ Head(Upto(0, m)) = 1 /\ Upto(0, m) # <<>>
         /\ SubSeq(Upto(0, m), 2, Len(Upto(0, m))) = Upto(1, m)
<1>1. MaxCallbacks \in Nat /\ m \in Nat /\ m \in 0 .. MaxCallbacks /\ 1 <= m
  BY CallbacksAssumption DEF Ids
<1>2. Upto(0, m) \in Seq(Ids) /\ Len(Upto(0, m)) = m /\ \A k \in 1 .. m : Upto(0, m)[k] = k
  <2>1. Upto(0, m) \in Seq(Ids) /\ Len(Upto(0, m)) = m - 0
        /\ \A k \in 1 .. m - 0 : Upto(0, m)[k] = 0 + k
    <3>1. PICK z \in Nat : z = 0 /\ z <= m
      BY <1>1
    <3>2. Upto(z, m) \in Seq(Ids) /\ Len(Upto(z, m)) = m - z
          /\ \A k \in 1 .. m - z : Upto(z, m)[k] = z + k
      BY <1>1, <3>1, UptoSeq
    <3>3. QED
      BY <3>1, <3>2
  <2>2. m - 0 = m /\ \A k \in 1 .. m : 0 + k = k
    BY <1>1
  <2>3. QED
    BY <2>1, <2>2
<1>3. Upto(1, m) \in Seq(Ids) /\ Len(Upto(1, m)) = m - 1
      /\ \A k \in 1 .. m - 1 : Upto(1, m)[k] = k + 1
  BY <1>1, UptoSeq
<1> DEFINE s == SubSeq(Upto(0, m), 2, m)
<1>4. s \in Seq(Ids) /\ Len(s) = m - 1 /\ \A k \in 1 .. m - 1 : s[k] = k + 1
  BY <1>1, <1>2
<1> HIDE DEF s
<1>5. s = Upto(1, m)
  BY <1>1, <1>3, <1>4, SeqEqual
<1>6. QED
  BY <1>1, <1>2, <1>5 DEF s

LEMMA UptoNone ==
  ASSUME NEW n \in 0 .. MaxCallbacks
  PROVE  Upto(n, n) = <<>>
<1>1. MaxCallbacks \in Nat
  BY CallbacksAssumption
<1>2. Upto(n, n) \in Seq(Ids) /\ Len(Upto(n, n)) = 0
  BY <1>1, UptoSeq
<1>3. QED
  BY <1>2

LEMMA UptoOne == Upto(0, 1) = <<1>>
<1>1. 1 \in Ids /\ 1 \in 0 .. MaxCallbacks
  BY CallbacksAssumption DEF Ids
<1>2. PICK z \in Nat, o \in 0 .. MaxCallbacks : z = 0 /\ o = 1 /\ z <= o
  BY <1>1
<1>3. Upto(z, o) \in Seq(Ids) /\ Len(Upto(z, o)) = o - z
      /\ \A k \in 1 .. o - z : Upto(z, o)[k] = z + k
  BY <1>2, UptoSeq
<1>4. Len(Upto(0, 1)) = 1 /\ Upto(0, 1)[1] = 1 /\ Upto(0, 1) \in Seq(Ids)
  BY <1>2, <1>3
<1>5. <<1>> \in Seq(Ids) /\ Len(<<1>>) = 1 /\ <<1>>[1] = 1
  BY <1>1
<1>6. \A k \in 1 .. 1 : k = 1
  OBVIOUS
<1>7. QED
  BY <1>4, <1>5, <1>6, SeqEqual

-------------------------------------------------------------------------------
(* The lists.                                                              *)

LEMMA ListFields ==
  ASSUME NEW cb
  PROVE  /\ List(cb).callbacks = cb /\ ~List(cb).fired /\ ~List(cb).cancelled
         /\ Fired(cb).callbacks = cb /\ Fired(cb).fired /\ ~Fired(cb).cancelled
         /\ ~Cancel(List(cb)).fired /\ Cancel(List(cb)).cancelled
         /\ Cancel(List(cb)).callbacks = <<>>
  BY DEF List, Fired, Cancel

LEMMA PushedWaiting ==
  ASSUME NEW cb, NEW id
  PROVE  /\ Pushed(List(cb), id) = List(Append(cb, id))
         /\ Pushed(Fired(cb), id) = List(Append(cb, id))
  BY ListFields DEF Pushed

LEMMA ResolvedFields ==
  ASSUME NEW cb, NEW throws \in BOOLEAN
  PROVE  ResolveWith(List(cb), throws)
           = Fired(SubSeq(cb, Len(Running(List(cb), throws)) + 1, Len(cb)))
  BY ListFields DEF ResolveWith

(* Resolving a list runs everything that waits on it, ...                  *)
LEMMA ResolveAll ==
  ASSUME NEW cb \in Seq(Ids)
  PROVE  Running(List(cb), FALSE) = cb /\ ResolveWith(List(cb), FALSE) = Fired(<<>>)
<1>1. Running(List(cb), FALSE) = cb
  BY ListFields DEF Running
<1>2. SubSeq(cb, Len(cb) + 1, Len(cb)) = <<>>
  OBVIOUS
<1>3. QED
  BY <1>1, <1>2, ResolvedFields

(* ... or the first callback only, if it fails.                            *)
LEMMA ResolveFailing ==
  ASSUME NEW m \in Ids
  PROVE  /\ Running(List(Upto(0, m)), TRUE) = Upto(0, 1)
         /\ ResolveWith(List(Upto(0, m)), TRUE) = Fired(Upto(1, m))
<1> DEFINE cb == Upto(0, m)
<1>1. Head(cb) = 1 /\ cb # <<>> /\ SubSeq(cb, 2, Len(cb)) = Upto(1, m)
  BY UptoFirst
<1> HIDE DEF cb
<1>2. Running(List(cb), TRUE) = <<1>>
  BY <1>1, ListFields DEF Running
<1>3. ResolveWith(List(cb), TRUE) = Fired(SubSeq(cb, Len(<<1>>) + 1, Len(cb)))
  BY <1>2, ResolvedFields
<1>4. Len(<<1>>) + 1 = 2
  OBVIOUS
<1>5. QED
  BY <1>1, <1>2, <1>3, <1>4, UptoOne DEF cb

(* A registration in time waits, ...                                       *)
LEMMA RegisterWaiting ==
  ASSUME NEW m \in 0 .. MaxCallbacks, m + 1 <= MaxCallbacks
  PROVE  /\ Registered(List(Upto(0, m)), m + 1) = List(Upto(0, m + 1))
         /\ RunsAtOnce(List(Upto(0, m)), m + 1) = <<>>
<1>1. PICK z \in Nat : z = 0 /\ z <= m
  BY CallbacksAssumption
<1>2. Append(Upto(z, m), m + 1) = Upto(z, m + 1)
  BY <1>1, UptoAppend
<1>3. Pushed(List(Upto(z, m)), m + 1) = List(Upto(z, m + 1))
  BY <1>2, PushedWaiting
<1>4. QED
  BY <1>1, <1>3, ListFields DEF Registered, RunsAtOnce

(* ... a late one runs at once, after what a failure left, ...             *)
LEMMA RegisterFired ==
  ASSUME NEW m \in 0 .. MaxCallbacks, m + 1 <= MaxCallbacks, NEW n \in Nat, n <= m
  PROVE  /\ Registered(Fired(Upto(n, m)), m + 1) = Fired(<<>>)
         /\ RunsAtOnce(Fired(Upto(n, m)), m + 1) = Upto(n, m + 1)
<1>1. Append(Upto(n, m), m + 1) = Upto(n, m + 1)
  BY UptoAppend
<1>2. PICK p \in 0 .. MaxCallbacks : p = m + 1 /\ n <= p
  BY CallbacksAssumption
<1>3. Upto(n, p) \in Seq(Ids)
  BY <1>2, UptoSeq
<1>4. Pushed(Fired(Upto(n, m)), m + 1) = List(Upto(n, p))
  BY <1>1, <1>2, PushedWaiting
<1>5. /\ Running(List(Upto(n, p)), FALSE) = Upto(n, p)
      /\ ResolveWith(List(Upto(n, p)), FALSE) = Fired(<<>>)
  BY <1>3, ResolveAll
<1>6. QED
  BY <1>2, <1>4, <1>5, ListFields DEF Registered, RunsAtOnce

(* ... and one on a cancelled list never does.                             *)
LEMMA RegisterCancelled ==
  ASSUME NEW id
  PROVE  /\ Registered(Cancel(List(<<>>)), id) = Cancel(List(<<>>))
         /\ RunsAtOnce(Cancel(List(<<>>)), id) = <<>>
  BY ListFields DEF Registered, RunsAtOnce

-------------------------------------------------------------------------------
(* The callbacks that ran.                                                 *)

Calls == {"done", "fail", "complete"} \X Ids

LEMMA NamedSeq ==
  ASSUME NEW kind \in {"done", "fail", "complete"}, NEW s \in Seq(Ids)
  PROVE  /\ Named(kind, s) \in Seq(Calls) /\ Len(Named(kind, s)) = Len(s)
         /\ \A i \in 1 .. Len(s) : Named(kind, s)[i] = <<kind, s[i]>>
<1>1. Len(s) \in Nat /\ \A i \in 1 .. Len(s) : s[i] \in Ids
  OBVIOUS
<1>2. \A i \in 1 .. Len(s) : <<kind, s[i]>> \in Calls
  BY <1>1 DEF Calls
<1>3. Named(kind, s) \in [1 .. Len(s) -> Calls]
  BY <1>2 DEF Named
<1>4. Named(kind, s) \in Seq(Calls)
  BY <1>1, <1>3, SeqDef
<1>5. QED
  BY <1>1, <1>3, <1>4 DEF Named

(* The next ones run after the first, in their order.                      *)
LEMMA RanMore ==
  ASSUME NEW s \in Seq(Calls), NEW kind \in {"done", "fail"}, NEW n \in Nat,
         NEW m \in 0 .. MaxCallbacks, n <= m, RanFirst(s, kind, n)
  PROVE  /\ s \o Named(kind, Upto(n, m)) \in Seq(Calls)
         /\ RanFirst(s \o Named(kind, Upto(n, m)), kind, m)
<1> DEFINE t == Named(kind, Upto(n, m))
           u == s \o t
           L == Len(s)
<1>1. m \in Nat /\ m - n \in Nat /\ L \in Nat /\ DOMAIN s = 1 .. L
  BY CallbacksAssumption
<1>2. t \in Seq(Calls) /\ Len(t) = m - n /\ \A k \in 1 .. m - n : t[k] = <<kind, n + k>>
  <2>1. Upto(n, m) \in Seq(Ids) /\ Len(Upto(n, m)) = m - n
        /\ \A k \in 1 .. m - n : Upto(n, m)[k] = n + k
    BY UptoSeq
  <2>2. t \in Seq(Calls) /\ Len(t) = Len(Upto(n, m))
        /\ \A k \in 1 .. Len(Upto(n, m)) : t[k] = <<kind, Upto(n, m)[k]>>
    BY <2>1, NamedSeq
  <2>3. QED
    BY <2>1, <2>2
<1> HIDE DEF t
<1>3. u \in Seq(Calls) /\ Len(u) = L + (m - n) /\ DOMAIN u = 1 .. L + (m - n)
  BY <1>1, <1>2
<1>4. \A i \in 1 .. L : u[i] = s[i]
  BY <1>1, <1>2
<1>5. \A i \in L + 1 .. L + (m - n) : u[i] = <<kind, n + (i - L)>>
  BY <1>1, <1>2
<1> HIDE DEF u
<1>6. \A i \in DOMAIN u : i \in 1 .. L \/ i \in L + 1 .. L + (m - n)
  BY <1>1, <1>3
<1>7. \A i \in DOMAIN u : u[i][1] = "complete" => i \in 1 .. L
  BY <1>5, <1>6
<1>8. \A i \in DOMAIN u : u[i][1] = "complete" \/ (u[i][1] = kind /\ u[i][2] \in 1 .. m)
  <2> TAKE i \in DOMAIN u
  <2>1. CASE i \in 1 .. L
    <3>1. s[i][1] = "complete" \/ (s[i][1] = kind /\ s[i][2] \in 1 .. n)
      BY <2>1, <1>1 DEF RanFirst
    <3>2. \A k \in 1 .. n : k \in 1 .. m
      BY <1>1
    <3>3. QED
      BY <2>1, <3>1, <3>2, <1>4
  <2>2. CASE i \in L + 1 .. L + (m - n)
    <3>1. n + (i - L) \in 1 .. m
      BY <2>2, <1>1
    <3>2. QED
      BY <2>2, <3>1, <1>5
  <2>3. QED
    BY <2>1, <2>2, <1>6
<1>9. ASSUME NEW i \in DOMAIN u, NEW j \in DOMAIN u, i < j, u[i][1] = kind, u[j][1] = kind
      PROVE  u[i][2] < u[j][2]
  <2>1. CASE i \in 1 .. L /\ j \in 1 .. L
    BY <2>1, <1>1, <1>4, <1>9 DEF RanFirst
  <2>2. CASE i \in 1 .. L /\ j \in L + 1 .. L + (m - n)
    <3>1. u[i][2] \in 1 .. n
      BY <2>2, <1>1, <1>4, <1>9 DEF RanFirst
    <3>2. u[j][2] = n + (j - L) /\ j - L >= 1 /\ j - L \in Nat
      BY <2>2, <1>1, <1>5
    <3>3. QED
      BY <3>1, <3>2
  <2>3. CASE i \in L + 1 .. L + (m - n) /\ j \in L + 1 .. L + (m - n)
    <3>1. u[i] = <<kind, n + (i - L)>> /\ u[j] = <<kind, n + (j - L)>>
      BY <2>3, <1>5
    <3>2. QED
      BY <2>3, <3>1, <1>1, <1>9
  <2>4. ~(i \in L + 1 .. L + (m - n) /\ j \in 1 .. L)
    BY <1>1, <1>9
  <2>5. QED
    BY <2>1, <2>2, <2>3, <2>4, <1>6
<1>10. \A i, j \in DOMAIN u : u[i][1] = "complete" /\ u[j][1] = "complete" => i = j
  BY <1>1, <1>4, <1>7 DEF RanFirst
<1>11. ASSUME NEW k \in 1 .. m PROVE \E i \in DOMAIN u : u[i] = <<kind, k>>
  <2>1. CASE k \in 1 .. n
    <3>1. PICK i \in 1 .. L : s[i] = <<kind, k>>
      BY <2>1, <1>1 DEF RanFirst
    <3>2. i \in DOMAIN u
      BY <1>1, <1>3
    <3>3. QED
      BY <3>1, <3>2, <1>4
  <2>2. CASE k \notin 1 .. n
    <3>1. L + (k - n) \in L + 1 .. L + (m - n) /\ L + (k - n) \in DOMAIN u
          /\ n + ((L + (k - n)) - L) = k
      BY <2>2, <1>1, <1>3
    <3>2. QED
      BY <3>1, <1>5
  <2>3. QED
    BY <2>1, <2>2
<1>12. RanFirst(u, kind, m)
  BY <1>8, <1>9, <1>10, <1>11 DEF RanFirst
<1>13. QED
  BY <1>3, <1>12 DEF u, t

(* The complete callback runs after the callbacks of the options.          *)
LEMMA RanComplete ==
  ASSUME NEW s \in Seq(Calls), NEW kind \in {"done", "fail"}, NEW n \in Nat,
         RanFirst(s, kind, n), \A i \in DOMAIN s : s[i][1] # "complete"
  PROVE  /\ s \o Named("complete", <<1>>) \in Seq(Calls)
         /\ RanFirst(s \o Named("complete", <<1>>), kind, n)
<1> DEFINE t == Named("complete", <<1>>)
           u == s \o t
           L == Len(s)
<1>1. L \in Nat /\ DOMAIN s = 1 .. L
  OBVIOUS
<1>2. t \in Seq(Calls) /\ Len(t) = 1 /\ t[1] = <<"complete", 1>>
  <2>1. <<1>> \in Seq(Ids) /\ Len(<<1>>) = 1 /\ <<1>>[1] = 1
    BY CallbacksAssumption DEF Ids
  <2>2. QED
    BY <2>1, NamedSeq
<1> HIDE DEF t
<1>3. u \in Seq(Calls) /\ Len(u) = L + 1 /\ DOMAIN u = 1 .. L + 1
  <2>1. u \in Seq(Calls)
    BY <1>2
  <2>2. Len(u) = L + 1
    BY <1>1, <1>2, ConcatProperties
  <2>3. QED
    BY <2>1, <2>2
<1>4. u[L + 1] = <<"complete", 1>> /\ \A i \in 1 .. L : u[i] = s[i]
  BY <1>1, <1>2
<1> HIDE DEF u
<1>5. \A i \in DOMAIN u : i \in 1 .. L \/ i = L + 1
  BY <1>1, <1>3
<1>6. \A i \in 1 .. L : i \in DOMAIN u
  BY <1>1, <1>3
<1>7. u[L + 1][1] = "complete" /\ kind # "complete"
  BY <1>4
<1>8. RanFirst(u, kind, n)
  <2>1. \A i \in DOMAIN u : u[i][1] = "complete" \/ (u[i][1] = kind /\ u[i][2] \in 1 .. n)
    BY <1>1, <1>4, <1>5, <1>7 DEF RanFirst
  <2>2. \A i, j \in DOMAIN u :
          i < j /\ u[i][1] = kind /\ u[j][1] = kind => u[i][2] < u[j][2]
    BY <1>1, <1>4, <1>5, <1>7 DEF RanFirst
  <2>3. \A i, j \in DOMAIN u : u[i][1] = "complete" /\ u[j][1] = "complete" => i = j
    BY <1>1, <1>4, <1>5
  <2>4. \A k \in 1 .. n : \E i \in DOMAIN u : u[i] = <<kind, k>>
    BY <1>1, <1>4, <1>6 DEF RanFirst
  <2>5. QED
    BY <2>1, <2>2, <2>3, <2>4 DEF RanFirst
<1>9. QED
  BY <1>3, <1>8 DEF u, t

(* Callbacks that ran so are those OneEnd speaks of.                       *)
LEMMA RanFirstIsOneEnd ==
  ASSUME NEW s \in Seq(Calls), NEW kind \in {"done", "fail"}, NEW n \in Nat, RanFirst(s, kind, n),
         NEW i \in DOMAIN s, NEW j \in DOMAIN s
  PROVE  /\ s[i][1] = "done" => s[j][1] # "fail"
         /\ s[i][1] = "complete" /\ s[j][1] = "complete" => i = j
         /\ i < j /\ s[i][1] = s[j][1] => s[i][2] < s[j][2]
         /\ s[i][1] # "complete" /\ s[i][2] > 1 =>
              \E k \in 1 .. i - 1 : s[k] = <<s[i][1], s[i][2] - 1>>
<1>1. Len(s) \in Nat /\ DOMAIN s = 1 .. Len(s)
  OBVIOUS
<1>2. \A k \in DOMAIN s : s[k][1] = "complete" \/ (s[k][1] = kind /\ s[k][2] \in 1 .. n)
  BY DEF RanFirst
<1>3. ASSUME i < j, s[i][1] = s[j][1] PROVE s[i][2] < s[j][2]
  BY <1>1, <1>2, <1>3 DEF RanFirst
<1>4. ASSUME s[i][1] # "complete", s[i][2] > 1
      PROVE  \E k \in 1 .. i - 1 : s[k] = <<s[i][1], s[i][2] - 1>>
  <2>1. s[i][1] = kind /\ s[i][2] \in 1 .. n
    BY <1>2, <1>4
  <2>2. s[i][2] - 1 \in 1 .. n /\ ~(s[i][2] < s[i][2] - 1) /\ s[i][2] # s[i][2] - 1
    BY <2>1, <1>4
  <2>3. PICK k \in DOMAIN s : s[k] = <<kind, s[i][2] - 1>>
    BY <2>2 DEF RanFirst
  <2>4. s[k][1] = kind /\ s[k][2] = s[i][2] - 1
    BY <2>3
  <2>5. ~(i < k) /\ i # k
    BY <2>1, <2>2, <2>4 DEF RanFirst
  <2>6. k \in 1 .. i - 1
    BY <2>5, <1>1
  <2>7. QED
    BY <2>1, <2>3, <2>6
<1>5. s[i][1] = "done" => s[j][1] # "fail"
  BY <1>2
<1>6. s[i][1] = "complete" /\ s[j][1] = "complete" => i = j
  BY DEF RanFirst
<1>7. QED
  BY <1>3, <1>4, <1>5, <1>6

-------------------------------------------------------------------------------
(* The invariant.                                                          *)

Open == {r \in Request : state[r] = 1 /\ FireGlobals(opts[r])}
Cut == {r \in broken : FireGlobals(opts[r])}

LEMMA InDeferred ==
  ASSUME NEW cb \in Seq(Ids)
  PROVE  /\ List(cb) \in Deferred /\ Fired(cb) \in Deferred /\ Cancel(List(cb)) \in Deferred
         /\ Cancel(List(cb)) = Cancel(List(<<>>))
  BY ListFields DEF List, Fired, Cancel, Deferred, Ids

(* Open requests and cut ones are never more than there are requests.      *)
LEMMA DisjointCount ==
  ASSUME NEW A \in SUBSET Request, NEW B \in SUBSET Request, A \cap B = {}
  PROVE  /\ Cardinality(A) \in Nat /\ Cardinality(B) \in Nat
         /\ Cardinality(A) + Cardinality(B) \in 0 .. Cardinality(Request)
<1>1. IsFiniteSet(Request) /\ IsFiniteSet(A) /\ IsFiniteSet(B)
  BY RequestAssumption, FS_Subset
<1>2. /\ Cardinality(Request) \in Nat /\ Cardinality(A) \in Nat /\ Cardinality(B) \in Nat
  BY <1>1, FS_CardinalityType
<1>3. Cardinality(A \cup B) = Cardinality(A) + Cardinality(B) - Cardinality(A \cap B)
  BY <1>1, FS_Union
<1>4. Cardinality(A \cap B) = 0
  BY FS_EmptySet
<1>5. Cardinality(A \cup B) <= Cardinality(Request)
  BY <1>1, FS_Subset
<1>6. QED
  BY <1>2, <1>3, <1>4, <1>5

(* One request more, or less.                                              *)
LEMMA CountMore ==
  ASSUME NEW A \in SUBSET Request, NEW r \in Request
  PROVE  /\ Cardinality(A) \in Nat
         /\ r \notin A => Cardinality(A \cup {r}) = Cardinality(A) + 1
         /\ r \in A => Cardinality(A \ {r}) = Cardinality(A) - 1
         /\ Cardinality(A) <= Cardinality(Request) /\ Cardinality(Request) \in Nat
<1>1. IsFiniteSet(A) /\ IsFiniteSet(Request) /\ Cardinality(A) <= Cardinality(Request)
  BY RequestAssumption, FS_Subset
<1>2. QED
  BY <1>1, FS_AddElement, FS_RemoveElement, FS_CardinalityType

(* A request nothing happens to follows its state as before.               *)
LEMMA OthersFollow ==
  ASSUME NEW q \in Request, Follows(q),
         state'[q] = state[q], opts'[q] = opts[q], done'[q] = done[q], fail'[q] = fail[q],
         complete'[q] = complete[q], count'[q] = count[q], ran'[q] = ran[q],
         q \in timer' => q \in timer, q \in broken' <=> q \in broken
  PROVE  Follows(q)'
  BY DEF Follows, Ended

LEMMA Counting == ActiveCounts <=> active = Cardinality(Open) + Cardinality(Cut)
  BY DEF ActiveCounts, Open, Cut

LEMMA AjaxInitial == AjaxInit => AjaxInv
<1> SUFFICES ASSUME AjaxInit PROVE AjaxInv
  OBVIOUS
<1>1. Cardinality(Request) \in Nat /\ 0 \in Name /\ Name \subseteq Nat
  BY RequestAssumption, FS_CardinalityType DEF Name
<1>2. MaxCallbacks \in Nat /\ 0 \in 0 .. MaxCallbacks
  BY CallbacksAssumption
<1>3. List(<<>>) \in Deferred
  <2>1. <<>> \in Seq(Ids)
    OBVIOUS
  <2>2. QED
    BY <2>1, InDeferred
<1>4. AjaxTypeOK
  BY <1>1, <1>2, <1>3 DEF AjaxInit, AjaxTypeOK
<1>5. ListsFollow
  BY DEF AjaxInit, ListsFollow, Follows
<1>6. Sent = {} /\ Cardinality({}) = 0
  BY FS_EmptySet DEF AjaxInit, Sent
<1>7. NamesOwn
  BY <1>6 DEF AjaxInit, NamesOwn
<1>8. Open = {} /\ Cut = {} /\ active = 0
  BY DEF AjaxInit, Open, Cut
<1>9. ActiveCounts
  BY <1>6, <1>8, Counting
<1>10. OwnAnswer
  BY DEF AjaxInit, OwnAnswer
<1>11. QED
  BY <1>4, <1>5, <1>7, <1>9, <1>10 DEF AjaxInv

(* What a request that is still to be sent leaves to be found.             *)
LEMMA Unsent ==
  ASSUME AjaxInv, NEW r \in Request, state[r] = 0
  PROVE  /\ r \notin Sent /\ r \notin timer /\ r \notin broken /\ ran[r] = <<>>
         /\ jsc \in Name /\ jsc + 1 \in Name /\ window[jsc] = Unset
         /\ jsc = Cardinality(Sent) /\ jsc + 1 = Cardinality(Sent \cup {r})
<1>1. r \notin Sent /\ r \notin timer /\ r \notin broken /\ ran[r] = <<>>
  BY DEF AjaxInv, ListsFollow, Follows, Sent
<1>2. Sent \in SUBSET Request /\ Sent \cup {r} \in SUBSET Request
  BY DEF Sent
<1>3. jsc = Cardinality(Sent) /\ Cardinality(Sent \cup {r}) = jsc + 1 /\ jsc \in Nat
      /\ Cardinality(Sent \cup {r}) <= Cardinality(Request) /\ Cardinality(Request) \in Nat
  BY <1>1, <1>2, CountMore DEF AjaxInv, NamesOwn
<1>4. jsc \in Name /\ jsc + 1 \in Name
  BY <1>3 DEF Name
<1>5. window[jsc] = Unset
  <2>1. SUFFICES ASSUME window[jsc] # Unset PROVE FALSE
    OBVIOUS
  <2>2. window[jsc] \in Sent /\ name[window[jsc]] = jsc
    BY <2>1, <1>4 DEF AjaxInv, NamesOwn
  <2>3. name[window[jsc]] \in 0 .. jsc - 1
    BY <2>2 DEF AjaxInv, NamesOwn
  <2>4. QED
    BY <2>2, <2>3, <1>3
<1>6. QED
  BY <1>1, <1>3, <1>4, <1>5

LEMMA Sending ==
  ASSUME AjaxInv, NEW r \in Request, NEW o \in Options, Send(r, o)
  PROVE  AjaxInv'
<1>1. state[r] = 0 /\ state' = [state EXCEPT ![r] = 1] /\ opts' = [opts EXCEPT ![r] = o]
      /\ done' = [done EXCEPT ![r] = List(<<1>>)] /\ fail' = [fail EXCEPT ![r] = List(<<1>>)]
      /\ complete' = [complete EXCEPT ![r] = List(<<1>>)] /\ count' = [count EXCEPT ![r] = 1]
      /\ UNCHANGED <<ran, data, broken, container>>
  BY DEF Send
<1>2. /\ active' = IF FireGlobals(o) THEN active + 1 ELSE active
      /\ timer' = IF o.timeout THEN timer \cup {r} ELSE timer
  BY DEF Send
<1>3. AjaxTypeOK
  BY DEF AjaxInv
<1>4. /\ r \notin Sent /\ r \notin timer /\ r \notin broken /\ ran[r] = <<>>
      /\ jsc \in Name /\ jsc + 1 \in Name /\ window[jsc] = Unset
      /\ jsc = Cardinality(Sent) /\ jsc + 1 = Cardinality(Sent \cup {r})
  BY <1>1, Unsent
<1>5. previous' = previous
  <2>1. o.jsonp => previous' = [previous EXCEPT ![r] = Unset]
    BY <1>4 DEF Send, JsonpPrefilter
  <2>2. ~o.jsonp => previous' = previous
    BY DEF Send, JsonpPrefilter
  <2>3. previous[r] = Unset
    BY DEF AjaxInv, NamesOwn
  <2>4. QED
    BY <2>1, <2>2, <2>3, <1>3 DEF AjaxTypeOK
<1>6. /\ o.jsonp => /\ name' = [name EXCEPT ![r] = jsc] /\ jsc' = jsc + 1
                    /\ window' = [window EXCEPT ![jsc] = r]
      /\ ~o.jsonp => UNCHANGED <<name, window, jsc>>
  BY DEF Send, JsonpPrefilter
<1>7. /\ o.jsonp => Sent' = Sent \cup {r}
      /\ ~o.jsonp => Sent' = Sent
  BY <1>1, <1>3, <1>4 DEF Sent, AjaxTypeOK
<1>8. ListsFollow'
  <2> SUFFICES ASSUME NEW q \in Request PROVE Follows(q)'
    BY DEF ListsFollow
  <2>0. Follows(q)
    BY DEF AjaxInv, ListsFollow
  <2>1. CASE q # r
    BY <2>0, <2>1, <1>1, <1>2, <1>3, OthersFollow DEF AjaxTypeOK
  <2>2. CASE q = r
    <3>1. state'[r] = 1 /\ count'[r] = 1 /\ ran'[r] = <<>> /\ opts'[r] = o /\ r \notin broken'
          /\ done'[r] = List(<<1>>) /\ fail'[r] = List(<<1>>) /\ complete'[r] = List(<<1>>)
      BY <1>1, <1>3, <1>4 DEF AjaxTypeOK
    <3>2. r \notin broken' /\ 1 >= 1
      BY <1>1, <1>4
    <3>3. QED
      BY <2>2, <3>1, <3>2, UptoOne DEF Follows
  <2>3. QED
    BY <2>1, <2>2
<1>9. NamesOwn'
  <2>1. jsc' = Cardinality(Sent')
    BY <1>4, <1>6, <1>7
  <2>2. Name \subseteq Nat /\ jsc \in Nat
    BY RequestAssumption, FS_CardinalityType, <1>4 DEF Name
  <2>3. /\ \A q \in Sent : name[q] \in 0 .. jsc - 1
        /\ \A p, q \in Sent : name[p] = name[q] => p = q
        /\ \A n \in Name : window[n] # Unset => window[n] \in Sent /\ name[window[n]] = n
        /\ \A q \in Request : previous[q] = Unset /\ container[q] \in {q, Unset}
    BY DEF AjaxInv, NamesOwn
  <2>4. CASE o.jsonp
    <3>1. name'[r] = jsc /\ \A q \in Sent : name'[q] = name[q] /\ q # r
      BY <2>4, <1>3, <1>4, <1>6 DEF AjaxTypeOK, Sent
    <3>2. window'[jsc] = r /\ \A n \in Name : n # jsc => window'[n] = window[n]
      BY <2>4, <1>3, <1>4, <1>6 DEF AjaxTypeOK
    <3>3. \A q \in Sent' : name'[q] \in 0 .. jsc' - 1
      BY <2>2, <2>3, <2>4, <3>1, <1>6, <1>7
    <3>4. \A p, q \in Sent' : name'[p] = name'[q] => p = q
      BY <2>2, <2>3, <2>4, <3>1, <1>7
    <3>5. \A n \in Name : window'[n] # Unset => window'[n] \in Sent' /\ name'[window'[n]] = n
      BY <2>3, <2>4, <3>1, <3>2, <1>7
    <3>6. QED
      BY <2>1, <2>3, <3>3, <3>4, <3>5, <1>1, <1>5 DEF NamesOwn
  <2>5. CASE ~o.jsonp
    BY <2>1, <2>3, <2>5, <1>1, <1>5, <1>6, <1>7 DEF NamesOwn
  <2>6. QED
    BY <2>4, <2>5
<1>10. /\ Open \in SUBSET Request /\ Cut \in SUBSET Request /\ Cut' = Cut /\ r \notin Open
       /\ FireGlobals(o) => Open' = Open \cup {r}
       /\ ~FireGlobals(o) => Open' = Open
  BY <1>1, <1>3, <1>4 DEF Open, Cut, AjaxTypeOK
<1>11. active' = Cardinality(Open') + Cardinality(Cut')
  <2>1. active = Cardinality(Open) + Cardinality(Cut)
    BY Counting DEF AjaxInv
  <2>2. Cardinality(Open) \in Nat /\ Cardinality(Cut) \in Nat
        /\ Cardinality(Open \cup {r}) = Cardinality(Open) + 1
    BY <1>10, CountMore
  <2>3. QED
    BY <2>1, <2>2, <1>2, <1>10
<1>12. ActiveCounts'
  BY <1>11 DEF ActiveCounts, Open, Cut
<1>13. Open' \cap Cut' = {} /\ Open' \in SUBSET Request /\ Cut' \in SUBSET Request
  BY <1>1, <1>3, <1>4, <1>10 DEF Open, Cut, AjaxTypeOK, AjaxInv, ListsFollow, Follows
<1>14. AjaxTypeOK'
  <2>1. 1 \in 0 .. MaxCallbacks /\ List(<<1>>) \in Deferred
    <3>1. <<1>> \in Seq(Ids)
      BY CallbacksAssumption DEF Ids
    <3>2. List(<<1>>) \in Deferred
      BY <3>1, InDeferred
    <3>3. QED
      BY <3>2, CallbacksAssumption
  <2>2. active' \in 0 .. Cardinality(Request)
    BY <1>11, <1>13, DisjointCount
  <2>3. /\ state' \in [Request -> 0 .. 2] /\ opts' \in [Request -> Options \cup {Unset}]
        /\ done' \in [Request -> Deferred] /\ fail' \in [Request -> Deferred]
        /\ complete' \in [Request -> Deferred] /\ count' \in [Request -> 0 .. MaxCallbacks]
    BY <1>1, <1>3, <2>1 DEF AjaxTypeOK
  <2>4. /\ name' \in [Request -> Name \cup {Unset}] /\ window' \in [Name -> Request \cup {Unset}]
        /\ jsc' \in Name
    <3>1. CASE o.jsonp
      <4>1. /\ name \in [Request -> Name \cup {Unset}] /\ window \in [Name -> Request \cup {Unset}]
            /\ jsc \in Name \cup {Unset} /\ r \in Request \cup {Unset}
        BY <1>3, <1>4 DEF AjaxTypeOK
      <4>2. name' \in [Request -> Name \cup {Unset}]
        BY <3>1, <4>1, <1>6
      <4>3. window' \in [Name -> Request \cup {Unset}]
        BY <3>1, <4>1, <1>6
      <4>4. QED
        BY <3>1, <4>2, <4>3, <1>4, <1>6
    <3>2. CASE ~o.jsonp
      BY <3>2, <1>3, <1>6 DEF AjaxTypeOK
    <3>3. QED
      BY <3>1, <3>2
  <2>5. timer' \subseteq Request
    BY <1>2, <1>3 DEF AjaxTypeOK
  <2>6. QED
    BY <2>2, <2>3, <2>4, <2>5, <1>1, <1>3, <1>5 DEF AjaxTypeOK
<1>15. OwnAnswer'
  BY <1>1 DEF AjaxInv, OwnAnswer
<1>16. QED
  BY <1>8, <1>9, <1>12, <1>14, <1>15 DEF AjaxInv

(* What the end of an open request finds, ...                              *)
LEMMA OpenRequest ==
  ASSUME AjaxInv, NEW r \in Request, state[r] = 1
  PROVE  /\ opts[r] \in Options /\ count[r] \in Ids /\ ran[r] = <<>>
         /\ done[r] = List(Upto(0, count[r])) /\ fail[r] = List(Upto(0, count[r]))
         /\ complete[r] = List(<<1>>) /\ r \notin broken /\ r \notin Cut
         /\ Upto(0, count[r]) \in Seq(Ids)
<1>1. Follows(r) /\ count[r] \in 0 .. MaxCallbacks /\ MaxCallbacks \in Nat
  BY CallbacksAssumption DEF AjaxInv, ListsFollow, AjaxTypeOK
<1>2. count[r] \in Ids
  BY <1>1 DEF Follows, Ids
<1>3. PICK z \in Nat : z = 0 /\ z <= count[r]
  BY <1>1
<1>4. Upto(z, count[r]) \in Seq(Ids)
  BY <1>1, <1>3, UptoSeq
<1>5. QED
  BY <1>1, <1>2, <1>3, <1>4 DEF Follows, Cut

(* ... and how the list that wins is resolved and what runs.               *)
RunAtEnd(kind, m, throws) ==
  <<>> \o Named(kind, Running(List(Upto(0, m)), throws))
       \o IF throws THEN <<>> ELSE Named("complete", Running(List(<<1>>), FALSE))

LEMMA Winning ==
  ASSUME NEW m \in Ids, NEW throws \in BOOLEAN, NEW kind \in {"done", "fail"}
  PROVE  \E n \in 1 .. m :
           /\ ResolveWith(List(Upto(0, m)), throws) = Fired(Upto(n, m))
           /\ Fired(Upto(n, m)) \in Deferred
           /\ ~throws => n = m
           /\ RunAtEnd(kind, m, throws) \in Seq(Calls)
           /\ RanFirst(RunAtEnd(kind, m, throws), kind, n)
<1>1. MaxCallbacks \in Nat /\ m \in Nat /\ m >= 1 /\ m \in 0 .. MaxCallbacks
      /\ 1 \in 0 .. MaxCallbacks
  BY CallbacksAssumption DEF Ids
<1>2. PICK z \in Nat, o \in 0 .. MaxCallbacks : z = 0 /\ o = 1 /\ z <= o /\ z <= m
  BY <1>1
<1>3. <<>> \in Seq(Calls) /\ RanFirst(<<>>, kind, z) /\ DOMAIN <<>> = {}
  BY <1>2 DEF RanFirst
<1>4. /\ <<>> \o Named(kind, Upto(z, o)) \in Seq(Calls)
      /\ RanFirst(<<>> \o Named(kind, Upto(z, o)), kind, o)
      /\ <<>> \o Named(kind, Upto(z, m)) \in Seq(Calls)
      /\ RanFirst(<<>> \o Named(kind, Upto(z, m)), kind, m)
  BY <1>1, <1>2, <1>3, RanMore
<1>5. CASE throws
  <2>1. /\ Running(List(Upto(0, m)), throws) = Upto(z, o)
        /\ ResolveWith(List(Upto(0, m)), throws) = Fired(Upto(o, m))
    BY <1>2, <1>5, ResolveFailing
  <2>2. Upto(o, m) \in Seq(Ids)
    BY <1>1, <1>2, UptoSeq
  <2>3. Fired(Upto(o, m)) \in Deferred /\ o \in 1 .. m
    BY <2>2, <1>1, <1>2, InDeferred
  <2> DEFINE calls == <<>> \o Named(kind, Upto(z, o))
  <2>4. calls \in Seq(Calls) /\ RanFirst(calls, kind, o)
    BY <1>4
  <2> HIDE DEF calls
  <2>5. calls \o <<>> = calls
    BY <2>4
  <2>6. QED
    BY <2>1, <2>3, <2>4, <2>5, <1>5 DEF calls, RunAtEnd
<1>6. CASE ~throws
  <2>1. Upto(z, m) \in Seq(Ids) /\ <<1>> \in Seq(Ids)
    BY <1>1, <1>2, UptoSeq, UptoOne
  <2>2. /\ Running(List(Upto(0, m)), throws) = Upto(z, m)
        /\ ResolveWith(List(Upto(0, m)), throws) = Fired(<<>>)
        /\ Running(List(<<1>>), FALSE) = <<1>>
    BY <2>1, <1>2, <1>6, ResolveAll
  <2>3. Upto(m, m) = <<>> /\ Fired(<<>>) \in Deferred /\ m \in 1 .. m
    <3>1. <<>> \in Seq(Ids)
      OBVIOUS
    <3>2. Fired(<<>>) \in Deferred
      BY <3>1, InDeferred
    <3>3. QED
      BY <3>2, <1>1, UptoNone
  <2> DEFINE calls == <<>> \o Named(kind, Upto(z, m))
  <2>4. calls \in Seq(Calls) /\ RanFirst(calls, kind, m)
    BY <1>4
  <2>5. \A i \in DOMAIN calls : calls[i][1] # "complete"
    <3>1. Named(kind, Upto(z, m)) \in Seq(Calls)
          /\ Len(Named(kind, Upto(z, m))) = Len(Upto(z, m))
          /\ \A i \in 1 .. Len(Upto(z, m)) : Named(kind, Upto(z, m))[i] = <<kind, Upto(z, m)[i]>>
      BY <2>1, NamedSeq
    <3>2. calls = Named(kind, Upto(z, m))
      BY <3>1
    <3> HIDE DEF calls
    <3>3. DOMAIN calls = 1 .. Len(Upto(z, m))
      BY <3>1, <3>2
    <3>4. QED
      BY <3>1, <3>2, <3>3
  <2> HIDE DEF calls
  <2>6. /\ calls \o Named("complete", <<1>>) \in Seq(Calls)
        /\ RanFirst(calls \o Named("complete", <<1>>), kind, m)
    BY <2>4, <2>5, <1>1, RanComplete
  <2>7. QED
    BY <2>2, <2>3, <2>6, <1>6 DEF calls, RunAtEnd
<1>7. QED
  BY <1>5, <1>6

(* The end of a request leaves the list that won fired, the other one      *)
(* cancelled.                                                              *)
LEMMA Finishing ==
  ASSUME AjaxInv, NEW r \in Request, state[r] = 1, NEW success \in BOOLEAN,
         Finish(r, success), state' = [state EXCEPT ![r] = 2],
         timer' = timer \ {r}, UNCHANGED opts
  PROVE  /\ ListsFollow'
         /\ done' \in [Request -> Deferred] /\ fail' \in [Request -> Deferred]
         /\ complete' \in [Request -> Deferred] /\ count' = count
         /\ ran' \in [Request -> Seq(Calls)]
<1> DEFINE m == count[r]
           throws == opts[r].throws
<1>1. /\ opts[r] \in Options /\ m \in Ids /\ ran[r] = <<>>
      /\ done[r] = List(Upto(0, m)) /\ fail[r] = List(Upto(0, m))
      /\ complete[r] = List(<<1>>) /\ r \notin broken /\ Upto(0, m) \in Seq(Ids)
  BY OpenRequest
<1>2. throws \in BOOLEAN
  BY <1>1 DEF Options
<1>3. AjaxTypeOK /\ <<1>> \in Seq(Ids)
  BY CallbacksAssumption DEF AjaxInv, Ids
<1>4. PICK kind \in {"done", "fail"} : kind = IF success THEN "done" ELSE "fail"
  OBVIOUS
<1> DEFINE lost == Cancel(List(<<>>))
           calls == RunAtEnd(kind, m, throws)
<1>5. PICK n \in 1 .. m : /\ ResolveWith(List(Upto(0, m)), throws) = Fired(Upto(n, m))
                          /\ Fired(Upto(n, m)) \in Deferred
                          /\ ~throws => n = m
                          /\ calls \in Seq(Calls) /\ RanFirst(calls, kind, n)
  BY <1>1, <1>2, Winning
<1>6. /\ done' = [done EXCEPT ![r] = IF success THEN Fired(Upto(n, m)) ELSE lost]
      /\ fail' = [fail EXCEPT ![r] = IF success THEN lost ELSE Fired(Upto(n, m))]
  BY <1>1, <1>5, InDeferred DEF Finish
<1>7. complete' = [complete EXCEPT ![r] = IF throws THEN @ ELSE Fired(<<>>)]
  <2>1. ResolveWith(List(<<1>>), FALSE) = Fired(<<>>)
    BY <1>3, ResolveAll
  <2>2. QED
    BY <2>1, <1>1 DEF Finish
<1>8. ran' = [ran EXCEPT ![r] = calls]
  BY <1>1, <1>4 DEF Finish, RunAtEnd
<1>9. broken' = (IF throws THEN broken \cup {r} ELSE broken) /\ count' = count
  BY DEF Finish
<1> HIDE DEF calls, m, throws
<1>10. lost \in Deferred /\ Fired(<<>>) \in Deferred
  <2>1. <<>> \in Seq(Ids)
    OBVIOUS
  <2>2. QED
    BY <2>1, InDeferred
<1> HIDE DEF lost
<1>11. /\ done' \in [Request -> Deferred] /\ fail' \in [Request -> Deferred]
       /\ complete' \in [Request -> Deferred]
  BY <1>3, <1>5, <1>6, <1>7, <1>10 DEF AjaxTypeOK
<1>12. ran' \in [Request -> Seq(Calls)]
  BY <1>3, <1>5, <1>8 DEF AjaxTypeOK, Calls, Ids
<1>13. ASSUME NEW q \in Request PROVE Follows(q)'
  <2>1. Follows(q)
    BY DEF AjaxInv, ListsFollow
  <2>2. CASE q # r
    BY <2>1, <2>2, <1>3, <1>6, <1>7, <1>8, <1>9, OthersFollow DEF AjaxTypeOK
  <2>3. CASE q = r
    <3>1. state'[r] = 2 /\ r \notin timer' /\ count'[r] = m /\ ran'[r] = calls
          /\ opts'[r] \in Options
      BY <1>1, <1>3, <1>8, <1>9 DEF AjaxTypeOK, m
    <3>2. r \notin broken' => ~throws
      BY <1>9
    <3>3. r \notin broken' => n = m /\ complete'[r].callbacks = <<>>
      BY <3>2, <1>3, <1>5, <1>7, ListFields DEF AjaxTypeOK
    <3>4. \E k \in 1 .. m : /\ Fired(Upto(n, m)) = Fired(Upto(k, m)) /\ RanFirst(calls, kind, k)
                            /\ r \notin broken' => k = m
      BY <3>3, <1>5
    <3>5. CASE success
      <4>1. kind = "done" /\ done'[r] = Fired(Upto(n, m)) /\ fail'[r] = lost
        BY <3>5, <1>3, <1>4, <1>6 DEF AjaxTypeOK
      <4>2. Ended(r, "done", done[r], fail[r])'
        BY <3>1, <3>3, <3>4, <4>1 DEF Ended, lost
      <4>3. QED
        BY <2>3, <3>1, <4>2 DEF Follows
    <3>6. CASE ~success
      <4>1. kind = "fail" /\ fail'[r] = Fired(Upto(n, m)) /\ done'[r] = lost
        BY <3>6, <1>3, <1>4, <1>6 DEF AjaxTypeOK
      <4>2. Ended(r, "fail", fail[r], done[r])'
        BY <3>1, <3>3, <3>4, <4>1 DEF Ended, lost
      <4>3. QED
        BY <2>3, <3>1, <4>2 DEF Follows
    <3>7. QED
      BY <3>5, <3>6
  <2>4. QED
    BY <2>2, <2>3
<1>14. QED
  BY <1>9, <1>11, <1>12, <1>13 DEF ListsFollow

(* Answer, network error, timeout and abort of an open request.            *)
LEMMA Ending ==
  ASSUME AjaxInv, NEW r \in Request, state[r] = 1, NEW answer, Done(r, answer)
  PROVE  AjaxInv'
<1> DEFINE success == Converted(r, answer)
<1>1. success \in BOOLEAN
  BY DEF Converted
<1>2. /\ state' = [state EXCEPT ![r] = 2] /\ timer' = timer \ {r}
      /\ Finish(r, success) /\ PutBack(r) /\ UNCHANGED <<opts, name, previous, jsc>>
      /\ data' = [data EXCEPT ![r] = IF ~success THEN @
                                     ELSE IF opts[r].jsonp THEN container[r] ELSE r]
  BY DEF Done
<1> HIDE DEF success
<1>3. AjaxTypeOK /\ NamesOwn
  BY DEF AjaxInv
<1>4. opts[r] \in Options /\ r \notin broken /\ r \notin Cut
  BY OpenRequest
<1>5. /\ ListsFollow'
      /\ done' \in [Request -> Deferred] /\ fail' \in [Request -> Deferred]
      /\ complete' \in [Request -> Deferred] /\ count' = count
      /\ ran' \in [Request -> Seq(Calls)]
  BY <1>1, <1>2, Finishing
<1>6. container' = container
  BY <1>2, <1>3 DEF PutBack, NamesOwn
<1>7. /\ opts[r].jsonp => window' = [window EXCEPT ![name[r]] = Unset]
      /\ ~opts[r].jsonp => window' = window
  BY <1>2, <1>3 DEF PutBack, NamesOwn
<1>8. Sent' = Sent
  BY <1>2, <1>3 DEF Sent, AjaxTypeOK
<1>9. NamesOwn'
  <2>1. /\ window' \in [Name -> Request \cup {Unset}]
        /\ \A n \in Name : window'[n] # Unset => window'[n] = window[n]
    <3>1. opts[r].jsonp => r \in Sent /\ name[r] \in Name
      <4>1. opts[r].jsonp => r \in Sent
        BY DEF Sent
      <4>2. \A q \in Sent : name[q] \in 0 .. jsc - 1
        BY <1>3 DEF NamesOwn
      <4>3. Cardinality(Request) \in Nat /\ jsc \in 0 .. Cardinality(Request)
        BY <1>3, RequestAssumption, FS_CardinalityType DEF AjaxTypeOK, Name
      <4>4. QED
        BY <4>1, <4>2, <4>3 DEF Name
    <3>2. window \in [Name -> Request \cup {Unset}]
      BY <1>3 DEF AjaxTypeOK
    <3>3. QED
      BY <3>1, <3>2, <1>7
  <2>2. QED
    BY <2>1, <1>2, <1>3, <1>6, <1>8 DEF NamesOwn
<1>10. /\ active' = IF FireGlobals(opts[r]) /\ ~opts[r].throws THEN active - 1 ELSE active
       /\ broken' = IF opts[r].throws THEN broken \cup {r} ELSE broken
  BY <1>2 DEF Finish, EndCounts
<1>11. /\ Open \in SUBSET Request /\ Cut \in SUBSET Request /\ r \notin Cut
       /\ FireGlobals(opts[r]) => r \in Open
       /\ ~FireGlobals(opts[r]) => r \notin Open
       /\ Open' = Open \ {r}
       /\ opts[r].throws /\ FireGlobals(opts[r]) => Cut' = Cut \cup {r}
       /\ ~opts[r].throws \/ ~FireGlobals(opts[r]) => Cut' = Cut
  BY <1>2, <1>3, <1>4, <1>10 DEF Open, Cut, AjaxTypeOK
<1>12. active' = Cardinality(Open') + Cardinality(Cut')
  <2>1. active = Cardinality(Open) + Cardinality(Cut)
    BY Counting DEF AjaxInv
  <2>2. /\ Cardinality(Open) \in Nat /\ Cardinality(Cut) \in Nat
        /\ r \in Open => Cardinality(Open \ {r}) = Cardinality(Open) - 1
        /\ Cardinality(Cut \cup {r}) = Cardinality(Cut) + 1
        /\ r \notin Open => Open \ {r} = Open
    BY <1>11, CountMore
  <2>3. CASE ~FireGlobals(opts[r])
    BY <2>1, <2>2, <2>3, <1>10, <1>11
  <2>4. CASE FireGlobals(opts[r]) /\ opts[r].throws
    <3>1. active' = active /\ Open' = Open \ {r} /\ Cut' = Cut \cup {r} /\ r \in Open
      BY <2>4, <1>10, <1>11
    <3>2. QED
      BY <2>1, <2>2, <3>1
  <2>5. CASE FireGlobals(opts[r]) /\ ~opts[r].throws
    BY <2>1, <2>2, <2>5, <1>10, <1>11
  <2>6. QED
    BY <2>3, <2>4, <2>5
<1>13. ActiveCounts'
  BY <1>12 DEF ActiveCounts, Open, Cut
<1>14. OwnAnswer'
  BY <1>2, <1>3 DEF AjaxInv, OwnAnswer, NamesOwn, AjaxTypeOK
<1>15. Open' \cap Cut' = {} /\ Open' \in SUBSET Request /\ Cut' \in SUBSET Request
  <2>1. Open \cap Cut = {}
    BY DEF Open, Cut, AjaxInv, ListsFollow, Follows, AjaxTypeOK
  <2>2. QED
    BY <2>1, <1>11
<1>16. AjaxTypeOK'
  <2>1. active' \in 0 .. Cardinality(Request)
    BY <1>12, <1>15, DisjointCount
  <2>2. state' \in [Request -> 0 .. 2] /\ data' \in [Request -> Request \cup {Unset}]
        /\ timer' \subseteq Request /\ broken' \subseteq Request
    BY <1>2, <1>3, <1>10 DEF AjaxTypeOK
  <2>3. window' \in [Name -> Request \cup {Unset}]
    BY <1>3, <1>7 DEF AjaxTypeOK
  <2>4. QED
    BY <2>1, <2>2, <2>3, <1>2, <1>3, <1>5, <1>6 DEF AjaxTypeOK, Calls, Ids
<1>17. QED
  BY <1>5, <1>9, <1>13, <1>14, <1>16 DEF AjaxInv

(* A script finds the function of its own request.                         *)
LEMMA ScriptRunning ==
  ASSUME AjaxInv, NEW r \in Request, ScriptRuns(r)
  PROVE  AjaxInv'
<1>1. /\ state[r] = 1 /\ opts[r].jsonp /\ window[name[r]] # Unset
      /\ container' = [container EXCEPT ![window[name[r]]] = r]
      /\ UNCHANGED <<state, opts, lists, data, timer, active, broken, window, name, previous, jsc>>
  BY DEF ScriptRuns
<1>2. AjaxTypeOK /\ NamesOwn /\ ListsFollow /\ ActiveCounts /\ OwnAnswer
  BY DEF AjaxInv
<1>3. window[name[r]] = r
  <2>1. r \in Sent
    BY <1>1 DEF Sent
  <2>2. Cardinality(Request) \in Nat /\ jsc \in 0 .. Cardinality(Request)
    BY <1>2, RequestAssumption, FS_CardinalityType DEF AjaxTypeOK, Name
  <2>3. name[r] \in Name
    BY <2>1, <2>2, <1>2 DEF NamesOwn, Name
  <2>4. window[name[r]] \in Sent /\ name[window[name[r]]] = name[r]
    BY <2>3, <1>1, <1>2 DEF NamesOwn
  <2>5. QED
    BY <2>1, <2>4, <1>2 DEF NamesOwn
<1>4. container' = [container EXCEPT ![r] = r]
  BY <1>1, <1>3
<1>5. Sent' = Sent
  BY <1>1 DEF Sent
<1>6. NamesOwn'
  BY <1>1, <1>2, <1>4, <1>5 DEF NamesOwn, AjaxTypeOK
<1>7. AjaxTypeOK'
  <2>1. container \in [Request -> Request \cup {Unset}]
    BY <1>2 DEF AjaxTypeOK
  <2>2. container' \in [Request -> Request \cup {Unset}]
    BY <1>4, <2>1
  <2>3. /\ UNCHANGED <<state, opts, data, timer, active, broken, window, name, previous, jsc>>
        /\ UNCHANGED <<done, fail, complete, ran, count>>
    BY <1>1 DEF lists
  <2>4. QED
    BY <1>2, <2>2, <2>3 DEF AjaxTypeOK
<1>8. ListsFollow'
  BY <1>1, <1>2, OthersFollow DEF ListsFollow, lists
<1>9. ActiveCounts' /\ OwnAnswer'
  BY <1>1, <1>2 DEF ActiveCounts, OwnAnswer
<1>10. QED
  BY <1>6, <1>7, <1>8, <1>9 DEF AjaxInv

(* A registration at once adds what it runs, if anything, to what ran.     *)
LEMMA NothingMore ==
  ASSUME NEW s \in Seq(Calls), NEW kind
  PROVE  s \o Named(kind, <<>>) = s
<1>1. Named(kind, <<>>) = <<>>
  BY DEF Named
<1>2. QED
  BY <1>1

LEMMA Registering ==
  ASSUME AjaxInv, NEW r \in Request, Always(r)
  PROVE  AjaxInv'
<1> DEFINE m == count[r]
<1>1. /\ state[r] # 0 /\ m < MaxCallbacks
      /\ count' = [count EXCEPT ![r] = m + 1]
      /\ done' = [done EXCEPT ![r] = Registered(done[r], m + 1)]
      /\ fail' = [fail EXCEPT ![r] = Registered(fail[r], m + 1)]
      /\ ran' = [ran EXCEPT ![r] = ran[r] \o Named("done", RunsAtOnce(done[r], m + 1))
                                          \o Named("fail", RunsAtOnce(fail[r], m + 1))]
      /\ UNCHANGED <<state, opts, complete, data, timer, active, broken, jsonp>>
  BY DEF Always
<1>2. AjaxTypeOK /\ NamesOwn /\ ListsFollow /\ ActiveCounts /\ OwnAnswer
  BY DEF AjaxInv
<1>3. /\ MaxCallbacks \in Nat /\ m \in 0 .. MaxCallbacks /\ m \in Nat /\ m + 1 <= MaxCallbacks
      /\ m + 1 \in 0 .. MaxCallbacks
  BY <1>1, <1>2, CallbacksAssumption DEF AjaxTypeOK
<1>4. ran[r] \in Seq(Calls)
  BY <1>2 DEF AjaxTypeOK, Calls, Ids
<1>5. Follows(r)
  BY <1>2 DEF ListsFollow
<1> DEFINE lost == Cancel(List(<<>>))
<1>6. /\ Registered(lost, m + 1) = lost /\ RunsAtOnce(lost, m + 1) = <<>>
  BY RegisterCancelled
<1>7. <<>> \in Seq(Ids)
  OBVIOUS
<1>8. lost \in Deferred /\ Fired(<<>>) \in Deferred
  BY <1>7, InDeferred
<1>9. /\ done'[r] = Registered(done[r], m + 1) /\ fail'[r] = Registered(fail[r], m + 1)
      /\ count'[r] = m + 1 /\ complete'[r] = complete[r] /\ state'[r] = state[r]
      /\ ran'[r] = ran[r] \o Named("done", RunsAtOnce(done[r], m + 1))
                          \o Named("fail", RunsAtOnce(fail[r], m + 1))
  BY <1>1, <1>2 DEF AjaxTypeOK
<1> HIDE DEF lost
<1>10. /\ done'[r] \in Deferred /\ fail'[r] \in Deferred /\ ran'[r] \in Seq(Calls)
       /\ Follows(r)'
  <2>1. CASE state[r] = 1
    <3>1. PICK z \in Nat, p \in 0 .. MaxCallbacks : z = 0 /\ p = m + 1 /\ z <= p
      BY <1>3
    <3>2. List(Upto(z, p)) \in Deferred
      <4>1. Upto(z, p) \in Seq(Ids)
        BY <3>1, UptoSeq
      <4>2. QED
        BY <4>1, InDeferred
    <3>3. /\ done[r] = List(Upto(0, m)) /\ fail[r] = List(Upto(0, m)) /\ ran[r] = <<>>
      BY <2>1, <1>5 DEF Follows
    <3>4. /\ Registered(List(Upto(0, m)), m + 1) = List(Upto(0, m + 1))
          /\ RunsAtOnce(List(Upto(0, m)), m + 1) = <<>>
      BY <1>3, RegisterWaiting
    <3>5. ran'[r] = ran[r]
      BY <3>3, <3>4, <1>4, <1>9, NothingMore
    <3>6. /\ done'[r] = List(Upto(0, m + 1)) /\ fail'[r] = List(Upto(0, m + 1))
          /\ ran'[r] = <<>>
      BY <3>3, <3>4, <3>5, <1>9
    <3>7. Follows(r)'
      BY <2>1, <3>6, <1>1, <1>3, <1>5, <1>9 DEF Follows, jsonp
    <3>8. QED
      BY <3>1, <3>2, <3>5, <3>6, <3>7, <1>4
  <2>2. CASE state[r] = 2
    <3>1. ASSUME NEW kind \in {"done", "fail"}, NEW n \in 1 .. m, RanFirst(ran[r], kind, n)
          PROVE  /\ Registered(Fired(Upto(n, m)), m + 1) = Fired(Upto(m + 1, m + 1))
                 /\ ran[r] \o Named(kind, RunsAtOnce(Fired(Upto(n, m)), m + 1)) \in Seq(Calls)
                 /\ RanFirst(ran[r] \o Named(kind, RunsAtOnce(Fired(Upto(n, m)), m + 1)),
                             kind, m + 1)
                 /\ Fired(Upto(m + 1, m + 1)) \in Deferred
      <4>1. n \in Nat /\ n <= m
        BY <1>3
      <4>2. PICK p \in 0 .. MaxCallbacks : p = m + 1 /\ n <= p
        BY <1>3, <4>1
      <4>3. /\ Registered(Fired(Upto(n, m)), m + 1) = Fired(<<>>)
            /\ RunsAtOnce(Fired(Upto(n, m)), m + 1) = Upto(n, m + 1)
        BY <1>3, <4>1, RegisterFired
      <4>4. Upto(p, p) = <<>>
        BY UptoNone
      <4>5. /\ ran[r] \o Named(kind, Upto(n, p)) \in Seq(Calls)
            /\ RanFirst(ran[r] \o Named(kind, Upto(n, p)), kind, p)
        BY <3>1, <4>1, <4>2, <1>4, RanMore
      <4>6. QED
        BY <4>2, <4>3, <4>4, <4>5, <1>8
    <3>2. CASE Ended(r, "done", done[r], fail[r])
      <4>1. PICK n \in 1 .. m : done[r] = Fired(Upto(n, m)) /\ RanFirst(ran[r], "done", n)
        BY <3>2 DEF Ended
      <4>2. fail[r] = lost /\ (r \notin broken => complete[r].callbacks = <<>>)
        BY <3>2 DEF Ended, lost
      <4> DEFINE more == ran[r] \o Named("done", RunsAtOnce(done[r], m + 1))
      <4>3. more \in Seq(Calls) /\ RanFirst(more, "done", m + 1)
            /\ done'[r] = Fired(Upto(m + 1, m + 1)) /\ done'[r] \in Deferred
        BY <3>1, <4>1, <1>9
      <4> HIDE DEF more
      <4>4. ran'[r] = more
        BY <4>2, <4>3, <1>6, <1>9, NothingMore DEF more
      <4>5. fail'[r] = lost
        BY <4>2, <1>6, <1>9
      <4>6. m + 1 \in 1 .. m + 1
        BY <1>3
      <4>7. Ended(r, "done", done[r], fail[r])'
        BY <4>2, <4>3, <4>4, <4>5, <4>6, <1>1, <1>9 DEF Ended, lost
      <4>8. Follows(r)'
        BY <2>2, <4>7, <1>1, <1>5, <1>9 DEF Follows
      <4>9. QED
        BY <4>3, <4>4, <4>5, <4>8, <1>8
    <3>3. CASE Ended(r, "fail", fail[r], done[r])
      <4>1. PICK n \in 1 .. m : fail[r] = Fired(Upto(n, m)) /\ RanFirst(ran[r], "fail", n)
        BY <3>3 DEF Ended
      <4>2. done[r] = lost /\ (r \notin broken => complete[r].callbacks = <<>>)
        BY <3>3 DEF Ended, lost
      <4> DEFINE more == ran[r] \o Named("fail", RunsAtOnce(fail[r], m + 1))
      <4>3. more \in Seq(Calls) /\ RanFirst(more, "fail", m + 1)
            /\ fail'[r] = Fired(Upto(m + 1, m + 1)) /\ fail'[r] \in Deferred
        BY <3>1, <4>1, <1>9
      <4>4. ran[r] \o Named("done", RunsAtOnce(done[r], m + 1)) = ran[r]
        BY <4>2, <1>4, <1>6, NothingMore
      <4>5. ran'[r] = more
        BY <4>4, <1>9
      <4> HIDE DEF more
      <4>6. done'[r] = lost
        BY <4>2, <1>6, <1>9
      <4>7. m + 1 \in 1 .. m + 1
        BY <1>3
      <4>8. Ended(r, "fail", fail[r], done[r])'
        BY <4>2, <4>3, <4>5, <4>6, <4>7, <1>1, <1>9 DEF Ended, lost
      <4>9. Follows(r)'
        BY <2>2, <4>8, <1>1, <1>5, <1>9 DEF Follows
      <4>10. QED
        BY <4>3, <4>5, <4>6, <4>9, <1>8
    <3>4. QED
      BY <2>2, <3>2, <3>3, <1>5 DEF Follows
  <2>3. QED
    BY <2>1, <2>2, <1>1, <1>2 DEF AjaxTypeOK
<1>11. ListsFollow'
  <2> SUFFICES ASSUME NEW q \in Request PROVE Follows(q)'
    BY DEF ListsFollow
  <2>1. CASE q # r
    BY <2>1, <1>1, <1>2, OthersFollow DEF ListsFollow, AjaxTypeOK
  <2>2. QED
    BY <2>1, <1>10
<1>12. NamesOwn'
  BY <1>1, <1>2 DEF NamesOwn, Sent, jsonp
<1>13. ActiveCounts' /\ OwnAnswer'
  BY <1>1, <1>2 DEF ActiveCounts, OwnAnswer
<1>14. AjaxTypeOK'
  <2>1. done' \in [Request -> Deferred] /\ fail' \in [Request -> Deferred]
        /\ count' \in [Request -> 0 .. MaxCallbacks]
    BY <1>1, <1>2, <1>3, <1>9, <1>10 DEF AjaxTypeOK
  <2>2. ran' \in [Request -> Seq(Calls)]
    BY <1>1, <1>2, <1>9, <1>10 DEF AjaxTypeOK, Calls, Ids
  <2>3. QED
    BY <2>1, <2>2, <1>1, <1>2 DEF AjaxTypeOK, jsonp, Calls, Ids
<1>15. QED
  BY <1>11, <1>12, <1>13, <1>14 DEF AjaxInv

LEMMA AjaxStep == AjaxInv /\ [AjaxNext]_ajaxVars => AjaxInv'
<1> SUFFICES ASSUME AjaxInv, [AjaxNext]_ajaxVars PROVE AjaxInv'
  OBVIOUS
<1>1. CASE UNCHANGED ajaxVars
  BY <1>1 DEF AjaxInv, AjaxTypeOK, ListsFollow, Follows, Ended, NamesOwn, Sent, ActiveCounts,
       OwnAnswer, ajaxVars, lists, jsonp
<1>2. ASSUME NEW r \in Request, SyncEnds(r) \/ Event(r)
      PROVE  AjaxInv'
  <2>1. CASE \E o \in Options : Send(r, o)
    BY <2>1, Sending
  <2>2. CASE Answer(r)
    BY <2>2, Ending DEF Answer
  <2>3. CASE ScriptRuns(r)
    BY <2>3, ScriptRunning
  <2>4. CASE NetworkError(r)
    BY <2>4, Ending DEF NetworkError
  <2>5. CASE Timeout(r)
    <3>1. state[r] = 1
      BY <2>5 DEF Timeout, AjaxInv, ListsFollow, Follows
    <3>2. QED
      BY <2>5, <3>1, Ending DEF Timeout
  <2>6. CASE Abort(r)
    <3>1. CASE state[r] = 2
      BY <2>6, <3>1, <1>1 DEF Abort, Done
    <3>2. CASE state[r] # 2
      <4>1. state[r] = 1
        BY <2>6, <3>2 DEF Abort, AjaxInv, AjaxTypeOK
      <4>2. QED
        BY <2>6, <4>1, Ending DEF Abort
    <3>3. QED
      BY <3>1, <3>2
  <2>7. CASE Always(r)
    BY <2>7, Registering
  <2>8. QED
    BY <1>2, <2>1, <2>2, <2>3, <2>4, <2>5, <2>6, <2>7 DEF SyncEnds, Event
<1>3. QED
  BY <1>1, <1>2 DEF AjaxNext

-------------------------------------------------------------------------------
(* In every reachable state, for any number of requests and callbacks:     *)
(* the lists of a request go with its state, every JSONP request has a     *)
(* name of its own, and jQuery.active is the number of open requests.      *)
THEOREM AjaxInvariance == AjaxSpec => []AjaxInv
<1>1. AjaxInit => AjaxInv
  BY AjaxInitial
<1>2. AjaxInv /\ [AjaxNext]_ajaxVars => AjaxInv'
  BY AjaxStep
<1>3. QED
  BY <1>1, <1>2, PTL DEF AjaxSpec

(* Whatever the order of answer, timer, abort and late registrations, a    *)
(* request either succeeds or fails, and its callbacks run once each, in   *)
(* the order they were registered.                                         *)
THEOREM RequestsEndOnce == AjaxSpec => []OneEnd
<1>1. AjaxInv => OneEnd
  <2> SUFFICES ASSUME AjaxInv, NEW r \in Request,
                      NEW i \in DOMAIN ran[r], NEW j \in DOMAIN ran[r]
               PROVE  LET calls == ran[r] IN
                      /\ calls[i][1] = "done" => calls[j][1] # "fail"
                      /\ calls[i][1] = "complete" /\ calls[j][1] = "complete" => i = j
                      /\ i < j /\ calls[i][1] = calls[j][1] => calls[i][2] < calls[j][2]
                      /\ calls[i][1] # "complete" /\ calls[i][2] > 1 =>
                           \E k \in 1 .. i - 1 : calls[k] = <<calls[i][1], calls[i][2] - 1>>
    BY DEF OneEnd
  <2>1. ran[r] \in Seq(Calls) /\ count[r] \in 0 .. MaxCallbacks /\ MaxCallbacks \in Nat
        /\ state[r] \in 0 .. 2 /\ Follows(r)
    BY CallbacksAssumption DEF AjaxInv, AjaxTypeOK, ListsFollow, Calls, Ids
  <2>2. ran[r] # <<>>
    OBVIOUS
  <2>3. state[r] = 2
    BY <2>1, <2>2 DEF Follows
  <2>4. PICK kind \in {"done", "fail"}, n \in Nat : RanFirst(ran[r], kind, n)
    <3>1. PICK kind \in {"done", "fail"} :
            \E n \in 1 .. count[r] : RanFirst(ran[r], kind, n)
      <4>1. Ended(r, "done", done[r], fail[r]) \/ Ended(r, "fail", fail[r], done[r])
        BY <2>1, <2>3 DEF Follows
      <4>2. CASE Ended(r, "done", done[r], fail[r])
        BY <4>2 DEF Ended
      <4>3. CASE Ended(r, "fail", fail[r], done[r])
        BY <4>3 DEF Ended
      <4>4. QED
        BY <4>1, <4>2, <4>3
    <3>2. QED
      BY <2>1, <3>1
  <2>5. QED
    BY <2>1, <2>4, RanFirstIsOneEnd
<1>2. QED
  BY <1>1, AjaxInvariance, PTL

(* jQuery.active never loses count of the open requests, whichever ends    *)
(* first, unless a callback failed.                                        *)
THEOREM ActiveIsRight == AjaxSpec => []ActiveCounts
<1>1. AjaxInv => ActiveCounts
  BY DEF AjaxInv
<1>2. QED
  BY <1>1, AjaxInvariance, PTL

(* A callback registered on a request, before or after its end, is never   *)
(* left waiting on it.                                                     *)
THEOREM NobodyWaits == AjaxSpec => []NothingWaits
<1>1. AjaxInv => NothingWaits
  <2> SUFFICES ASSUME AjaxInv, NEW r \in Request, state[r] = 2, r \notin broken
               PROVE  done[r].callbacks \o fail[r].callbacks \o complete[r].callbacks = <<>>
    BY DEF NothingWaits
  <2>1. Follows(r) /\ count[r] \in 0 .. MaxCallbacks
    BY DEF AjaxInv, AjaxTypeOK, ListsFollow
  <2>2. ASSUME NEW kind, NEW winner, NEW loser, Ended(r, kind, winner, loser)
        PROVE  winner.callbacks = <<>> /\ loser.callbacks = <<>> /\ complete[r].callbacks = <<>>
    <3>1. loser = Cancel(List(<<>>)) /\ complete[r].callbacks = <<>>
      BY <2>2, Zenon DEF Ended
    <3>2. winner = Fired(Upto(count[r], count[r]))
      <4>1. PICK n \in 1 .. count[r] : /\ winner = Fired(Upto(n, count[r]))
                                       /\ r \notin broken => n = count[r]
        BY <2>2 DEF Ended
      <4>2. QED
        BY <4>1
    <3>3. Upto(count[r], count[r]) = <<>>
      BY <2>1, UptoNone
    <3>4. QED
      BY <3>1, <3>2, <3>3, ListFields
  <2>3. done[r].callbacks = <<>> /\ fail[r].callbacks = <<>> /\ complete[r].callbacks = <<>>
    BY <2>1, <2>2 DEF Follows
  <2>4. QED
    BY <2>3
<1>2. QED
  BY <1>1, AjaxInvariance, PTL

(* No JSONP request is ever given the response of another one.             *)
THEOREM AnswersAreOwn == AjaxSpec => []OwnAnswer
<1>1. AjaxInv => OwnAnswer
  BY DEF AjaxInv
<1>2. QED
  BY <1>1, AjaxInvariance, PTL
================================================================================
