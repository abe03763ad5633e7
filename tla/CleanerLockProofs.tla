--------------------------- MODULE CleanerLockProofs ---------------------------
(***************************************************************************)
(* The cleaner lock is exclusive, for any number of nodes, where the       *)
(* database locks the row and a node has one run of clean() at a time.     *)
(***************************************************************************)
EXTENDS CleanerLock, TLAPS

OneRunPerNode == \A i, j \in Slot : i = j

\* Then a unique id identifies a run.
LEMMA HostIdentifiesRun ==
  ASSUME OneRunPerNode, NEW q \in Run, NEW r \in Run, Host(q) = Host(r)
  PROVE  q = r
<1>1. PICK n \in Node, i \in Slot : q = <<n, i>>
  BY DEF Run
<1>2. PICK m \in Node, j \in Slot : r = <<m, j>>
  BY DEF Run
<1>3. i = j
  BY DEF OneRunPerNode
<1>4. n = m
  BY <1>1, <1>2 DEF Host
<1>5. QED
  BY <1>1, <1>2, <1>3, <1>4

LEMMA LockInit == Init => LockInv
<1> SUFFICES ASSUME Init PROVE LockInv
  OBVIOUS
<1>1. TypeOK
  BY CrashBound, BooleanOptions DEF Init, TypeOK, States
<1>2. HolderOwnsRow /\ NoneInBetween
  BY DEF Init, HolderOwnsRow, NoneInBetween
<1>3. QED
  BY <1>1, <1>2 DEF LockInv

\* A new owner displaces nobody who is within its time.
LEMMA OwnKeepsInv ==
  ASSUME LockInv, NEW r \in Run, CanAcquire, Own(r),
         UNCHANGED <<up, crashes, rowLocked>>, rowLocked
  PROVE  LockInv'
<1>1. TypeOK'
  BY DEF LockInv, TypeOK, Own, States
<1>2. ASSUME NEW q \in Run, job'[q] = "clean", q \notin late'
      PROVE  row' = q
  <2>1. CASE q = r
    BY <2>1 DEF Own
  <2>2. CASE q # r
    <3>1. job[q] = "clean" /\ q \notin late
      BY <1>2, <2>2 DEF LockInv, TypeOK, Own
    <3>2. row = q
      BY <3>1 DEF LockInv, HolderOwnsRow
    <3>3. QED
      BY <3>1, <3>2, NoRunValues DEF CanAcquire
  <2>3. QED
    BY <2>1, <2>2
<1>3. NoneInBetween'
  BY DEF LockInv, TypeOK, NoneInBetween, Own
<1>4. QED
  BY <1>1, <1>2, <1>3 DEF LockInv, HolderOwnsRow

\* A run gives back no row but its own.
LEMMA ReleaseKeepsInv ==
  ASSUME OneRunPerNode, LockInv, NEW r \in Run, Release(r)
  PROVE  LockInv'
<1>1. TypeOK'
  BY DEF LockInv, TypeOK, Release, States
<1>2. ASSUME rowLocked', NEW q \in Run, job'[q] = "clean", q \notin late'
      PROVE  row' = q
  <2>1. rowLocked /\ q # r /\ job[q] = "clean" /\ q \notin late
    BY <1>2 DEF LockInv, TypeOK, Release
  <2>2. row = q
    BY <2>1 DEF LockInv, HolderOwnsRow
  <2>3. ~Releases(r)
    BY <2>1, <2>2, HostIdentifiesRun DEF Releases
  <2>4. QED
    BY <2>2, <2>3 DEF Release
<1>3. NoneInBetween'
  BY DEF LockInv, TypeOK, NoneInBetween, Release
<1>4. QED
  BY <1>1, <1>2, <1>3 DEF LockInv, HolderOwnsRow

LEMMA LockStep ==
  ASSUME OneRunPerNode, LockInv, [Next]_vars
  PROVE  LockInv'
<1>1. ASSUME NEW r \in Run, Clean(r) PROVE LockInv'
  <2>1. CASE Acquire(r)
    BY <2>1, OwnKeepsInv DEF Acquire
  <2>2. CASE AcquireRead(r) \/ AcquireInsert(r) \/ AcquireUpdate(r)
    <3>1. ~rowLocked
      BY <2>2 DEF LockInv, NoneInBetween, AcquireRead, AcquireInsert, AcquireUpdate
    <3>2. ~rowLocked'
      BY <2>2, <3>1 DEF AcquireRead, AcquireInsert, AcquireUpdate
    <3>3. TypeOK'
      BY <2>2 DEF LockInv, TypeOK, States, AcquireRead, AcquireInsert, AcquireUpdate, Own
    <3>4. QED
      BY <3>2, <3>3 DEF LockInv, HolderOwnsRow, NoneInBetween
  <2>3. CASE Release(r)
    BY <2>3, ReleaseKeepsInv
  <2>4. QED
    BY <1>1, <2>1, <2>2, <2>3 DEF Clean
<1>2. ASSUME NEW r \in Run, TimeOut(r) PROVE LockInv'
  BY <1>2 DEF LockInv, TypeOK, HolderOwnsRow, NoneInBetween, TimeOut
<1>3. ASSUME NEW n \in Node, Crash(n) PROVE LockInv'
  <2>1. job' \in [Run -> States]
    BY <1>3 DEF LockInv, TypeOK, Crash, States
  <2>2. crashes' \in 0..MaxCrashes
    BY <1>3, CrashBound DEF LockInv, TypeOK, Crash
  <2>3. \A q \in Run : job'[q] \in {"idle", job[q]}
    BY <1>3 DEF LockInv, TypeOK, Crash
  <2>4. UNCHANGED <<row, late, rowLocked>> /\ up' \subseteq up
    BY <1>3 DEF Crash
  <2>5. QED
    BY <2>1, <2>2, <2>3, <2>4 DEF LockInv, TypeOK, HolderOwnsRow, NoneInBetween
<1>4. ASSUME NEW n \in Node, Restart(n) PROVE LockInv'
  BY <1>4 DEF LockInv, TypeOK, HolderOwnsRow, NoneInBetween, Restart
<1>5. CASE UNCHANGED vars
  BY <1>5 DEF LockInv, TypeOK, HolderOwnsRow, NoneInBetween, vars
<1>6. QED
  BY <1>1, <1>2, <1>3, <1>4, <1>5 DEF Next

\* The row names whoever holds the lock, at every moment of every interleaving,
\* crash and expiry, where a node has one run of clean() at a time.
THEOREM LockInvariance ==
  ASSUME OneRunPerNode
  PROVE  Spec => []LockInv
<1>1. LockInv /\ [Next]_vars => LockInv'
  BY LockStep
<1>2. QED
  BY LockInit, <1>1, PTL DEF Spec

\* Where the row is locked and a node has one run of clean() at a time, two
\* nodes clean together only after the lock of one has expired.
THEOREM LockIsExclusive ==
  ASSUME OneRunPerNode
  PROVE  Spec => []Exclusive
<1>1. LockInv => Exclusive
  <2> SUFFICES ASSUME LockInv, NEW q \in Run, NEW r \in Run,
                      rowLocked, job[q] = "clean", job[r] = "clean", Host(q) # Host(r),
                      q \notin late, r \notin late
               PROVE  FALSE
    BY DEF Exclusive
  <2>1. row = q /\ row = r
    BY DEF LockInv, HolderOwnsRow
  <2>2. QED
    BY <2>1
<1>2. QED
  BY <1>1, LockInvariance, PTL
===============================================================================
