------------------------------ MODULE CleanerLock ------------------------------
(***************************************************************************)
(* The database lock under which the nodes of a cluster run the registry   *)
(* cleaner: JpaLockingStrategy, and the deprecated JdbcLockingStrategy     *)
(* that it replaces.  Quartz starts a run of clean() on a node even while  *)
(* an earlier one is still going on; all the runs of a node use the same   *)
(* unique id.  Nodes crash and restart.                                    *)
(*                                                                         *)
(* Time is abstract: the time-out of an acquisition passes at any moment.  *)
(***************************************************************************)
EXTENDS Naturals

CONSTANTS
  Node,        \* the unique ids
  Slot,        \* the runs of clean() that a node may have at a time
  Platforms,   \* whether the database may lock the row and whether it may not
  Expires,     \* the time-out is positive; in JPA, 0 stands for no time-out
  MaxCrashes,  \* bound on the number of crashes
  None, NoRow

ASSUME BooleanOptions == Platforms \subseteq BOOLEAN /\ Expires \in BOOLEAN
ASSUME CrashBound == MaxCrashes \in Nat

Run == Node \X Slot
Host(r) == r[1]

ASSUME NoRunValues == None \notin Run /\ NoRow \notin Run

VARIABLES
  row,       \* the run whose acquisition the row records: UNIQUE_ID is its node,
             \* EXPIRATION_DATE its deadline; None when these are null, NoRow
             \* before the first acquisition
  job,     \* job[r]: "clean" between acquire() and release()
  late,      \* the runs whose deadline has passed
  up,        \* the nodes that are up
  crashes,   \* how many crashes there were
  rowLocked  \* acquire locks the row: JPA, FOR UPDATE; not so on HSQL

vars == <<row, job, late, up, crashes, rowLocked>>

Init ==
  /\ row = NoRow
  /\ job = [r \in Run |-> "idle"]
  /\ late = {}
  /\ up = Node
  /\ crashes = 0
  /\ rowLocked \in Platforms

-------------------------------------------------------------------------------

\* a bug: the expiration date is not looked at
CanAcquireFreeOnly == row \in {None, NoRow}

\* No one possesses the lock, or its expiration date has passed.
CanAcquire == row \in {None, NoRow} \/ row \in late

\* Writes the unique id and the expiration date.
Own(r) ==
  /\ row' = r
  /\ late' = late \ {r}
  /\ job' = [job EXCEPT ![r] = "clean"]

\* acquire() in a transaction that keeps others from the row.  When there is no
\* row yet, its primary key lets one of two concurrent creations commit.
Acquire(r) ==
  /\ rowLocked
  /\ Host(r) \in up /\ job[r] = "idle"
  /\ CanAcquire
  /\ Own(r)
  /\ UNCHANGED <<up, crashes, rowLocked>>

\* acquire() on a platform without FOR UPDATE: the query ...
AcquireRead(r) ==
  /\ ~rowLocked
  /\ Host(r) \in up /\ job[r] = "idle"
  /\ CanAcquire
  /\ job' = [job EXCEPT ![r] = IF row = NoRow THEN "insert" ELSE "update"]
  /\ UNCHANGED <<row, late, up, crashes, rowLocked>>

\* ... then the creation of the row, which fails on a duplicate key, ...
AcquireInsert(r) ==
  /\ job[r] = "insert"
  /\ \/ row = NoRow /\ Own(r)
     \/ row # NoRow /\ job' = [job EXCEPT ![r] = "idle"] /\ UNCHANGED <<row, late>>
  /\ UNCHANGED <<up, crashes, rowLocked>>

\* ... or its update, whoever owns it by now.
AcquireUpdate(r) ==
  /\ job[r] = "update"
  /\ Own(r)
  /\ UNCHANGED <<up, crashes, rowLocked>>

\* a bug: whoever owns the row
ReleasesAny(r) == row \in Run

\* The row records this run's unique id.
Releases(r) == row \in Run /\ Host(row) = Host(r)

\* release(), in the finally clause of clean(): without effect (JDBC) or an
\* exception (JPA) for another owner's row; the database may fail, too.
Release(r) ==
  /\ job[r] = "clean"
  /\ \/ Releases(r) /\ row' = None
     \/ UNCHANGED row
  /\ job' = [job EXCEPT ![r] = "idle"]
  /\ UNCHANGED <<late, up, crashes, rowLocked>>

\* The deadline of a run, or the one it left in the row, passes.
TimeOut(r) ==
  /\ Expires
  /\ job[r] = "clean" \/ row = r
  /\ r \notin late
  /\ late' = late \cup {r}
  /\ UNCHANGED <<row, job, up, crashes, rowLocked>>

Crash(n) ==
  /\ n \in up /\ crashes < MaxCrashes
  /\ up' = up \ {n}
  /\ crashes' = crashes + 1
  /\ job' = [r \in Run |-> IF Host(r) = n THEN "idle" ELSE job[r]]
  /\ UNCHANGED <<row, late, rowLocked>>

Restart(n) ==
  /\ n \notin up
  /\ up' = up \cup {n}
  /\ UNCHANGED <<row, job, late, crashes, rowLocked>>

Clean(r) ==
  \/ Acquire(r) \/ AcquireRead(r) \/ AcquireInsert(r) \/ AcquireUpdate(r) \/ Release(r)

Next ==
  \/ \E r \in Run : Clean(r) \/ TimeOut(r)
  \/ \E n \in Node : Crash(n) \/ Restart(n)

Spec == Init /\ [][Next]_vars

\* Quartz starts clean() again and again and runs it, time passes, and a node
\* that is down is started again.
Fairness ==
  /\ \A r \in Run : WF_vars(Clean(r)) /\ WF_vars(TimeOut(r))
  /\ \A n \in Node : WF_vars(Restart(n))

FairSpec == Spec /\ Fairness

-------------------------------------------------------------------------------

States == {"idle", "insert", "update", "clean"}

TypeOK ==
  /\ row \in Run \cup {None, NoRow}
  /\ job \in [Run -> States]
  /\ late \subseteq Run
  /\ up \subseteq Node
  /\ crashes \in 0..MaxCrashes
  /\ rowLocked \in BOOLEAN

\* "Exclusivity - Only only client at a time may acquire the lock": where the row
\* is locked, two nodes clean together only if the lock of one has expired.
Exclusive ==
  rowLocked => \A q, r \in Run :
    job[q] = "clean" /\ job[r] = "clean" /\ Host(q) # Host(r) => q \in late \/ r \in late

\* A lock that a crashed node, a failed release or an overtaken run left behind
\* does not stop the cleaning for ever: somebody acquires it again.
AbandonedLockIsTaken ==
  \A r \in Run : (row = r /\ job[r] # "clean") ~> (row # r \/ job[r] = "clean")

\* What keeps the lock exclusive: a run within its time owns the row.
HolderOwnsRow == rowLocked => \A r \in Run : job[r] = "clean" /\ r \notin late => row = r

\* On platforms that lock the row, no run is ever between reading and writing.
NoneInBetween == rowLocked => \A r \in Run : job[r] \in {"idle", "clean"}

LockInv == TypeOK /\ HolderOwnsRow /\ NoneInBetween
===============================================================================
