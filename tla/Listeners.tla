----------------------------- MODULE Listeners -----------------------------
(***************************************************************************)
(* The event firer every component of MyInfusion.js is wired with:         *)
(* listeners are kept under a key - a namespace, or their own identity -   *)
(* with a priority, are told in the order of the priorities, and may add   *)
(* and remove listeners and fire again while they are told.                *)
(*                                                                         *)
(* Not represented: listeners given by a global name, predicates, and a    *)
(* listener that throws (the firing ends, as when one prevents it).        *)
(***************************************************************************)
EXTENDS Integers, SequencesExt

CONSTANTS Listener,
          Namespace,  \* a key that is not a listener's own
          MaxDepth,   \* firings within firings
          MaxAdds     \* bound on the registrations

VARIABLES
  kind,       \* "plain", "preventable" or "unicast"
  listeners,  \* of each registration, in the order of the keys: [key, who, priority]
  sorted,     \* the keys in the order they are told
  firings,    \* of each firing under way: [left, told, kept]
  adds,       \* history: registrations so far
  asAdded     \* history: the keys in the order they came, or <<>> once
              \* one was removed, replaced or given a priority

vars == <<kind, listeners, sorted, firings, adds, asAdded>>

Key == Listener \cup {Namespace}
Keys(regs) == {r.key : r \in ToSet(regs)}

FirstPriority == 1000
LastPriority == -1000

MapPriority(priority, count) ==
  CASE priority = "none"  -> -count
    [] priority = "first" -> FirstPriority
    [] priority = "last"  -> LastPriority

(* Sorting by priority alone: equals in any order.                         *)
Record(regs, key) == CHOOSE r \in ToSet(regs) : r.key = key

SortListeners(regs) ==
  {s \in SetToSeqs(Keys(regs)) :
     \A i, j \in DOMAIN s :
       i < j => Record(regs, s[i]).priority >= Record(regs, s[j]).priority}

Init ==
  /\ kind \in {"plain", "preventable", "unicast"}
  /\ listeners = <<>> /\ sorted = <<>> /\ firings = <<>>
  /\ adds = 0 /\ asAdded = <<>>

(* Registering again under a key takes its place.                          *)
KeyOf(who, named) ==
  IF kind = "unicast" \/ named THEN Namespace ELSE who

Replaced(regs, r) ==
  IF r.key \in Keys(regs)
  THEN [i \in DOMAIN regs |-> IF regs[i].key = r.key THEN r ELSE regs[i]]
  ELSE Append(regs, r)

AddListener(who, named, priority) ==
  /\ adds < MaxAdds
  /\ adds' = adds + 1
  /\ LET r == [key |-> KeyOf(who, named), who |-> who,
               priority |-> MapPriority(priority, Len(sorted))]
     IN  /\ listeners' = Replaced(listeners, r)
         /\ sorted' \in SortListeners(listeners')
         /\ asAdded' = IF Len(asAdded) = Len(listeners) /\ priority = "none"
                          /\ r.key \notin Keys(listeners)
                       THEN Append(asAdded, r.key) ELSE <<>>
  /\ UNCHANGED <<kind, firings>>

(* By its own identity, or by a namespace.  Who was registered under a     *)
(* namespace is not found by identity.                                     *)
RemoveListener(key) ==
  /\ adds > 0
  /\ listeners' = SelectSeq(listeners, LAMBDA r : r.key # key)
  /\ sorted' \in SortListeners(listeners')
  /\ asAdded' = IF key \in Keys(listeners) THEN <<>> ELSE asAdded
  /\ firings' = [i \in DOMAIN firings |-> [firings[i] EXCEPT !.kept = @ \ {key}]]
  /\ UNCHANGED <<kind, adds>>

(* A firing goes through the keys sorted when it began; adding and         *)
(* removing makes a new array.                                             *)
Fire ==
  /\ Len(firings) < MaxDepth
  /\ firings' = Append(firings, [left |-> sorted, told |-> <<>>, kept |-> ToSet(sorted)])
  /\ UNCHANGED <<kind, listeners, sorted, adds, asAdded>>

(* The listener that is told goes on until it returns; another firing it   *)
(* makes comes to its end first.                                           *)
Told(f) == [f EXCEPT !.left = Tail(@), !.told = Append(@, Head(f.left))]

TellNext ==
  /\ firings # <<>> /\ Last(firings).left # <<>>
  /\ firings' = [firings EXCEPT ![Len(firings)] = Told(@)]
  /\ UNCHANGED <<kind, listeners, sorted, adds, asAdded>>

(* After the last one, or when one returns a value that counts.            *)
FireReturns ==
  /\ firings # <<>>
  /\ Last(firings).left = <<>> \/ (kind # "plain" /\ Last(firings).told # <<>>)
  /\ firings' = Front(firings)
  /\ UNCHANGED <<kind, listeners, sorted, adds, asAdded>>

Next ==
  \/ \E who \in Listener, named \in BOOLEAN, priority \in {"none", "first", "last"} :
       AddListener(who, named, priority)
  \/ \E key \in Key : RemoveListener(key)
  \/ Fire \/ TellNext \/ FireReturns

-----------------------------------------------------------------------------
TypeOK ==
  /\ ToSet(sorted) = Keys(listeners) /\ Keys(listeners) \subseteq Key
  /\ Len(firings) <= MaxDepth /\ adds \in 0..MaxAdds

(* A listener that stays registered is told once by every firing, whatever *)
(* the listeners told before it add, remove and fire.                      *)
ToldOnce ==
  \A i \in DOMAIN firings :
    LET f == firings[i]
    IN  /\ f.kept \subseteq ToSet(f.told) \cup ToSet(f.left)
        /\ IsInjective(f.told \o f.left)

(* While none is removed, replaced or given a priority, listeners are told *)
(* in the order they were added.                                           *)
ToldAsAdded == Len(asAdded) = Len(listeners) => sorted = asAdded

(* A unicast event never has two listeners.                                *)
OneUnicast == kind = "unicast" => Len(sorted) <= 1

ListenersHold == ToldOnce /\ ToldAsAdded /\ OneUnicast
=============================================================================
