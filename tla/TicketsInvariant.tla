--------------------------- MODULE TicketsInvariant ---------------------------
(***************************************************************************)
(* The inductive invariant of Tickets: what its proofs assume of a state.  *)
(* Kept apart from the proofs so that TLC can check it.                    *)
(***************************************************************************)
EXTENDS Tickets

\* A ticket-granting ticket is in its own chain; a service ticket's granting
\* ticket exists and has recorded it, and nothing else is recorded.
Ownership ==
  /\ \A g \in TGT : chain[g] # {} => g \in chain[g]
  /\ \A s \in ST : parent[s] # None => chain[parent[s]] # {}
  /\ \A g \in TGT : services[g] = {s \in ST : parent[s] = g}

\* An id that is not yet given out has no history.
Unborn ==
  /\ \A s \in ST : parent[s] = None => /\ uses[s] = 0 /\ validations[s] = 0
                                       /\ s \notin registry \cup newLogin \cup renewed
  /\ \A g \in TGT : chain[g] = {} => source[g] = None /\ uses[g] = 0 /\ g \notin registry \cup handed

GrantPc == {"grant.check", "grant.authorize", "grant.issue", "grant.add"}
TicketPc == {"grant.add", "delegate.grant", "delegate.add", "delegate.done",
             "validate.use", "validate.ok", "validate.fail"}

\* What a request holds on to is still as it was when the request found it.
RequestOK(r) ==
  /\ r.pc \in GrantPc => r.g \in TGT /\ r.svc \in Service /\ Known(r.g)
  /\ r.pc \in {"destroy.lookup", "destroy.expire", "destroy.delete"} =>
       r.g \in TGT /\ chain[r.g] # {}
  /\ r.pc = "destroy.delete" => r.g \in expired
  /\ r.pc \in TicketPc => r.s \in ST /\ parent[r.s] # None
  /\ r.pc \in {"delegate.add", "delegate.done"} => r.pgt \in TGT /\ chain[r.pgt] # {}
  /\ r.pgt # None => r.pc \in TicketPc /\ source[r.pgt] = r.s
  /\ r.pc = "validate.ok" => validations[r.s] > 0

Requests == \A t \in Thread : RequestOK(req[t])

\* The cleaner expires tickets that exist, and deletes one that it holds.
CleanerOK ==
  \A c \in Cleaner :
    /\ \A g \in TGT \cap cleaner[c].doomed : chain[g] # {}
    /\ cleaner[c].phase = "delete" => cleaner[c].current \in Ticket

\* A proxy-granting ticket stems from a ticket that has granted, once; it is
\* handed over after that ticket's validation and used after it is handed over.
Delegation ==
  /\ \A g \in TGT : source[g] # None => source[g] \in granted
  /\ OneDelegationPerTicket
  /\ \A g \in handed : source[g] # None => validations[source[g]] > 0
  /\ \A g \in TGT : source[g] # None /\ uses[g] > 0 => g \in handed

\* The counts: of uses, of tickets a session has granted, of messages.
Counts ==
  /\ SingleUse
  /\ \A s \in ST : validations[s] <= uses[s]
  /\ \A s \in ST : parent[s] # None => uses[parent[s]] > 0
  /\ \A s \in ST : sent[s] = IF s \in loggedOut THEN 1 ELSE 0

IInv ==
  /\ TypeOK
  /\ Ownership
  /\ Unborn
  /\ Requests
  /\ CleanerOK
  /\ Delegation
  /\ Counts
  /\ OneNewLoginPerSession
  /\ SignOutReachesValidated
===============================================================================
