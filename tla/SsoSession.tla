------------------------------ MODULE SsoSession ------------------------------
(***************************************************************************)
(* What the ticket service promises its users and the services it guards,  *)
(* without registries, threads or clean-up: sessions are opened, possibly  *)
(* inside other sessions (proxying), service tickets are issued in a       *)
(* session, each is consumed at most once and only while every enclosing   *)
(* session is alive, and ending a session notifies the services of all     *)
(* the tickets that were issued in it.                                     *)
(* CentralAuthenticationService.java states the promise of the operations, *)
(* TicketGrantingTicket.expire and ServiceTicket that of the tickets.      *)
(***************************************************************************)
EXTENDS Naturals

CONSTANTS TGT, ST, None

VARIABLES
  within,    \* within[g]: the sessions enclosing g, g included; {} before g opens
  issuedIn,  \* issuedIn[s]: the session s was issued in, None before that
  consumed,  \* the service tickets that have authenticated somebody
  ended,     \* the sessions that were ended
  notified   \* the service tickets whose service was told of the end

sessionVars == <<within, issuedIn, consumed, ended, notified>>

Init ==
  /\ within = [g \in TGT |-> {}]
  /\ issuedIn = [s \in ST |-> None]
  /\ consumed = {}
  /\ ended = {}
  /\ notified = {}

Opened(g) == within[g] # {}

\* A new session, a login or a proxy-granting one nested in session p.
OpenSession(g) ==
  /\ ~Opened(g)
  /\ \/ within' = [within EXCEPT ![g] = {g}]
     \/ \E p \in TGT : Opened(p) /\ within' = [within EXCEPT ![g] = within[p] \cup {g}]
  /\ UNCHANGED <<issuedIn, consumed, ended, notified>>

\* A ticket may still be issued in a session that has just ended (the code
\* checks and issues in two critical sections); it is worthless.
IssueTicket(s, g) ==
  /\ Opened(g)
  /\ issuedIn[s] = None
  /\ issuedIn' = [issuedIn EXCEPT ![s] = g]
  /\ UNCHANGED <<within, consumed, ended, notified>>

ConsumeTicket(s) ==
  /\ issuedIn[s] # None
  /\ s \notin consumed
  /\ within[issuedIn[s]] \cap ended = {}
  /\ consumed' = consumed \cup {s}
  /\ UNCHANGED <<within, issuedIn, ended, notified>>

EndSession(g) ==
  /\ Opened(g)
  /\ ended' = ended \cup {g}
  /\ notified' = notified \cup {s \in ST : issuedIn[s] = g}
  /\ UNCHANGED <<within, issuedIn, consumed>>

Next ==
  \/ \E g \in TGT : OpenSession(g) \/ EndSession(g)
  \/ \E s \in ST : ConsumeTicket(s) \/ \E g \in TGT : IssueTicket(s, g)

Spec == Init /\ [][Next]_sessionVars
===============================================================================
