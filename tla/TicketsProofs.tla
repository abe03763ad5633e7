---------------------------- MODULE TicketsProofs ----------------------------
(***************************************************************************)
(* Proofs about Tickets for any numbers of tickets, threads and cleaners.  *)
(***************************************************************************)
EXTENDS TicketsInvariant, TLAPS

(***************************************************************************)
(* What the two ways a request moves on do to the requests' invariant.     *)
(***************************************************************************)
LEMMA IdleRequest == Idle \in Request
  BY DEF Idle, Request, Pc

LEMMA ReturnType ==
  ASSUME TypeOK, NEW t \in Thread, Return(t)
  PROVE  req' \in [Thread -> Request]
  BY IdleRequest DEF TypeOK, Return

LEMMA GotoType ==
  ASSUME TypeOK, NEW t \in Thread, NEW pc \in Pc, Goto(t, pc)
  PROVE  req' \in [Thread -> Request]
<1>1. [req[t] EXCEPT !.pc = pc] \in Request
  BY DEF TypeOK, Request
<1>2. QED
  BY <1>1 DEF TypeOK, Goto

LEMMA ReturnRequests ==
  ASSUME TypeOK, Requests, NEW t \in Thread, Return(t),
         UNCHANGED <<chain, source, handed, expired, parent, validations>>
  PROVE  Requests'
<1>1. RequestOK(Idle)'
  BY NoneIsNoId DEF RequestOK, Idle, GrantPc, TicketPc
<1>2. ASSUME NEW u \in Thread, u # t PROVE RequestOK(req[u])'
  BY <1>2 DEF TypeOK, Requests, RequestOK, Return, Known
<1>3. QED
  BY <1>1, <1>2 DEF TypeOK, Requests, Return

LEMMA GotoRequests ==
  ASSUME TypeOK, Requests, NEW t \in Thread, NEW pc, Goto(t, pc),
         UNCHANGED <<chain, source, handed, expired, parent, validations>>,
         RequestOK([req[t] EXCEPT !.pc = pc])
  PROVE  Requests'
<1>1. RequestOK(req[t])'
  BY DEF TypeOK, RequestOK, Goto, Known
<1>2. ASSUME NEW u \in Thread, u # t PROVE RequestOK(req[u])'
  BY <1>2 DEF TypeOK, Requests, RequestOK, Goto, Known
<1>3. QED
  BY <1>1, <1>2 DEF Requests

(***************************************************************************)
(* Every step preserves the invariant.                                     *)
(***************************************************************************)
LEMMA CreateTicketGrantingTicketStep ==
  ASSUME IInv, NEW t \in Thread, NEW g \in TGT, CreateTicketGrantingTicket(t, g)
  PROVE  IInv'
<1>1. TypeOK'
  BY DEF IInv, TypeOK, Request, Pc, Idle, Clean, Resting, Ticket,
     CreateTicketGrantingTicket, NewTicketGrantingTicket, AddTicket, At, tgtVars, stVars,
     logoutVars, useVars
<1>2. Ownership'
  BY DEF IInv, Ownership, CreateTicketGrantingTicket, NewTicketGrantingTicket, AddTicket,
     At, tgtVars, stVars, logoutVars, useVars
<1>3. Unborn'
  BY TicketIdsDisjoint, NoneIsNoId DEF IInv, Unborn, TypeOK, Request, Ticket, Requests,
     RequestOK, GrantPc, TicketPc, Known, Ownership, CreateTicketGrantingTicket,
     NewTicketGrantingTicket, AddTicket, At, tgtVars, stVars, logoutVars, useVars
<1>4. Requests'
  BY TicketIdsDisjoint, NoneIsNoId DEF IInv, Requests, RequestOK, GrantPc, TicketPc, Known,
     TypeOK, Request, Ticket, Ownership, Unborn, CreateTicketGrantingTicket,
     NewTicketGrantingTicket, AddTicket, At, tgtVars, stVars, logoutVars, useVars
<1>5. CleanerOK'
  BY DEF IInv, CleanerOK, CreateTicketGrantingTicket, NewTicketGrantingTicket, AddTicket,
     At, tgtVars, stVars, logoutVars, useVars
<1>6. Delegation'
  BY DEF IInv, Delegation, OneDelegationPerTicket, CreateTicketGrantingTicket,
     NewTicketGrantingTicket, AddTicket, At, tgtVars, stVars, logoutVars, useVars
<1>7. (Counts /\ OneNewLoginPerSession /\ SignOutReachesValidated)'
  BY DEF IInv, Counts, SingleUse, OneNewLoginPerSession, SignOutReachesValidated,
     CreateTicketGrantingTicket, NewTicketGrantingTicket, AddTicket, At, tgtVars, stVars,
     logoutVars, useVars
<1>8. QED
  BY <1>1, <1>2, <1>3, <1>4, <1>5, <1>6, <1>7 DEF IInv

LEMMA GrantLookupStep ==
  ASSUME IInv, NEW t \in Thread, NEW g \in TGT, NEW svc \in Service, NEW renew \in BOOLEAN, GrantLookup(t, g, svc, renew)
  PROVE  IInv'
<1>1. TypeOK'
  BY DEF IInv, TypeOK, Request, Pc, Idle, Clean, Resting, Ticket, GrantLookup, At, Known,
     tgtVars, stVars, logoutVars, useVars
<1>2. Requests'
  BY TicketIdsDisjoint, NoneIsNoId DEF IInv, Requests, RequestOK, GrantPc, TicketPc, Known,
     TypeOK, Request, Ticket, Idle, GrantLookup, At, tgtVars, stVars, logoutVars, useVars
<1>3. (Ownership /\ Unborn /\ CleanerOK /\ Delegation /\ Counts /\ OneNewLoginPerSession /\ SignOutReachesValidated)'
  BY DEF IInv, Ownership, Unborn, CleanerOK, Delegation, OneDelegationPerTicket, Counts,
     SingleUse, OneNewLoginPerSession, SignOutReachesValidated, GrantLookup, tgtVars,
     stVars, logoutVars, useVars
<1>4. QED
  BY <1>1, <1>2, <1>3 DEF IInv

LEMMA GrantCheckStep ==
  ASSUME IInv, NEW t \in Thread, GrantCheck(t)
  PROVE  IInv'
<1>1. TypeOK'
  <2>1. req' \in [Thread -> Request]
    BY ReturnType, GotoType DEF IInv, GrantCheck, Pc
  <2>2. QED
    BY <2>1 DEF IInv, TypeOK, GrantCheck, DeleteTicket, tgtVars, stVars, logoutVars, useVars
<1>2. Unborn'
  BY DEF IInv, Unborn, GrantCheck, DeleteTicket, Return, Goto, At, tgtVars, stVars,
     logoutVars, useVars
<1>3. Requests'
  <2>1. CASE Return(t)
    BY <2>1, ReturnRequests DEF IInv, GrantCheck, tgtVars, stVars, logoutVars, useVars
  <2>2. CASE Goto(t, "grant.authorize")
    <3>1. RequestOK([req[t] EXCEPT !.pc = "grant.authorize"])
      BY DEF IInv, TypeOK, Request, Requests, RequestOK, GrantPc, TicketPc, GrantCheck, At
    <3>2. QED
      BY <2>2, <3>1, GotoRequests DEF IInv, GrantCheck, tgtVars, stVars, logoutVars, useVars
  <2>3. QED
    BY <2>1, <2>2 DEF GrantCheck
<1>4. (Ownership /\ CleanerOK /\ Delegation /\ Counts /\ OneNewLoginPerSession /\ SignOutReachesValidated)'
  BY DEF IInv, Ownership, CleanerOK, Delegation, OneDelegationPerTicket, Counts, SingleUse,
     OneNewLoginPerSession, SignOutReachesValidated, GrantCheck, tgtVars, stVars,
     logoutVars, useVars
<1>5. QED
  BY <1>1, <1>2, <1>3, <1>4 DEF IInv

LEMMA GrantAuthorizeStep ==
  ASSUME IInv, NEW t \in Thread, GrantAuthorize(t)
  PROVE  IInv'
<1>1. TypeOK'
  <2>1. req' \in [Thread -> Request]
    BY ReturnType, GotoType DEF IInv, GrantAuthorize, Pc
  <2>2. QED
    BY <2>1 DEF IInv, TypeOK, GrantAuthorize, tgtVars, stVars, logoutVars, useVars
<1>2. Requests'
  <2>1. CASE Return(t)
    BY <2>1, ReturnRequests DEF IInv, GrantAuthorize, tgtVars, stVars, logoutVars, useVars
  <2>2. CASE Goto(t, "grant.issue")
    <3>1. RequestOK([req[t] EXCEPT !.pc = "grant.issue"])
      BY DEF IInv, TypeOK, Request, Requests, RequestOK, GrantPc, TicketPc, GrantAuthorize, At
    <3>2. QED
      BY <2>2, <3>1, GotoRequests DEF IInv, GrantAuthorize, tgtVars, stVars, logoutVars, useVars
  <2>3. QED
    BY <2>1, <2>2 DEF GrantAuthorize
<1>3. (Ownership /\ Unborn /\ CleanerOK /\ Delegation /\ Counts /\ OneNewLoginPerSession /\ SignOutReachesValidated)'
  BY DEF IInv, Ownership, Unborn, CleanerOK, Delegation, OneDelegationPerTicket, Counts,
     SingleUse, OneNewLoginPerSession, SignOutReachesValidated, GrantAuthorize, tgtVars,
     stVars, logoutVars, useVars
<1>4. QED
  BY <1>1, <1>2, <1>3 DEF IInv

LEMMA GrantIssueStep ==
  ASSUME IInv, NEW t \in Thread, NEW s \in ST, GrantIssue(t, s)
  PROVE  IInv'
<1>1. TypeOK'
  <2>1. req[t].g \in TGT /\ req[t].svc \in Service
    BY DEF IInv, Requests, RequestOK, GrantPc, GrantIssue, At
  <2>2. req' \in [Thread -> Request]
    <3>1. [req[t] EXCEPT !.pc = "grant.add", !.s = s] \in Request
      BY DEF IInv, TypeOK, Request, Pc
    <3>2. QED
      BY <3>1 DEF IInv, TypeOK, GrantIssue
  <2>3. uses' \in [Ticket -> Nat] /\ stale' \subseteq Ticket
    BY <2>1 DEF IInv, TypeOK, GrantIssue, UpdateState, Ticket
  <2>4. services' \in [TGT -> SUBSET ST]
    BY <2>1 DEF IInv, TypeOK, GrantIssue, RecordService
  <2>5. QED
    BY <2>1, <2>2, <2>3, <2>4 DEF IInv, TypeOK, GrantIssue, logoutVars
<1>2. Ownership'
  BY TicketIdsDisjoint, NoneIsNoId DEF IInv, Ownership, TypeOK, Request, Ticket, Idle,
     Requests, RequestOK, GrantPc, TicketPc, Known, GrantIssue, UpdateState, RecordService,
     At, tgtVars, stVars, logoutVars, useVars
<1>3. Unborn'
  BY TicketIdsDisjoint, NoneIsNoId DEF IInv, Unborn, TypeOK, Request, Ticket, Idle,
     Requests, RequestOK, GrantPc, TicketPc, Known, GrantIssue, UpdateState, RecordService,
     At, tgtVars, stVars, logoutVars, useVars
<1>4. Requests'
  BY TicketIdsDisjoint, NoneIsNoId DEF IInv, Requests, RequestOK, GrantPc, TicketPc, Known,
     TypeOK, Request, Ticket, Idle, GrantIssue, UpdateState, RecordService, At, tgtVars,
     stVars, logoutVars, useVars
<1>5. Delegation'
  BY TicketIdsDisjoint, NoneIsNoId DEF IInv, Delegation, OneDelegationPerTicket, TypeOK,
     Request, Ticket, Idle, Requests, RequestOK, GrantPc, TicketPc, Known, GrantIssue,
     UpdateState, RecordService, At, tgtVars, stVars, logoutVars, useVars
<1>6. Counts'
  BY TicketIdsDisjoint, NoneIsNoId DEF IInv, Counts, SingleUse, TypeOK, Request, Ticket,
     Idle, Requests, RequestOK, GrantPc, TicketPc, Known, GrantIssue, UpdateState,
     RecordService, At, tgtVars, stVars, logoutVars, useVars
<1>7. OneNewLoginPerSession'
  BY TicketIdsDisjoint, NoneIsNoId DEF IInv, OneNewLoginPerSession, Ownership, TypeOK,
     Request, Unborn, Requests, RequestOK, GrantPc, TicketPc, Known, Ticket, CleanerOK,
     Clean, Counts, SingleUse, Delegation, OneDelegationPerTicket, GrantIssue, UpdateState,
     RecordService, At, tgtVars, stVars, logoutVars, useVars
<1>8. SignOutReachesValidated'
  BY TicketIdsDisjoint, NoneIsNoId DEF IInv, SignOutReachesValidated, TypeOK, Request,
     Ticket, Requests, RequestOK, GrantPc, TicketPc, Known, Ownership, Unborn, GrantIssue,
     UpdateState, RecordService, At, tgtVars, stVars, logoutVars, useVars
<1>9. (CleanerOK)'
  BY DEF IInv, CleanerOK, GrantIssue, UpdateState, RecordService, At, tgtVars, stVars,
     logoutVars, useVars
<1>10. QED
  BY <1>1, <1>2, <1>3, <1>4, <1>5, <1>6, <1>7, <1>8, <1>9 DEF IInv

LEMMA GrantAddStep ==
  ASSUME IInv, NEW t \in Thread, GrantAdd(t)
  PROVE  IInv'
<1>1. TypeOK'
  BY TicketIdsDisjoint, NoneIsNoId DEF IInv, TypeOK, Request, Pc, Idle, Clean, Resting,
     Ticket, Requests, RequestOK, GrantPc, TicketPc, Known, GrantAdd, AddTicket, Return, At,
     tgtVars, stVars, logoutVars, useVars
<1>2. Unborn'
  BY TicketIdsDisjoint, NoneIsNoId DEF IInv, Unborn, TypeOK, Request, Ticket, Idle,
     Requests, RequestOK, GrantPc, TicketPc, Known, GrantAdd, AddTicket, Return, At,
     tgtVars, stVars, logoutVars, useVars
<1>3. Requests'
  BY TicketIdsDisjoint, NoneIsNoId DEF IInv, Requests, RequestOK, GrantPc, TicketPc, Known,
     TypeOK, Request, Ticket, Idle, GrantAdd, AddTicket, Return, At, tgtVars, stVars,
     logoutVars, useVars
<1>4. (Ownership /\ CleanerOK /\ Delegation /\ Counts /\ OneNewLoginPerSession /\ SignOutReachesValidated)'
  BY DEF IInv, Ownership, CleanerOK, Delegation, OneDelegationPerTicket, Counts, SingleUse,
     OneNewLoginPerSession, SignOutReachesValidated, GrantAdd, tgtVars, stVars, logoutVars,
     useVars
<1>5. QED
  BY <1>1, <1>2, <1>3, <1>4 DEF IInv

LEMMA DelegateLookupStep ==
  ASSUME IInv, NEW t \in Thread, NEW s \in ST, NEW svc \in Service, DelegateLookup(t, s, svc)
  PROVE  IInv'
<1>1. TypeOK'
  BY DEF IInv, TypeOK, Request, Pc, Idle, Clean, Resting, Ticket, DelegateLookup, At,
     tgtVars, stVars, logoutVars, useVars
<1>2. Requests'
  <2>1. parent[s] # None
    BY DEF IInv, Unborn, DelegateLookup
  <2>2. RequestOK(req[t])'
    BY <2>1, NoneIsNoId DEF IInv, TypeOK, RequestOK, GrantPc, TicketPc, Idle, DelegateLookup, tgtVars, stVars, logoutVars, useVars
  <2>3. ASSUME NEW u \in Thread, u # t PROVE RequestOK(req[u])'
    BY <2>3 DEF IInv, TypeOK, Requests, RequestOK, Known, DelegateLookup, tgtVars, stVars, logoutVars, useVars
  <2>4. QED
    BY <2>2, <2>3 DEF Requests
<1>3. (Ownership /\ Unborn /\ CleanerOK /\ Delegation /\ Counts /\ OneNewLoginPerSession /\ SignOutReachesValidated)'
  BY DEF IInv, Ownership, Unborn, CleanerOK, Delegation, OneDelegationPerTicket, Counts,
     SingleUse, OneNewLoginPerSession, SignOutReachesValidated, DelegateLookup, tgtVars,
     stVars, logoutVars, useVars
<1>4. QED
  BY <1>1, <1>2, <1>3 DEF IInv

LEMMA DelegateGrantStep ==
  ASSUME IInv, NEW t \in Thread, NEW g \in TGT, DelegateGrant(t, g)
  PROVE  IInv'
<1>1. TypeOK'
  <2>1. req[t].s \in ST /\ parent[req[t].s] \in TGT
    BY DEF IInv, TypeOK, Requests, RequestOK, TicketPc, DelegateGrant, At
  <2>2. req' \in [Thread -> Request]
    <3>1. [req[t] EXCEPT !.pc = "delegate.add", !.pgt = g] \in Request
      BY DEF IInv, TypeOK, Request, Pc
    <3>2. QED
      BY <3>1, ReturnType DEF IInv, TypeOK, DelegateGrant
  <2>3. QED
    BY <2>1, <2>2
    DEF IInv, TypeOK, DelegateGrant, MarkGranted, NewTicketGrantingTicket, tgtVars, logoutVars, useVars
<1>2. Ownership'
  BY TicketIdsDisjoint, NoneIsNoId DEF IInv, Ownership, TypeOK, Request, Ticket, Requests,
     RequestOK, GrantPc, TicketPc, Known, Unborn, DelegateGrant, MarkGranted,
     NewTicketGrantingTicket, Return, At, tgtVars, stVars, logoutVars, useVars
<1>3. Unborn'
  BY TicketIdsDisjoint, NoneIsNoId DEF IInv, Unborn, TypeOK, Request, Ticket, Idle,
     Requests, RequestOK, GrantPc, TicketPc, Known, DelegateGrant, MarkGranted,
     NewTicketGrantingTicket, Return, At, tgtVars, stVars, logoutVars, useVars
<1>4. Requests'
  <2>1. CASE Return(t) /\ UNCHANGED tgtVars
    BY <2>1, ReturnRequests DEF IInv, DelegateGrant, tgtVars
  <2>2. CASE /\ NewTicketGrantingTicket(g, chain[parent[req[t].s]], req[t].s)
             /\ req' = [req EXCEPT ![t].pc = "delegate.add", ![t].pgt = g]
    <3>1. req[t].s \in ST /\ parent[req[t].s] # None
      BY DEF IInv, Requests, RequestOK, TicketPc, DelegateGrant, At
    <3>2. RequestOK(req[t])'
      BY <2>2, <3>1, NoneIsNoId
      DEF IInv, TypeOK, Request, RequestOK, GrantPc, TicketPc, NewTicketGrantingTicket,
          DelegateGrant, tgtVars
    <3>3. ASSUME NEW u \in Thread, u # t PROVE RequestOK(req[u])'
      <4>1. req'[u] = req[u] /\ RequestOK(req[u])
        BY <2>2, <3>3 DEF IInv, TypeOK, Requests
      <4>2. \A h \in TGT : h # g => chain'[h] = chain[h] /\ source'[h] = source[h]
        BY <2>2 DEF IInv, TypeOK, NewTicketGrantingTicket
      <4>3. chain[g] = {} /\ source[g] = None
        BY <2>2 DEF IInv, Unborn, NewTicketGrantingTicket
      <4>4. UNCHANGED <<expired, parent, handed, validations>>
        BY <2>2 DEF DelegateGrant, NewTicketGrantingTicket
      <4>5. req[u].pgt # None => req[u].pgt \in TGT /\ req[u].pgt # g
        BY <4>1, <4>3, NoneIsNoId DEF IInv, TypeOK, Request, RequestOK, TicketPc
      <4>6. QED
        BY <4>1, <4>2, <4>3, <4>4, <4>5 DEF RequestOK, Known, GrantPc
    <3>4. QED
      BY <3>2, <3>3 DEF Requests
  <2>3. QED
    BY <2>1, <2>2 DEF DelegateGrant
<1>5. CleanerOK'
  BY TicketIdsDisjoint, NoneIsNoId DEF IInv, CleanerOK, TypeOK, Request, Ticket, Requests,
     RequestOK, GrantPc, TicketPc, Known, Ownership, Unborn, DelegateGrant, MarkGranted,
     NewTicketGrantingTicket, Return, At, tgtVars, stVars, logoutVars, useVars
<1>6. Delegation'
  BY TicketIdsDisjoint, NoneIsNoId DEF IInv, Delegation, OneDelegationPerTicket, TypeOK,
     Request, Ticket, Idle, Requests, RequestOK, GrantPc, TicketPc, Known, DelegateGrant,
     MarkGranted, NewTicketGrantingTicket, Return, At, tgtVars, stVars, logoutVars, useVars
<1>7. (Counts /\ OneNewLoginPerSession /\ SignOutReachesValidated)'
  BY DEF IInv, Counts, SingleUse, OneNewLoginPerSession, SignOutReachesValidated,
     DelegateGrant, MarkGranted, NewTicketGrantingTicket, Return, At, tgtVars, stVars,
     logoutVars, useVars
<1>8. QED
  BY <1>1, <1>2, <1>3, <1>4, <1>5, <1>6, <1>7 DEF IInv

LEMMA DelegateAddStep ==
  ASSUME IInv, NEW t \in Thread, DelegateAdd(t)
  PROVE  IInv'
<1>1. TypeOK'
  BY TicketIdsDisjoint, NoneIsNoId DEF IInv, TypeOK, Request, Pc, Idle, Clean, Resting,
     Ticket, Requests, RequestOK, GrantPc, TicketPc, Known, DelegateAdd, AddTicket, Goto,
     At, tgtVars, stVars, logoutVars, useVars
<1>2. Unborn'
  BY TicketIdsDisjoint, NoneIsNoId DEF IInv, Unborn, TypeOK, Request, Ticket, Idle,
     Requests, RequestOK, GrantPc, TicketPc, Known, DelegateAdd, AddTicket, Goto, At,
     tgtVars, stVars, logoutVars, useVars
<1>3. Requests'
  BY DEF IInv, Requests, RequestOK, GrantPc, TicketPc, Known, DelegateAdd, AddTicket, Goto,
     At, tgtVars, stVars, logoutVars, useVars
<1>4. (Ownership /\ CleanerOK /\ Delegation /\ Counts /\ OneNewLoginPerSession /\ SignOutReachesValidated)'
  BY DEF IInv, Ownership, CleanerOK, Delegation, OneDelegationPerTicket, Counts, SingleUse,
     OneNewLoginPerSession, SignOutReachesValidated, DelegateAdd, tgtVars, stVars,
     logoutVars, useVars
<1>5. QED
  BY <1>1, <1>2, <1>3, <1>4 DEF IInv

LEMMA ValidateLookupStep ==
  ASSUME IInv, NEW t \in Thread, NEW s \in ST, NEW svc \in Service, ValidateLookup(t, s, svc)
  PROVE  IInv'
<1>1. TypeOK'
  <2>1. req' \in [Thread -> Request]
    <3>1. [req[t] EXCEPT !.pc = "validate.use", !.s = s, !.svc = svc] \in Request
      BY DEF IInv, TypeOK, Request, Pc
    <3>2. QED
      BY <3>1, ReturnType DEF IInv, TypeOK, ValidateLookup
  <2>2. QED
    BY <2>1 DEF IInv, TypeOK, ValidateLookup, tgtVars, stVars, logoutVars, useVars
<1>2. Requests'
  <2>1. CASE Return(t)
    BY <2>1, ReturnRequests DEF IInv, ValidateLookup, tgtVars, stVars, logoutVars, useVars
  <2>2. CASE /\ s \in registry
             /\ req' = [req EXCEPT ![t].pc = "validate.use", ![t].s = s, ![t].svc = svc]
    <3>1. parent[s] # None
      BY <2>2 DEF IInv, Unborn
    <3>2. req[t].pgt # None => source[req[t].pgt] = s
      BY DEF IInv, Requests, RequestOK, TicketPc, ValidateLookup, At
    <3>3. RequestOK(req[t])'
      BY <2>2, <3>1, <3>2
      DEF IInv, TypeOK, Request, RequestOK, GrantPc, TicketPc, ValidateLookup, tgtVars, stVars, logoutVars, useVars
    <3>4. ASSUME NEW u \in Thread, u # t PROVE RequestOK(req[u])'
      BY <2>2, <3>4 DEF IInv, TypeOK, Requests, RequestOK, Known, ValidateLookup, tgtVars, stVars, logoutVars, useVars
    <3>5. QED
      BY <3>3, <3>4 DEF Requests
  <2>3. QED
    BY <2>1, <2>2 DEF ValidateLookup
<1>3. (Ownership /\ Unborn /\ CleanerOK /\ Delegation /\ Counts /\ OneNewLoginPerSession /\ SignOutReachesValidated)'
  BY DEF IInv, Ownership, Unborn, CleanerOK, Delegation, OneDelegationPerTicket, Counts,
     SingleUse, OneNewLoginPerSession, SignOutReachesValidated, ValidateLookup, tgtVars,
     stVars, logoutVars, useVars
<1>4. QED
  BY <1>1, <1>2, <1>3 DEF IInv

LEMMA ValidateUseStep ==
  ASSUME IInv, NEW t \in Thread, ValidateUse(t)
  PROVE  IInv'
<1>1. TypeOK'
  <2>1. req[t].s \in ST
    BY DEF IInv, Requests, RequestOK, TicketPc, ValidateUse, At
  <2>2. req' \in [Thread -> Request]
    BY GotoType DEF IInv, ValidateUse, Pc
  <2>3. uses' \in [Ticket -> Nat] /\ stale' \subseteq Ticket /\ validations' \in [ST -> Nat]
    BY <2>1 DEF IInv, TypeOK, Ticket, ValidateUse, UpdateState, useVars
  <2>4. QED
    BY <2>2, <2>3 DEF IInv, TypeOK, ValidateUse, tgtVars, stVars, logoutVars
<1>2. Unborn'
  BY TicketIdsDisjoint, NoneIsNoId DEF IInv, Unborn, TypeOK, Request, Ticket, Idle,
     Requests, RequestOK, GrantPc, TicketPc, Known, ValidateUse, UpdateState, Goto, At,
     IsExpiredST, IsExpiredTGT, MultiTimeUseOrTimeoutPolicy, tgtVars, stVars, logoutVars,
     useVars
<1>3. Requests'
  <2>1. req[t].s \in ST
    BY DEF IInv, Requests, RequestOK, TicketPc, ValidateUse, At
  <2>2. \A r \in ST : validations[r] > 0 => validations'[r] > 0
    BY <2>1 DEF IInv, TypeOK, ValidateUse
  <2>3. PICK pc \in {"validate.ok", "validate.fail"} :
          Goto(t, pc) /\ (pc = "validate.ok" => validations'[req[t].s] > 0)
    BY <2>1 DEF IInv, TypeOK, ValidateUse
  <2>4. RequestOK(req[t])'
    BY <2>3 DEF IInv, TypeOK, Request, Requests, RequestOK, GrantPc, TicketPc, Goto, ValidateUse, At,
       tgtVars, stVars
  <2>5. ASSUME NEW u \in Thread, u # t PROVE RequestOK(req[u])'
    BY <2>2, <2>3, <2>5
    DEF IInv, TypeOK, Requests, RequestOK, TicketPc, Known, Goto, ValidateUse, tgtVars, stVars
  <2>6. QED
    BY <2>4, <2>5 DEF Requests
<1>4. Delegation'
  BY TicketIdsDisjoint, NoneIsNoId DEF IInv, Delegation, OneDelegationPerTicket, TypeOK,
     Request, Ticket, Idle, Requests, RequestOK, GrantPc, TicketPc, Known, ValidateUse,
     UpdateState, Goto, At, IsExpiredST, IsExpiredTGT, MultiTimeUseOrTimeoutPolicy, tgtVars,
     stVars, logoutVars, useVars
<1>5. Counts'
  <2>1. req[t].s \in ST /\ req[t].s \notin TGT
    BY TicketIdsDisjoint DEF IInv, Requests, RequestOK, TicketPc, ValidateUse, At
  <2>2. CASE ~IsExpiredST(req[t].s)
    <3>1. uses[req[t].s] < NumberOfUses
      BY <2>1, <2>2, UsesPositive DEF IInv, TypeOK, Ticket, IsExpiredST, MultiTimeUseOrTimeoutPolicy
    <3>2. uses' = [uses EXCEPT ![req[t].s] = @ + 1]
      BY <2>2 DEF ValidateUse, UpdateState
    <3>3. validations' = validations \/ validations' = [validations EXCEPT ![req[t].s] = @ + 1]
      BY <2>2 DEF ValidateUse
    <3>4. SingleUse'
      BY <2>1, <3>1, <3>2, UsesPositive DEF IInv, TypeOK, Ticket, Counts, SingleUse
    <3>5. (\A s \in ST : validations[s] <= uses[s])'
      BY <2>1, <3>2, <3>3 DEF IInv, TypeOK, Ticket, Counts
    <3>6. (\A s \in ST : parent[s] # None => uses[parent[s]] > 0)'
      <4>1. \A h \in TGT : uses'[h] = uses[h]
        BY <2>1, <3>2 DEF IInv, TypeOK, Ticket
      <4>2. QED
        BY <4>1 DEF IInv, TypeOK, Counts, ValidateUse, stVars
    <3>7. QED
      BY <3>4, <3>5, <3>6 DEF IInv, Counts, ValidateUse, logoutVars
  <2>3. CASE UNCHANGED <<useVars, validations>>
    BY <2>3 DEF IInv, Counts, SingleUse, ValidateUse, stVars, logoutVars, useVars
  <2>4. QED
    BY <2>2, <2>3 DEF ValidateUse
<1>6. SignOutReachesValidated'
  <2>1. req[t].s \in ST /\ parent[req[t].s] \in TGT
    BY DEF IInv, TypeOK, Requests, RequestOK, TicketPc, ValidateUse, At
  <2>2. CASE UNCHANGED validations
    BY <2>2 DEF IInv, SignOutReachesValidated, ValidateUse, tgtVars, stVars, logoutVars
  <2>3. CASE /\ ~IsExpiredST(req[t].s)
             /\ validations' = [validations EXCEPT ![req[t].s] = @ + 1]
    <3>1. parent[req[t].s] \notin expired
      BY <2>1, <2>3, NoneIsNoId DEF IInv, Ownership, IsExpiredST, IsExpiredTGT
    <3>2. QED
      BY <2>3, <3>1
      DEF IInv, TypeOK, SignOutReachesValidated, ValidateUse, tgtVars, stVars, logoutVars
  <2>4. QED
    BY <2>2, <2>3 DEF ValidateUse
<1>7. (Ownership /\ CleanerOK /\ OneNewLoginPerSession)'
  BY DEF IInv, Ownership, CleanerOK, OneNewLoginPerSession, ValidateUse, UpdateState, Goto,
     At, IsExpiredST, IsExpiredTGT, MultiTimeUseOrTimeoutPolicy, tgtVars, stVars,
     logoutVars, useVars
<1>8. QED
  BY <1>1, <1>2, <1>3, <1>4, <1>5, <1>6, <1>7 DEF IInv

LEMMA ValidateFinishStep ==
  ASSUME IInv, NEW t \in Thread, ValidateFinish(t)
  PROVE  IInv'
<1>1. TypeOK'
  BY DEF IInv, TypeOK, Request, Pc, Idle, Clean, Resting, Ticket, ValidateFinish,
     DeleteTicket, Return, HasProxyTicketToHandOver, tgtVars, stVars, logoutVars, useVars
<1>2. Unborn'
  BY TicketIdsDisjoint, NoneIsNoId DEF IInv, Unborn, TypeOK, Request, Ticket, Idle,
     Requests, RequestOK, GrantPc, TicketPc, Known, ValidateFinish, DeleteTicket, Return,
     HasProxyTicketToHandOver, tgtVars, stVars, logoutVars, useVars
<1>3. Requests'
  BY TicketIdsDisjoint, NoneIsNoId DEF IInv, Requests, RequestOK, GrantPc, TicketPc, Known,
     TypeOK, Request, Ticket, Idle, ValidateFinish, DeleteTicket, Return,
     HasProxyTicketToHandOver, tgtVars, stVars, logoutVars, useVars
<1>4. Delegation'
  BY TicketIdsDisjoint, NoneIsNoId DEF IInv, Delegation, OneDelegationPerTicket, TypeOK,
     Request, Ticket, Idle, Requests, RequestOK, GrantPc, TicketPc, Known, ValidateFinish,
     DeleteTicket, Return, HasProxyTicketToHandOver, tgtVars, stVars, logoutVars, useVars
<1>5. (Ownership /\ CleanerOK /\ Counts /\ OneNewLoginPerSession /\ SignOutReachesValidated)'
  BY DEF IInv, Ownership, CleanerOK, Counts, SingleUse, OneNewLoginPerSession,
     SignOutReachesValidated, ValidateFinish, tgtVars, stVars, logoutVars, useVars
<1>6. QED
  BY <1>1, <1>2, <1>3, <1>4, <1>5 DEF IInv

LEMMA DestroyCallStep ==
  ASSUME IInv, NEW t \in Thread, NEW g \in TGT, DestroyCall(t, g)
  PROVE  IInv'
<1>1. TypeOK'
  BY DEF IInv, TypeOK, Request, Pc, Idle, Clean, Resting, Ticket, DestroyCall, At, Known,
     tgtVars, stVars, logoutVars, useVars
<1>2. Requests'
  BY TicketIdsDisjoint, NoneIsNoId DEF IInv, Requests, RequestOK, GrantPc, TicketPc, Known,
     TypeOK, Request, Ticket, Idle, DestroyCall, At, tgtVars, stVars, logoutVars, useVars
<1>3. (Ownership /\ Unborn /\ CleanerOK /\ Delegation /\ Counts /\ OneNewLoginPerSession /\ SignOutReachesValidated)'
  BY DEF IInv, Ownership, Unborn, CleanerOK, Delegation, OneDelegationPerTicket, Counts,
     SingleUse, OneNewLoginPerSession, SignOutReachesValidated, DestroyCall, tgtVars,
     stVars, logoutVars, useVars
<1>4. QED
  BY <1>1, <1>2, <1>3 DEF IInv

LEMMA DestroyLookupStep ==
  ASSUME IInv, NEW t \in Thread, DestroyLookup(t)
  PROVE  IInv'
<1>1. TypeOK'
  <2>1. req' \in [Thread -> Request]
    BY ReturnType, GotoType DEF IInv, DestroyLookup, Pc
  <2>2. QED
    BY <2>1 DEF IInv, TypeOK, DestroyLookup, tgtVars, stVars, logoutVars, useVars
<1>2. Requests'
  BY TicketIdsDisjoint, NoneIsNoId DEF IInv, Requests, RequestOK, GrantPc, TicketPc, Known,
     TypeOK, Request, Ticket, Idle, DestroyLookup, Return, Goto, At, tgtVars, stVars,
     logoutVars, useVars
<1>3. (Ownership /\ Unborn /\ CleanerOK /\ Delegation /\ Counts /\ OneNewLoginPerSession /\ SignOutReachesValidated)'
  BY DEF IInv, Ownership, Unborn, CleanerOK, Delegation, OneDelegationPerTicket, Counts,
     SingleUse, OneNewLoginPerSession, SignOutReachesValidated, DestroyLookup, tgtVars,
     stVars, logoutVars, useVars
<1>4. QED
  BY <1>1, <1>2, <1>3 DEF IInv

LEMMA DestroyExpireStep ==
  ASSUME IInv, NEW t \in Thread, DestroyExpire(t)
  PROVE  IInv'
<1>1. TypeOK'
  <2>1. req[t].g \in TGT
    BY DEF IInv, Requests, RequestOK, DestroyExpire, At
  <2>2. req' \in [Thread -> Request]
    BY GotoType DEF IInv, DestroyExpire, Pc
  <2>3. loggedOut' \subseteq ST /\ sent' \in [ST -> Nat] /\ expired' \subseteq TGT
    BY <2>1 DEF IInv, TypeOK, DestroyExpire, Expire, LogOutOfService
  <2>4. QED
    BY <2>2, <2>3 DEF IInv, TypeOK, DestroyExpire, Expire, stVars, useVars
<1>2. Requests'
  BY DEF IInv, Requests, RequestOK, GrantPc, TicketPc, Known, DestroyExpire, Expire,
     LogOutOfService, Goto, At, tgtVars, stVars, logoutVars, useVars
<1>3. Counts'
  BY DEF IInv, Counts, SingleUse, DestroyExpire, Expire, LogOutOfService, Goto, At, tgtVars,
     stVars, logoutVars, useVars
<1>4. SignOutReachesValidated'
  BY TicketIdsDisjoint, NoneIsNoId DEF IInv, SignOutReachesValidated, TypeOK, Request,
     Ticket, Requests, RequestOK, GrantPc, TicketPc, Known, Ownership, Unborn,
     DestroyExpire, Expire, LogOutOfService, Goto, At, tgtVars, stVars, logoutVars, useVars
<1>5. (Ownership /\ Unborn /\ CleanerOK /\ Delegation /\ OneNewLoginPerSession)'
  BY DEF IInv, Ownership, Unborn, CleanerOK, Delegation, OneDelegationPerTicket,
     OneNewLoginPerSession, DestroyExpire, Expire, LogOutOfService, Goto, At, tgtVars,
     stVars, logoutVars, useVars
<1>6. QED
  BY <1>1, <1>2, <1>3, <1>4, <1>5 DEF IInv

LEMMA DestroyDeleteStep ==
  ASSUME IInv, NEW t \in Thread, DestroyDelete(t)
  PROVE  IInv'
<1>1. TypeOK'
  BY DEF IInv, TypeOK, Request, Pc, Idle, Clean, Resting, Ticket, DestroyDelete,
     DeleteTicket, Return, At, tgtVars, stVars, logoutVars, useVars
<1>2. Unborn'
  BY DEF IInv, Unborn, DestroyDelete, DeleteTicket, Return, At, tgtVars, stVars, logoutVars,
     useVars
<1>3. Requests'
  BY TicketIdsDisjoint, NoneIsNoId DEF IInv, Requests, RequestOK, GrantPc, TicketPc, Known,
     TypeOK, Request, Ticket, Idle, DestroyDelete, DeleteTicket, Return, At, tgtVars,
     stVars, logoutVars, useVars
<1>4. (Ownership /\ CleanerOK /\ Delegation /\ Counts /\ OneNewLoginPerSession /\ SignOutReachesValidated)'
  BY DEF IInv, Ownership, CleanerOK, Delegation, OneDelegationPerTicket, Counts, SingleUse,
     OneNewLoginPerSession, SignOutReachesValidated, DestroyDelete, tgtVars, stVars,
     logoutVars, useVars
<1>5. QED
  BY <1>1, <1>2, <1>3, <1>4 DEF IInv

LEMMA CleanBeginStep ==
  ASSUME IInv, NEW c \in Cleaner, CleanBegin(c)
  PROVE  IInv'
<1>1. TypeOK'
  BY DEF IInv, TypeOK, Request, Pc, Idle, Clean, Resting, Ticket, CleanBegin, tgtVars,
     stVars, logoutVars, useVars
<1>2. CleanerOK'
  <2>1. cleaner'[c].doomed = {} /\ cleaner'[c].phase = "scan"
    BY DEF IInv, TypeOK, CleanBegin, Resting
  <2>2. \A d \in Cleaner : d # c => cleaner'[d] = cleaner[d]
    BY DEF IInv, TypeOK, CleanBegin
  <2>3. QED
    BY <2>1, <2>2 DEF IInv, CleanerOK, CleanBegin, tgtVars
<1>3. (Ownership /\ Unborn /\ Requests /\ Delegation /\ Counts /\ OneNewLoginPerSession /\ SignOutReachesValidated)'
  BY DEF IInv, Ownership, Unborn, Requests, RequestOK, GrantPc, TicketPc, Known, Delegation,
     OneDelegationPerTicket, Counts, SingleUse, OneNewLoginPerSession,
     SignOutReachesValidated, CleanBegin, tgtVars, stVars, logoutVars, useVars
<1>4. QED
  BY <1>1, <1>2, <1>3 DEF IInv

LEMMA CleanScanStep ==
  ASSUME IInv, NEW c \in Cleaner, NEW x \in Ticket, CleanScan(c, x)
  PROVE  IInv'
<1>1. TypeOK'
  <2>1. cleaner[c] \in Clean
    BY DEF IInv, TypeOK
  <2>2. /\ [cleaner[c] EXCEPT !.unscanned = @ \ {x}] \in Clean
        /\ [cleaner[c] EXCEPT !.unscanned = @ \ {x}, !.doomed = @ \cup {x}] \in Clean
    BY <2>1 DEF Clean
  <2>3. cleaner' \in [Cleaner -> Clean]
    BY <2>2 DEF IInv, TypeOK, CleanScan
  <2>4. QED
    BY <2>3 DEF IInv, TypeOK, CleanScan, tgtVars, stVars, logoutVars, useVars
<1>2. CleanerOK'
  <2>1. cleaner[c] \in Clean /\ cleaner[c].phase = "scan"
    BY DEF IInv, TypeOK, CleanScan
  <2>2. /\ cleaner'[c].phase = "scan"
        /\ cleaner'[c].doomed \subseteq cleaner[c].doomed \cup {y \in {x} : Exists(y)}
    BY <2>1 DEF IInv, TypeOK, Clean, CleanScan
  <2>3. \A d \in Cleaner : d # c => cleaner'[d] = cleaner[d]
    BY DEF IInv, TypeOK, CleanScan
  <2>4. QED
    BY <2>2, <2>3 DEF IInv, CleanerOK, Exists, CleanScan, tgtVars
<1>3. (Ownership /\ Unborn /\ Requests /\ Delegation /\ Counts /\ OneNewLoginPerSession /\ SignOutReachesValidated)'
  BY DEF IInv, Ownership, Unborn, Requests, RequestOK, GrantPc, TicketPc, Known, Delegation,
     OneDelegationPerTicket, Counts, SingleUse, OneNewLoginPerSession,
     SignOutReachesValidated, CleanScan, tgtVars, stVars, logoutVars, useVars
<1>4. QED
  BY <1>1, <1>2, <1>3 DEF IInv

LEMMA CleanScannedStep ==
  ASSUME IInv, NEW c \in Cleaner, CleanScanned(c)
  PROVE  IInv'
<1>1. TypeOK'
  BY TicketIdsDisjoint, NoneIsNoId DEF IInv, TypeOK, Request, Pc, Idle, Clean, Resting,
     Ticket, CleanScanned, tgtVars, stVars, logoutVars, useVars
<1>2. CleanerOK'
  BY DEF IInv, CleanerOK, CleanScanned, tgtVars, stVars, logoutVars, useVars
<1>3. (Ownership /\ Unborn /\ Requests /\ Delegation /\ Counts /\ OneNewLoginPerSession /\ SignOutReachesValidated)'
  BY DEF IInv, Ownership, Unborn, Requests, RequestOK, GrantPc, TicketPc, Known, Delegation,
     OneDelegationPerTicket, Counts, SingleUse, OneNewLoginPerSession,
     SignOutReachesValidated, CleanScanned, tgtVars, stVars, logoutVars, useVars
<1>4. QED
  BY <1>1, <1>2, <1>3 DEF IInv

LEMMA CleanExpireStep ==
  ASSUME IInv, NEW c \in Cleaner, NEW x \in Ticket, CleanExpire(c, x)
  PROVE  IInv'
<1>1. TypeOK'
  BY DEF IInv, TypeOK, Request, Pc, Idle, Clean, Resting, Ticket, CleanExpire, Expire,
     LogOutOfService, tgtVars, stVars, logoutVars, useVars
<1>2. Requests'
  BY DEF IInv, Requests, RequestOK, GrantPc, TicketPc, Known, CleanExpire, Expire,
     LogOutOfService, tgtVars, stVars, logoutVars, useVars
<1>3. CleanerOK'
  BY TicketIdsDisjoint, NoneIsNoId DEF IInv, CleanerOK, TypeOK, Request, Ticket, Idle,
     CleanExpire, Expire, LogOutOfService, tgtVars, stVars, logoutVars, useVars
<1>4. Counts'
  BY DEF IInv, Counts, SingleUse, CleanExpire, Expire, LogOutOfService, tgtVars, stVars,
     logoutVars, useVars
<1>5. SignOutReachesValidated'
  BY TicketIdsDisjoint, NoneIsNoId DEF IInv, SignOutReachesValidated, TypeOK, Request,
     Ticket, Requests, RequestOK, GrantPc, TicketPc, Known, Ownership, Unborn, CleanExpire,
     Expire, LogOutOfService, tgtVars, stVars, logoutVars, useVars
<1>6. (Ownership /\ Unborn /\ Delegation /\ OneNewLoginPerSession)'
  BY DEF IInv, Ownership, Unborn, Delegation, OneDelegationPerTicket, OneNewLoginPerSession,
     CleanExpire, Expire, LogOutOfService, tgtVars, stVars, logoutVars, useVars
<1>7. QED
  BY <1>1, <1>2, <1>3, <1>4, <1>5, <1>6 DEF IInv

LEMMA CleanDeleteStep ==
  ASSUME IInv, NEW c \in Cleaner, CleanDelete(c)
  PROVE  IInv'
<1>1. TypeOK'
  BY TicketIdsDisjoint, NoneIsNoId DEF IInv, TypeOK, Request, Pc, Idle, Clean, Resting,
     Ticket, Ownership, Unborn, Requests, RequestOK, GrantPc, TicketPc, Known, CleanerOK,
     Counts, SingleUse, Delegation, OneDelegationPerTicket, CleanDelete, DeleteTicket,
     tgtVars, stVars, logoutVars, useVars
<1>2. Unborn'
  BY DEF IInv, Unborn, CleanDelete, DeleteTicket, tgtVars, stVars, logoutVars, useVars
<1>3. CleanerOK'
  BY TicketIdsDisjoint, NoneIsNoId DEF IInv, CleanerOK, TypeOK, Request, Ticket, Idle,
     CleanDelete, DeleteTicket, tgtVars, stVars, logoutVars, useVars
<1>4. (Ownership /\ Requests /\ Delegation /\ Counts /\ OneNewLoginPerSession /\ SignOutReachesValidated)'
  BY DEF IInv, Ownership, Requests, RequestOK, GrantPc, TicketPc, Known, Delegation,
     OneDelegationPerTicket, Counts, SingleUse, OneNewLoginPerSession,
     SignOutReachesValidated, CleanDelete, tgtVars, stVars, logoutVars, useVars
<1>5. QED
  BY <1>1, <1>2, <1>3, <1>4 DEF IInv

LEMMA CleanEndStep ==
  ASSUME IInv, NEW c \in Cleaner, CleanEnd(c)
  PROVE  IInv'
<1>1. TypeOK'
  BY DEF IInv, TypeOK, Request, Pc, Idle, Clean, Resting, Ticket, CleanEnd, tgtVars, stVars,
     logoutVars, useVars
<1>2. CleanerOK'
  <2>1. cleaner'[c].unscanned = {} /\ cleaner'[c].doomed = {} /\ cleaner'[c].phase = "idle"
    BY DEF IInv, TypeOK, CleanEnd, Resting
  <2>2. \A d \in Cleaner : d # c => cleaner'[d] = cleaner[d]
    BY DEF IInv, TypeOK, CleanEnd
  <2>3. QED
    BY <2>1, <2>2 DEF IInv, CleanerOK, CleanEnd, tgtVars
<1>3. (Ownership /\ Unborn /\ Requests /\ Delegation /\ Counts /\ OneNewLoginPerSession /\ SignOutReachesValidated)'
  BY DEF IInv, Ownership, Unborn, Requests, RequestOK, GrantPc, TicketPc, Known, Delegation,
     OneDelegationPerTicket, Counts, SingleUse, OneNewLoginPerSession,
     SignOutReachesValidated, CleanEnd, tgtVars, stVars, logoutVars, useVars
<1>4. QED
  BY <1>1, <1>2, <1>3 DEF IInv

LEMMA TimeOutStep ==
  ASSUME IInv, NEW x \in Ticket, TimeOut(x)
  PROVE  IInv'
<1>1. TypeOK'
  BY DEF IInv, TypeOK, Request, Pc, Idle, Clean, Resting, Ticket, TimeOut, tgtVars, stVars,
     logoutVars, useVars
<1>2. (Ownership /\ Unborn /\ Requests /\ CleanerOK /\ Delegation /\ Counts /\ OneNewLoginPerSession /\ SignOutReachesValidated)'
  BY DEF IInv, Ownership, Unborn, Requests, RequestOK, GrantPc, TicketPc, Known, CleanerOK,
     Delegation, OneDelegationPerTicket, Counts, SingleUse, OneNewLoginPerSession,
     SignOutReachesValidated, TimeOut, tgtVars, stVars, logoutVars, useVars
<1>3. QED
  BY <1>1, <1>2 DEF IInv

(***************************************************************************)
(* The invariant holds in every state.                                     *)
(***************************************************************************)
LEMMA InitInvariant == Init => IInv
<1> SUFFICES ASSUME Init PROVE IInv
  OBVIOUS
<1>1. TypeOK
  BY IdleRequest DEF Init, TypeOK, Clean, Resting
<1>2. Ownership /\ Unborn /\ Delegation /\ OneNewLoginPerSession /\ SignOutReachesValidated
  BY NoneIsNoId
  DEF Init, Ownership, Unborn, Delegation, OneDelegationPerTicket, OneNewLoginPerSession,
      SignOutReachesValidated, Ticket
<1>3. Requests
  BY NoneIsNoId DEF Init, Requests, RequestOK, Idle, GrantPc, TicketPc
<1>4. CleanerOK
  BY DEF Init, CleanerOK, Resting
<1>5. Counts
  BY UsesPositive DEF Init, Counts, SingleUse, Ticket
<1>6. QED
  BY <1>1, <1>2, <1>3, <1>4, <1>5 DEF IInv

LEMMA StutterInvariant == IInv /\ UNCHANGED vars => IInv'
  BY DEF IInv, vars, tgtVars, stVars, logoutVars, useVars, TypeOK, Ownership, Unborn, Requests,
     RequestOK, Known, CleanerOK, Delegation, OneDelegationPerTicket, Counts, SingleUse,
     OneNewLoginPerSession, SignOutReachesValidated

LEMMA StepInvariant == IInv /\ [Next]_vars => IInv'
<1> SUFFICES ASSUME IInv, [Next]_vars PROVE IInv'
  OBVIOUS
<1>1. ASSUME NEW t \in Thread, Call(t) PROVE IInv'
  BY <1>1, CreateTicketGrantingTicketStep, DestroyCallStep, GrantLookupStep, DelegateLookupStep
  DEF Call
<1>2. ASSUME NEW t \in Thread, Proceed(t) PROVE IInv'
  BY <1>2, GrantCheckStep, GrantAuthorizeStep, GrantAddStep, GrantIssueStep, DelegateGrantStep,
     DelegateAddStep, ValidateLookupStep, ValidateUseStep, ValidateFinishStep,
     DestroyLookupStep, DestroyExpireStep, DestroyDeleteStep
  DEF Proceed
<1>3. ASSUME NEW c \in Cleaner, CleanStep(c) PROVE IInv'
  BY <1>3, CleanBeginStep, CleanScanStep, CleanScannedStep, CleanExpireStep, CleanDeleteStep,
     CleanEndStep
  DEF CleanStep
<1>4. ASSUME NEW x \in Ticket, TimeOut(x) PROVE IInv'
  BY <1>4, TimeOutStep
<1>5. CASE UNCHANGED vars
  BY <1>5, StutterInvariant
<1>6. QED
  BY <1>1, <1>2, <1>3, <1>4, <1>5 DEF Next

\* IInv is an invariant of the ticket core, for any instance.
THEOREM Invariance == Spec => []IInv
  BY InitInvariant, StepInvariant, PTL DEF Spec

\* Every variable keeps its type.
THEOREM TypeCorrect == Spec => []TypeOK
<1>1. IInv => TypeOK
  BY DEF IInv
<1>2. QED
  BY <1>1, Invariance, PTL

\* A service ticket is spent at most NumberOfUses times, by any number of
\* threads that validate it at once.
THEOREM ServiceTicketsAreSingleUse == Spec => []SingleUse
<1>1. IInv => SingleUse
  BY DEF IInv, Counts
<1>2. QED
  BY <1>1, Invariance, PTL

\* Single sign-out tells the service of every validated ticket of an expired
\* session, whatever was in flight.
THEOREM SignOutIsComplete == Spec => []SignOutReachesValidated
<1>1. IInv => SignOutReachesValidated
  BY DEF IInv
<1>2. QED
  BY <1>1, Invariance, PTL

\* No service is told twice of the end of a session.
THEOREM SignOutTellsOnce == Spec => []OneLogoutMessage
<1>1. IInv => OneLogoutMessage
  BY DEF IInv, Counts, OneLogoutMessage
<1>2. QED
  BY <1>1, Invariance, PTL

\* A service ticket is delegated once, and the proxy-granting ticket is of no
\* use before the service ticket was validated.
THEOREM DelegationIsSafe == Spec => [](OneDelegationPerTicket /\ ProxyOnlyAfterValidation)
<1>1. IInv => OneDelegationPerTicket /\ ProxyOnlyAfterValidation
  BY DEF IInv, Delegation, ProxyOnlyAfterValidation
<1>2. QED
  BY <1>1, Invariance, PTL

\* At most one ticket granted without credentials claims a new login.
THEOREM NewLoginIsClaimedOnce == Spec => []OneNewLoginPerSession
<1>1. IInv => OneNewLoginPerSession
  BY DEF IInv
<1>2. QED
  BY <1>1, Invariance, PTL

(***************************************************************************)
(* Tickets are born once and a session that ended stays ended.             *)
(***************************************************************************)
LEMMA Monotonicity ==
  ASSUME IInv, [Next]_vars
  PROVE  /\ expired \subseteq expired'
         /\ \A s \in ST : parent[s] # None => parent'[s] = parent[s]
         /\ \A g \in TGT : chain[g] # {} => chain'[g] = chain[g]
<1>1. ASSUME NEW t \in Thread, NEW s \in ST, GrantIssue(t, s)
      PROVE  \A r \in ST : parent[r] # None => parent'[r] = parent[r]
  BY <1>1 DEF IInv, TypeOK, GrantIssue
<1>2. ASSUME NEW t \in Thread, NEW g \in TGT,
             CreateTicketGrantingTicket(t, g) \/ DelegateGrant(t, g)
      PROVE  \A h \in TGT : chain[h] # {} => chain'[h] = chain[h]
  BY <1>2 DEF IInv, TypeOK, CreateTicketGrantingTicket, DelegateGrant, NewTicketGrantingTicket,
     tgtVars
<1> DEFINE Grows == /\ expired \subseteq expired'
                    /\ \A s \in ST : parent[s] # None => parent'[s] = parent[s]
                    /\ \A g \in TGT : chain[g] # {} => chain'[g] = chain[g]
<1>3. ASSUME NEW t \in Thread, Call(t) PROVE Grows
  BY <1>2, <1>3
  DEF Call, tgtVars, stVars, CreateTicketGrantingTicket, NewTicketGrantingTicket, GrantLookup,
      DelegateLookup, DestroyCall
<1>4. ASSUME NEW t \in Thread, NEW s \in ST, GrantIssue(t, s) PROVE Grows
  BY <1>1, <1>4 DEF GrantIssue
<1>5. ASSUME NEW t \in Thread, NEW g \in TGT, DelegateGrant(t, g) PROVE Grows
  BY <1>2, <1>5 DEF DelegateGrant, NewTicketGrantingTicket, tgtVars
<1>6. ASSUME NEW t \in Thread, Proceed(t) PROVE Grows
  BY <1>4, <1>5, <1>6
  DEF Proceed, tgtVars, stVars, GrantCheck, GrantAuthorize, GrantAdd, DelegateAdd, ValidateLookup,
      ValidateUse, ValidateFinish, DestroyLookup, DestroyExpire, DestroyDelete, Expire
<1>7. ASSUME NEW c \in Cleaner, CleanStep(c) PROVE Grows
  BY <1>7
  DEF CleanStep, tgtVars, stVars, CleanBegin, CleanScan, CleanScanned, CleanExpire, CleanDelete,
      CleanEnd, Expire
<1>8. ASSUME NEW x \in Ticket, TimeOut(x) PROVE Grows
  BY <1>8 DEF TimeOut, tgtVars, stVars
<1>9. CASE UNCHANGED vars
  BY <1>9 DEF vars, tgtVars, stVars
<1>10. QED
  BY <1>3, <1>6, <1>7, <1>8, <1>9 DEF Next

\* When destroyTicketGrantingTicket has removed a ticket, every ticket derived
\* from it is expired.
THEOREM DestroyIsEffective == Spec => DestroyInvalidatesDerived
<1>1. ASSUME IInv, [Next]_vars, NEW t \in Thread, At(t, "destroy.delete"),
             NEW s \in ST, parent[s] # None, req[t].g \in chain[parent[s]]
      PROVE  IsExpiredST(s)'
  <2>1. req[t].g \in expired
    BY <1>1 DEF IInv, Requests, RequestOK, At
  <2>2. parent[s] \in TGT /\ chain[parent[s]] # {}
    BY <1>1 DEF IInv, TypeOK
  <2>3. parent'[s] = parent[s] /\ chain'[parent[s]] = chain[parent[s]] /\ req[t].g \in expired'
    BY <1>1, <2>1, <2>2, Monotonicity
  <2>4. QED
    BY <1>1, <2>3 DEF IsExpiredST, IsExpiredTGT
<1>2. IInv /\ [Next]_vars =>
        [\A t \in Thread : At(t, "destroy.delete") /\ ~At(t, "destroy.delete")' =>
           \A s \in ST : parent[s] # None /\ req[t].g \in chain[parent[s]] => IsExpiredST(s)']_vars
  BY <1>1
<1>3. QED
  BY <1>2, Invariance, PTL DEF Spec, DestroyInvalidatesDerived

(***************************************************************************)
(* Every step of the ticket core is a step of the abstract session or      *)
(* leaves it alone.                                                        *)
(***************************************************************************)
AbstractStep == [Session!Next]_(Session!sessionVars)

LEMMA CreateRefines ==
  ASSUME IInv, NEW t \in Thread, NEW g \in TGT, CreateTicketGrantingTicket(t, g)
  PROVE  AbstractStep
<1>1. Session!OpenSession(g)
  BY DEF CreateTicketGrantingTicket, NewTicketGrantingTicket, Session!OpenSession, Session!Opened,
     stVars, logoutVars
<1>2. QED
  BY <1>1 DEF AbstractStep, Session!Next

LEMMA IssueRefines ==
  ASSUME IInv, NEW t \in Thread, NEW s \in ST, GrantIssue(t, s)
  PROVE  AbstractStep
<1>1. req[t].g \in TGT /\ chain[req[t].g] # {}
  BY DEF IInv, Requests, RequestOK, GrantPc, Known, GrantIssue, At
<1>2. Session!IssueTicket(s, req[t].g)
  BY <1>1 DEF GrantIssue, Session!IssueTicket, Session!Opened, logoutVars
<1>3. QED
  BY <1>1, <1>2 DEF AbstractStep, Session!Next

LEMMA DelegateRefines ==
  ASSUME IInv, NEW t \in Thread, NEW g \in TGT, DelegateGrant(t, g)
  PROVE  AbstractStep
<1>1. CASE UNCHANGED tgtVars
  BY <1>1 DEF DelegateGrant, AbstractStep, Session!sessionVars, tgtVars, logoutVars
<1>2. CASE NewTicketGrantingTicket(g, chain[parent[req[t].s]], req[t].s)
  <2>1. parent[req[t].s] \in TGT /\ chain[parent[req[t].s]] # {}
    BY DEF IInv, TypeOK, Ownership, Requests, RequestOK, TicketPc, DelegateGrant, At
  <2>2. Session!OpenSession(g)
    BY <1>2, <2>1 DEF NewTicketGrantingTicket, DelegateGrant, Session!OpenSession,
       Session!Opened, logoutVars
  <2>3. QED
    BY <2>2 DEF AbstractStep, Session!Next
<1>3. QED
  BY <1>1, <1>2 DEF DelegateGrant

\* The use of a ticket consumes it; with a policy of several uses the later
\* ones leave the abstract session alone.
LEMMA ValidateRefines ==
  ASSUME IInv, NEW t \in Thread, ValidateUse(t)
  PROVE  AbstractStep
<1> DEFINE Consumed == {r \in ST : validations[r] > 0}
<1>1. PICK s \in ST : s = req[t].s /\ parent[s] # None
  BY DEF IInv, Requests, RequestOK, TicketPc, ValidateUse, At
<1>2. UNCHANGED <<chain, parent, expired, loggedOut>>
  BY DEF ValidateUse, tgtVars, stVars, logoutVars
<1>3. CASE UNCHANGED validations
  BY <1>2, <1>3 DEF AbstractStep, Session!sessionVars
<1>4. CASE ~IsExpiredST(s) /\ validations' = [validations EXCEPT ![s] = @ + 1]
  <2>1. Consumed' = Consumed \cup {s}
    BY <1>1, <1>4 DEF IInv, TypeOK
  <2>2. chain[parent[s]] \cap expired = {}
    BY <1>4 DEF IsExpiredST, IsExpiredTGT
  <2>3. CASE s \in Consumed
    BY <1>2, <2>1, <2>3 DEF AbstractStep, Session!sessionVars
  <2>4. CASE s \notin Consumed
    <3>1. Session!ConsumeTicket(s)
      BY <1>1, <1>2, <2>1, <2>2, <2>4 DEF Session!ConsumeTicket
    <3>2. QED
      BY <1>1, <3>1 DEF AbstractStep, Session!Next
  <2>5. QED
    BY <2>3, <2>4
<1>5. QED
  BY <1>1, <1>3, <1>4 DEF ValidateUse

LEMMA ExpireRefines ==
  ASSUME IInv, NEW g \in TGT, chain[g] # {}, Expire(g), UNCHANGED <<parent, validations>>
  PROVE  AbstractStep
<1>1. Session!EndSession(g)
  BY DEF IInv, Ownership, Expire, LogOutOfService, Session!EndSession, Session!Opened
<1>2. QED
  BY <1>1 DEF AbstractStep, Session!Next

LEMMA OthersRefine ==
  ASSUME UNCHANGED <<chain, parent, validations, expired, loggedOut>>
  PROVE  AbstractStep
  BY DEF AbstractStep, Session!sessionVars

LEMMA StepRefines == IInv /\ [Next]_vars => AbstractStep
<1> SUFFICES ASSUME IInv, [Next]_vars PROVE AbstractStep
  OBVIOUS
<1>1. ASSUME NEW t \in Thread, Call(t) PROVE AbstractStep
  BY <1>1, CreateRefines, OthersRefine
  DEF Call, GrantLookup, DelegateLookup, DestroyCall, tgtVars, stVars, logoutVars
<1>2. ASSUME NEW t \in Thread, Proceed(t) PROVE AbstractStep
  <2>1. CASE DestroyExpire(t)
    <3>1. req[t].g \in TGT /\ chain[req[t].g] # {}
      BY <2>1 DEF IInv, Requests, RequestOK, DestroyExpire, At
    <3>2. QED
      BY <2>1, <3>1, ExpireRefines DEF DestroyExpire, stVars
  <2>2. CASE ValidateUse(t) \/ (\E s \in ST : GrantIssue(t, s)) \/ \E g \in TGT : DelegateGrant(t, g)
    BY <2>2, ValidateRefines, IssueRefines, DelegateRefines
  <2>3. QED
    BY <1>2, <2>1, <2>2, OthersRefine
    DEF Proceed, GrantCheck, GrantAuthorize, GrantAdd, DelegateAdd, ValidateLookup, ValidateFinish,
        DestroyLookup, DestroyDelete, tgtVars, stVars, logoutVars
<1>3. ASSUME NEW c \in Cleaner, CleanStep(c) PROVE AbstractStep
  <2>1. ASSUME NEW x \in Ticket, CleanExpire(c, x) PROVE AbstractStep
    <3>1. CASE x \in TGT
      <4>1. chain[x] # {}
        BY <2>1, <3>1 DEF IInv, CleanerOK, CleanExpire
      <4>2. QED
        BY <2>1, <3>1, <4>1, ExpireRefines DEF CleanExpire, stVars
    <3>2. CASE x \notin TGT
      BY <2>1, <3>2, OthersRefine DEF CleanExpire, tgtVars, stVars, logoutVars
    <3>3. QED
      BY <3>1, <3>2
  <2>2. QED
    BY <1>3, <2>1, OthersRefine
    DEF CleanStep, CleanBegin, CleanScan, CleanScanned, CleanDelete, CleanEnd, tgtVars, stVars,
        logoutVars
<1>4. ASSUME NEW x \in Ticket, TimeOut(x) PROVE AbstractStep
  BY <1>4, OthersRefine DEF TimeOut, tgtVars, stVars, logoutVars
<1>5. CASE UNCHANGED vars
  BY <1>5, OthersRefine DEF vars, tgtVars, stVars, logoutVars
<1>6. QED
  BY <1>1, <1>2, <1>3, <1>4, <1>5 DEF Next

\* The ticket core, with its threads, registry and cleaner, implements the
\* abstract session service.
THEOREM ImplementsTheSession == Spec => ImplementsSession
<1>1. Init => Session!Init
  BY DEF Init, Session!Init
<1>2. IInv /\ [Next]_vars => [Session!Next]_(Session!sessionVars)
  BY StepRefines DEF AbstractStep
<1>3. QED
  BY <1>1, <1>2, Invariance, PTL DEF Spec, ImplementsSession, Session!Spec

===============================================================================
