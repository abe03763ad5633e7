-------------------------------- MODULE Tickets --------------------------------
(***************************************************************************)
(* The ticket core of the server: CentralAuthenticationServiceImpl over a  *)
(* DefaultTicketRegistry, called by concurrent request threads, while the  *)
(* DefaultTicketRegistryCleaner runs.  A request is a sequence of steps;   *)
(* each step is one synchronized block or one access to the registry (a    *)
(* ConcurrentHashMap), so the steps of different requests interleave as    *)
(* the threads of the servlet container do.                                *)
(*                                                                         *)
(* Time is abstract: a ticket goes stale when its time-out has passed      *)
(* since its last use, at any moment, and a use makes it fresh again.      *)
(* Credentials are abstract: authenticating them succeeds with the         *)
(* principal of the ticket, or the request fails.                          *)
(***************************************************************************)
EXTENDS Naturals

CONSTANTS
  TGT,           \* ids of ticket-granting and proxy-granting tickets
  ST,            \* ids of service and proxy tickets
  Thread,        \* request threads
  Cleaner,       \* nodes that run the registry cleaner
  Service,       \* services that clients ask for
  Enabled,       \* the services the services manager finds and has enabled
  SsoEnabled,    \* those that take part in single sign-on
  ProxyAllowed,  \* those allowed to proxy
  NumberOfUses,  \* of the service ticket expiration policy (deployed: 1)
  None

ASSUME TicketIdsDisjoint == TGT \cap ST = {}
ASSUME NoneIsNoId == None \notin TGT \cup ST \cup Service
ASSUME ServiceSets == Enabled \cup SsoEnabled \cup ProxyAllowed \subseteq Service
ASSUME UsesPositive == NumberOfUses \in Nat \ {0}

Ticket == TGT \cup ST

VARIABLES
  registry,    \* the ids in the registry's map
  chain,       \* chain[g]: g and the tickets that granted it; {} before g exists
  expired,     \* TicketGrantingTicketImpl.expired
  services,    \* services[g]: the keys of TicketGrantingTicketImpl.services
  parent,      \* parent[s]: the granting ticket of s; None before s exists
  svcOf,       \* svcOf[s]: ServiceTicketImpl.service
  newLogin,    \* ServiceTicketImpl.fromNewLogin
  granted,     \* ServiceTicketImpl.grantedTicketAlready
  loggedOut,   \* loggedOutAlready of the service object of a ticket
  uses,        \* AbstractTicket.countOfUses
  stale,       \* the tickets whose policy's time-out has passed
  req,         \* req[t]: the request that thread t serves
  cleaner,     \* cleaner[c]: the progress of clean() on node c
  handed,      \* proxy-granting ids delivered to a proxy's callback
  source,      \* history: the service ticket a proxy-granting ticket came from
  renewed,     \* history: the service tickets granted on credentials
  validations, \* history: the successful validations of a service ticket
  sent         \* history: the logout messages sent for a service ticket

tgtVars == <<chain, expired, services, source>>
stVars == <<parent, svcOf, newLogin, granted, renewed>>
logoutVars == <<loggedOut, sent>>
useVars == <<uses, stale>>
vars == <<registry, tgtVars, stVars, logoutVars, useVars, req, cleaner, handed, validations>>

Pc == {"idle", "grant.check", "grant.authorize", "grant.issue", "grant.add",
       "delegate.grant", "delegate.add", "delegate.done",
       "validate.use", "validate.ok", "validate.fail",
       "destroy.lookup", "destroy.expire", "destroy.delete"}

Request == [pc : Pc, g : TGT \cup {None}, s : ST \cup {None}, svc : Service \cup {None},
            renew : BOOLEAN, pgt : TGT \cup {None}]

Idle == [pc |-> "idle", g |-> None, s |-> None, svc |-> None, renew |-> FALSE, pgt |-> None]

Clean == [phase : {"idle", "scan", "remove", "delete"}, unscanned : SUBSET Ticket,
          doomed : SUBSET Ticket, current : Ticket \cup {None}]

Resting == [phase |-> "idle", unscanned |-> {}, doomed |-> {}, current |-> None]

Init ==
  /\ registry = {}
  /\ chain = [g \in TGT |-> {}]
  /\ expired = {}
  /\ services = [g \in TGT |-> {}]
  /\ parent = [s \in ST |-> None]
  /\ svcOf = [s \in ST |-> None]
  /\ newLogin = {} /\ granted = {} /\ renewed = {}
  /\ loggedOut = {}
  /\ uses = [x \in Ticket |-> 0]
  /\ stale = {}
  /\ req = [t \in Thread |-> Idle]
  /\ cleaner = [c \in Cleaner |-> Resting]
  /\ handed = {}
  /\ source = [g \in TGT |-> None]
  /\ validations = [s \in ST |-> 0]
  /\ sent = [s \in ST |-> 0]

-------------------------------------------------------------------------------
(* Tickets.                                                                *)

Exists(x) == IF x \in TGT THEN chain[x] # {} ELSE parent[x] # None

\* Definitions that follow the comment "a bug:" are not the code's; they are the
\* mutants that show which properties notice such a bug.

\* TimeoutExpirationPolicy
TimeoutPolicy(g) == g \in stale

\* a bug: one use too many
PolicyAllowsOneMore(s) == uses[s] > NumberOfUses \/ s \in stale

\* MultiTimeUseOrTimeoutExpirationPolicy
MultiTimeUseOrTimeoutPolicy(s) == uses[s] >= NumberOfUses \/ s \in stale

\* a bug: the granting tickets are not asked
IsExpiredAlone(g) == TimeoutPolicy(g) \/ g \in expired

\* isExpired asks the policy, the granting ticket and the manual flag; the
\* recursion over granting tickets is the quantifier over the chain.
IsExpiredTGT(g) == \E a \in chain[g] : TimeoutPolicy(a) \/ a \in expired

IsExpiredST(s) == MultiTimeUseOrTimeoutPolicy(s) \/ IsExpiredTGT(parent[s])
IsExpired(x) == IF x \in TGT THEN IsExpiredTGT(x) ELSE IsExpiredST(x)

\* a bug: the use is not counted
UpdateStateUncounted(x) ==
  /\ uses' = uses
  /\ stale' = stale \ {x}

UpdateState(x) ==
  /\ uses' = [uses EXCEPT ![x] = @ + 1]
  /\ stale' = stale \ {x}

\* The constructor: a root ticket has no granting ticket.
NewTicketGrantingTicket(g, above, from) ==
  /\ chain[g] = {}
  /\ chain' = [chain EXCEPT ![g] = above \cup {g}]
  /\ source' = [source EXCEPT ![g] = from]
  /\ UNCHANGED <<expired, services>>

\* a bug: loggedOutAlready is not looked at
LogOutOfServiceAgain(tickets) ==
  /\ loggedOut' = loggedOut \cup tickets
  /\ sent' = [s \in ST |-> IF s \in tickets THEN sent[s] + 1 ELSE sent[s]]

\* Every service ticket has its own service object, so its flag is per ticket.
LogOutOfService(tickets) ==
  /\ loggedOut' = loggedOut \cup tickets
  /\ sent' = [s \in ST |-> IF s \in tickets \ loggedOut THEN sent[s] + 1 ELSE sent[s]]

\* TicketGrantingTicketImpl.expire, synchronized with grantServiceTicket
Expire(g) ==
  /\ expired' = expired \cup {g}
  /\ LogOutOfService(services[g])
  /\ UNCHANGED <<chain, services, source>>

\* a bug: the session remembers its latest service only
RecordLatestService(g, s) == services' = [services EXCEPT ![g] = {s}]

\* services.put(id, service)
RecordService(g, s) == services' = [services EXCEPT ![g] = @ \cup {s}]

\* a bug: the flag is not set
MarkGrantedForgotten(s) == granted' = granted

\* grantedTicketAlready = true
MarkGranted(s) == granted' = granted \cup {s}

AddTicket(x) == registry' = registry \cup {x}
DeleteTicket(x) == registry' = registry \ {x}

-------------------------------------------------------------------------------
(* Requests.                                                               *)

At(t, pc) == req[t].pc = pc
Goto(t, pc) == req' = [req EXCEPT ![t].pc = pc]
Return(t) == req' = [req EXCEPT ![t] = Idle]

\* Ids are unguessable: a client presents a login's ticket or a proxy's own.
Known(g) == chain[g] # {} /\ (source[g] = None \/ g \in handed)

CreateTicketGrantingTicket(t, g) ==
  /\ At(t, "idle")
  /\ NewTicketGrantingTicket(g, {}, None)
  /\ AddTicket(g)
  /\ UNCHANGED <<stVars, logoutVars, useVars, req, cleaner, handed, validations>>

\* grantServiceTicket of a ticket that is in the registry; otherwise it throws
\* and nothing changes.
GrantLookup(t, g, svc, renew) ==
  /\ At(t, "idle")
  /\ Known(g) /\ g \in registry
  /\ req' = [req EXCEPT ![t] = [Idle EXCEPT !.pc = "grant.check", !.g = g,
                                            !.svc = svc, !.renew = renew]]
  /\ UNCHANGED <<registry, tgtVars, stVars, logoutVars, useVars, cleaner, handed, validations>>

\* The synchronized block: an expired ticket is removed, and only removed.
GrantCheck(t) ==
  LET g == req[t].g IN
  /\ At(t, "grant.check")
  /\ \/ IsExpiredTGT(g) /\ DeleteTicket(g) /\ Return(t)
     \/ ~IsExpiredTGT(g) /\ Goto(t, "grant.authorize") /\ UNCHANGED registry
  /\ UNCHANGED <<tgtVars, stVars, logoutVars, useVars, cleaner, handed, validations>>

SsoRefused(r) == r.svc \notin SsoEnabled /\ ~r.renew /\ uses[r.g] > 0
ProxyRefused(r) == chain[r.g] # {r.g} /\ r.svc \notin ProxyAllowed

\* Checks on unlocked state; credentials may fail to match the ticket's.
GrantAuthorize(t) ==
  LET refused == req[t].svc \notin Enabled \/ SsoRefused(req[t]) \/ ProxyRefused(req[t]) IN
  /\ At(t, "grant.authorize")
  /\ \/ ~refused /\ Goto(t, "grant.issue")
     \/ (refused \/ req[t].renew) /\ Return(t)
  /\ UNCHANGED <<registry, tgtVars, stVars, logoutVars, useVars, cleaner, handed, validations>>

\* TicketGrantingTicketImpl.grantServiceTicket, synchronized; the ticket's
\* expiration is not looked at again.
GrantIssue(t, s) ==
  LET r == req[t] IN
  /\ At(t, "grant.issue")
  /\ parent[s] = None
  /\ parent' = [parent EXCEPT ![s] = r.g]
  /\ svcOf' = [svcOf EXCEPT ![s] = r.svc]
  /\ newLogin' = IF uses[r.g] = 0 \/ r.renew THEN newLogin \cup {s} ELSE newLogin
  /\ renewed' = IF r.renew THEN renewed \cup {s} ELSE renewed
  /\ UpdateState(r.g)
  /\ RecordService(r.g, s)
  /\ req' = [req EXCEPT ![t].pc = "grant.add", ![t].s = s]
  /\ UNCHANGED <<registry, chain, expired, source, granted, logoutVars, cleaner, handed, validations>>

GrantAdd(t) ==
  /\ At(t, "grant.add")
  /\ AddTicket(req[t].s)
  /\ Return(t)
  /\ UNCHANGED <<tgtVars, stVars, logoutVars, useVars, cleaner, handed, validations>>

\* delegateTicketGrantingTicket, called by /serviceValidate before it validates
\* when the client sends a callback URL.  A missing or expired ticket is logged
\* and validation goes on without (ValidateLookup from idle); a service that may
\* not proxy ends the request.
DelegateLookup(t, s, svc) ==
  /\ At(t, "idle")
  /\ s \in registry /\ ~IsExpiredST(s)
  /\ svcOf[s] \in Enabled \cap ProxyAllowed
  /\ req' = [req EXCEPT ![t] = [Idle EXCEPT !.pc = "delegate.grant", !.s = s, !.svc = svc]]
  /\ UNCHANGED <<registry, tgtVars, stVars, logoutVars, useVars, cleaner, handed, validations>>

\* ServiceTicketImpl.grantTicketGrantingTicket; a second grant throws an
\* IllegalStateException that ends the request.
DelegateGrant(t, g) ==
  LET s == req[t].s IN
  /\ At(t, "delegate.grant")
  /\ \/ /\ s \notin granted
        /\ MarkGranted(s)
        /\ NewTicketGrantingTicket(g, chain[parent[s]], s)
        /\ req' = [req EXCEPT ![t].pc = "delegate.add", ![t].pgt = g]
     \/ /\ s \in granted
        /\ Return(t)
        /\ UNCHANGED <<granted, tgtVars>>
  /\ UNCHANGED <<registry, parent, svcOf, newLogin, renewed, logoutVars, useVars, cleaner,
                 handed, validations>>

DelegateAdd(t) ==
  /\ At(t, "delegate.add")
  /\ AddTicket(req[t].pgt)
  /\ Goto(t, "delegate.done")
  /\ UNCHANGED <<tgtVars, stVars, logoutVars, useVars, cleaner, handed, validations>>

\* validateServiceTicket, with or without a delegation before it.
ValidateLookup(t, s, svc) ==
  /\ \/ At(t, "idle") /\ s \in registry /\ svc \in Enabled
     \/ At(t, "delegate.done") /\ s = req[t].s /\ svc = req[t].svc
  /\ IF s \in registry /\ svc \in Enabled
     THEN req' = [req EXCEPT ![t].pc = "validate.use", ![t].s = s, ![t].svc = svc]
     ELSE Return(t)
  /\ UNCHANGED <<registry, tgtVars, stVars, logoutVars, useVars, cleaner, handed, validations>>

\* The synchronized block: a ticket presented for another service is used too.
ValidateUse(t) ==
  LET s == req[t].s IN
  /\ At(t, "validate.use")
  /\ \/ /\ IsExpiredST(s)
        /\ Goto(t, "validate.fail")
        /\ UNCHANGED <<useVars, validations>>
     \/ /\ ~IsExpiredST(s)
        /\ UpdateState(s)
        /\ \/ /\ req[t].svc = svcOf[s]
              /\ validations' = [validations EXCEPT ![s] = @ + 1]
              /\ Goto(t, "validate.ok")
           \/ /\ req[t].svc # svcOf[s]
              /\ Goto(t, "validate.fail")
              /\ UNCHANGED validations
  /\ UNCHANGED <<registry, tgtVars, stVars, logoutVars, cleaner, handed>>

\* a bug: the callback is made whatever the validation said
HandOverUnvalidated(r) == r.pgt # None

HasProxyTicketToHandOver(r) == r.pc = "validate.ok" /\ r.pgt # None

\* The finally clause; then, if the assertion satisfies the client's renew and
\* proxy demands and a ticket was delegated, the proxy's callback gets its id.
ValidateFinish(t) ==
  LET r == req[t] IN
  /\ r.pc \in {"validate.ok", "validate.fail"}
  /\ IF IsExpiredST(r.s) THEN DeleteTicket(r.s) ELSE UNCHANGED registry
  /\ \/ UNCHANGED handed
     \/ HasProxyTicketToHandOver(r) /\ handed' = handed \cup {r.pgt}
  /\ Return(t)
  /\ UNCHANGED <<tgtVars, stVars, logoutVars, useVars, cleaner, validations>>

DestroyCall(t, g) ==
  /\ At(t, "idle")
  /\ Known(g)
  /\ req' = [req EXCEPT ![t] = [Idle EXCEPT !.pc = "destroy.lookup", !.g = g]]
  /\ UNCHANGED <<registry, tgtVars, stVars, logoutVars, useVars, cleaner, handed, validations>>

\* destroyTicketGrantingTicket: nothing is done for a ticket not in the registry.
DestroyLookup(t) ==
  /\ At(t, "destroy.lookup")
  /\ IF req[t].g \in registry THEN Goto(t, "destroy.expire") ELSE Return(t)
  /\ UNCHANGED <<registry, tgtVars, stVars, logoutVars, useVars, cleaner, handed, validations>>

DestroyExpire(t) ==
  /\ At(t, "destroy.expire")
  /\ Expire(req[t].g)
  /\ Goto(t, "destroy.delete")
  /\ UNCHANGED <<registry, stVars, useVars, cleaner, handed, validations>>

DestroyDelete(t) ==
  /\ At(t, "destroy.delete")
  /\ DeleteTicket(req[t].g)
  /\ Return(t)
  /\ UNCHANGED <<tgtVars, stVars, logoutVars, useVars, cleaner, handed, validations>>

-------------------------------------------------------------------------------
(* The cleaner, and time.                                                  *)

CleanBegin(c) ==
  /\ cleaner[c].phase = "idle"
  /\ cleaner' = [cleaner EXCEPT ![c] = [Resting EXCEPT !.phase = "scan", !.unscanned = Ticket]]
  /\ UNCHANGED <<registry, tgtVars, stVars, logoutVars, useVars, req, handed, validations>>

\* a bug: only ticket-granting tickets are collected
CleanScanSessions(c, x) ==
  /\ cleaner[c].phase = "scan"
  /\ x \in cleaner[c].unscanned
  /\ cleaner' = [cleaner EXCEPT ![c].unscanned = @ \ {x},
                                ![c].doomed = @ \cup {g \in TGT \cap {x} :
                                                        Exists(g) /\ IsExpired(g)}]
  /\ UNCHANGED <<registry, tgtVars, stVars, logoutVars, useVars, req, handed, validations>>

\* One turn of the loop that looks for expired tickets, over a live view: a
\* ticket added or removed since the scan began may or may not be seen.
CleanScan(c, x) ==
  /\ cleaner[c].phase = "scan"
  /\ x \in cleaner[c].unscanned
  /\ \/ /\ Exists(x) /\ IsExpired(x)
        /\ cleaner' = [cleaner EXCEPT ![c].unscanned = @ \ {x}, ![c].doomed = @ \cup {x}]
     \/ /\ x \in registry => ~IsExpired(x)
        /\ cleaner' = [cleaner EXCEPT ![c].unscanned = @ \ {x}]
  /\ UNCHANGED <<registry, tgtVars, stVars, logoutVars, useVars, req, handed, validations>>

CleanScanned(c) ==
  /\ cleaner[c].phase = "scan" /\ cleaner[c].unscanned = {}
  /\ cleaner' = [cleaner EXCEPT ![c].phase = "remove"]
  /\ UNCHANGED <<registry, tgtVars, stVars, logoutVars, useVars, req, handed, validations>>

\* One turn of the second loop: expire a ticket-granting ticket ...
CleanExpire(c, x) ==
  /\ cleaner[c].phase = "remove"
  /\ x \in cleaner[c].doomed
  /\ IF x \in TGT THEN Expire(x) ELSE UNCHANGED <<tgtVars, logoutVars>>
  /\ cleaner' = [cleaner EXCEPT ![c].phase = "delete", ![c].doomed = @ \ {x}, ![c].current = x]
  /\ UNCHANGED <<registry, stVars, useVars, req, handed, validations>>

\* ... and delete the ticket.
CleanDelete(c) ==
  /\ cleaner[c].phase = "delete"
  /\ DeleteTicket(cleaner[c].current)
  /\ cleaner' = [cleaner EXCEPT ![c].phase = "remove", ![c].current = None]
  /\ UNCHANGED <<tgtVars, stVars, logoutVars, useVars, req, handed, validations>>

CleanEnd(c) ==
  /\ cleaner[c].phase = "remove" /\ cleaner[c].doomed = {}
  /\ cleaner' = [cleaner EXCEPT ![c] = Resting]
  /\ UNCHANGED <<registry, tgtVars, stVars, logoutVars, useVars, req, handed, validations>>

TimeOut(x) ==
  /\ Exists(x) /\ x \notin stale
  /\ stale' = stale \cup {x}
  /\ UNCHANGED <<registry, tgtVars, stVars, logoutVars, uses, req, cleaner, handed, validations>>

-------------------------------------------------------------------------------

Call(t) ==
  \/ \E g \in TGT : CreateTicketGrantingTicket(t, g) \/ DestroyCall(t, g)
  \/ \E g \in TGT, svc \in Service, renew \in BOOLEAN : GrantLookup(t, g, svc, renew)
  \/ \E s \in ST, svc \in Service : DelegateLookup(t, s, svc)

\* The steps a running request takes, and the lookup that begins a validation.
Proceed(t) ==
  \/ GrantCheck(t) \/ GrantAuthorize(t) \/ GrantAdd(t)
  \/ \E s \in ST : GrantIssue(t, s)
  \/ \E g \in TGT : DelegateGrant(t, g)
  \/ DelegateAdd(t)
  \/ \E s \in ST, svc \in Service : ValidateLookup(t, s, svc)
  \/ ValidateUse(t) \/ ValidateFinish(t)
  \/ DestroyLookup(t) \/ DestroyExpire(t) \/ DestroyDelete(t)

CleanStep(c) ==
  \/ CleanBegin(c) \/ CleanScanned(c) \/ CleanDelete(c) \/ CleanEnd(c)
  \/ \E x \in Ticket : CleanScan(c, x) \/ CleanExpire(c, x)

Next ==
  \/ \E t \in Thread : Call(t) \/ Proceed(t)
  \/ \E c \in Cleaner : CleanStep(c)
  \/ \E x \in Ticket : TimeOut(x)

Spec == Init /\ [][Next]_vars

\* Quartz runs the cleaner again and again.
CleanerFairness == \A c \in Cleaner : WF_vars(CleanStep(c))

FairSpec == Spec /\ CleanerFairness

-------------------------------------------------------------------------------
(* Properties.                                                             *)

TypeOK ==
  /\ registry \subseteq Ticket
  /\ chain \in [TGT -> SUBSET TGT]
  /\ expired \subseteq TGT
  /\ services \in [TGT -> SUBSET ST]
  /\ source \in [TGT -> ST \cup {None}]
  /\ parent \in [ST -> TGT \cup {None}]
  /\ svcOf \in [ST -> Service \cup {None}]
  /\ newLogin \subseteq ST /\ granted \subseteq ST /\ renewed \subseteq ST
  /\ loggedOut \subseteq ST
  /\ sent \in [ST -> Nat]
  /\ uses \in [Ticket -> Nat]
  /\ stale \subseteq Ticket
  /\ req \in [Thread -> Request]
  /\ cleaner \in [Cleaner -> Clean]
  /\ handed \subseteq TGT
  /\ validations \in [ST -> Nat]

\* However many threads validate a service ticket at once, right or wrong
\* service, it is spent NumberOfUses times and never again.
SingleUse == \A s \in ST : uses[s] <= NumberOfUses

\* Concurrent /serviceValidate requests for one service ticket create at most
\* one proxy-granting ticket, although the expiration check is not locked.
OneDelegationPerTicket ==
  \A g, h \in TGT : source[g] = source[h] /\ source[g] # None => g = h

\* A proxy-granting ticket exists before its service ticket is validated (the
\* code delegates first), but it grants nothing until that validation succeeded.
ProxyOnlyAfterValidation ==
  \A g \in TGT : source[g] # None /\ uses[g] > 0 => validations[source[g]] > 0

\* Of all the tickets a session grants without credentials, by however many
\* threads, at most one claims to come from a new login.
OneNewLoginPerSession ==
  \A r, s \in newLogin \ renewed : parent[r] = parent[s] => r = s

\* Single sign-out misses nobody: when a session has been expired, the service
\* of every ticket it granted that was ever validated has been told, whatever
\* grants and validations were in flight.
SignOutReachesValidated ==
  \A s \in ST : validations[s] > 0 /\ parent[s] \in expired => s \in loggedOut

\* Logout, failed renewals and the cleaner may all expire one ticket; its
\* services are told once.
OneLogoutMessage == \A s \in ST : sent[s] <= 1

\* destroyTicketGrantingTicket invalidates every ticket derived from the ticket
\* it found, through any number of proxy-granting tickets.
DestroyInvalidatesDerived ==
  [][\A t \in Thread : At(t, "destroy.delete") /\ ~At(t, "destroy.delete")' =>
       \A s \in ST : parent[s] # None /\ req[t].g \in chain[parent[s]] => IsExpiredST(s)']_vars

\* The ticket core implements the abstract session service.
Session == INSTANCE SsoSession WITH
  within <- chain, issuedIn <- parent, consumed <- {s \in ST : validations[s] > 0},
  ended <- expired, notified <- loggedOut

ImplementsSession == Session!Spec

\* The registry does not fill up with dead tickets: what is expired leaves it,
\* unless a grant already under way makes it fresh again.
ExpiredLeaveRegistry ==
  \A x \in Ticket : (x \in registry /\ IsExpired(x)) ~> (x \notin registry \/ ~IsExpired(x))

-------------------------------------------------------------------------------
(* What comments in the code promise and the code does not keep.           *)

\* "Destroy a TicketGrantingTicket.  This has the effect of invalidating any
\* Ticket that was derived from the TicketGrantingTicket being destroyed."
DestroyAlwaysInvalidates ==
  [][\A t \in Thread :
       (\E pc \in {"destroy.lookup", "destroy.delete"} : At(t, pc)) /\ At(t, "idle")' =>
         \A s \in ST : parent[s] # None /\ req[t].g \in chain[parent[s]] => IsExpiredST(s)']_vars

\* "Expire TGT to trigger single sign-out", "log users out of services when we
\* remove an expired ticket": a removed session's validated services are told.
RemovalSignsOut ==
  \A s \in ST : validations[s] > 0 /\ parent[s] \notin registry => s \in loggedOut

\* "Does this application participate in the SSO session?": one that does not
\* gets tickets only for a login of its own.
NoSsoMeansOwnLogin ==
  \A s \in ST : parent[s] # None /\ svcOf[s] \notin SsoEnabled => s \in newLogin
===============================================================================
