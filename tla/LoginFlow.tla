----------------------------- MODULE LoginFlow -----------------------------
(***************************************************************************)
(* Logging in with a browser: the web flow (login-webflow.xml and its      *)
(* actions), the login outside the flow and the logout.  One browser has   *)
(* several tabs, each with a flow execution of its own, and shares its     *)
(* cookies and its HTTP session among them.  A request is handled as a     *)
(* whole; the cookies it sets reach the browser with its response, and     *)
(* responses may overtake each other.                                      *)
(*                                                                         *)
(* The services manager and the registry are those of ServicesManager and  *)
(* Tickets, reduced to what the flow asks of them.  Return addresses,      *)
(* schools, login tickets and verification codes are not represented: a    *)
(* wrong one counts as wrong credentials, which lead to the form again.    *)
(***************************************************************************)
EXTENDS Naturals, FiniteSets

CONSTANTS
  User,
  TGT,         \* the sessions' ids
  Tab,
  Outside,     \* whether anybody logs in outside the flow
  MaxPending,  \* bound: responses on their way
  Null

ASSUME LoginAssumption == MaxPending \in Nat /\ Outside \in BOOLEAN
ASSUME NoneAssumption == Null \notin User \cup TGT

VARIABLES
  owner,        \* the user of each session, Null before it is created
  alive,        \* the sessions in the registry
  used,         \* the sessions that have granted a ticket
  service,      \* of the one service: [enabled, sso, listed]
  cookie,       \* the browser's cookies: [tgt, user]
  httpUser,     \* the credentials in the HTTP session
  pending,      \* responses that set cookies, not yet received
  flow,         \* the flow execution of each tab, paused at the form
  answer        \* history: what the request just handled was answered

loginVars == <<owner, alive, used, service, cookie, httpUser, pending, flow, answer>>

NoCookies == [tgt |-> Null, user |-> Null]
NoFlow    == [at |-> "none", tgt |-> Null, service |-> FALSE, renew |-> FALSE,
              gateway |-> FALSE]
NoAnswer  == [page |-> "none", tgt |-> Null, typed |-> Null, asked |-> NoFlow]

LoginInit ==
  /\ owner = [g \in TGT |-> Null]
  /\ alive = {} /\ used = {}
  /\ service \in [enabled : {TRUE}, sso : BOOLEAN, listed : {TRUE}]
  /\ cookie = NoCookies /\ httpUser = Null
  /\ pending = {}
  /\ flow = [t \in Tab |-> NoFlow]
  /\ answer = NoAnswer

(***************************************************************************)
(* What the flow asks of the ticket service.                               *)
(***************************************************************************)
Fresh(g) == owner[g] = Null

(* Ids are unique, and nothing depends on which one is next.               *)
NextId == CHOOSE g \in TGT : Fresh(g)
AnyId  == \E g \in TGT : Fresh(g)

(* grantServiceTicket without credentials.                                 *)
Grants(g, live, busy) ==
  /\ g \in live
  /\ service.enabled
  /\ service.sso \/ g \notin busy

(* The browser takes the cookies of a response when it arrives.            *)
Respond(tgt, user) ==
  /\ Cardinality(pending) < MaxPending
  /\ pending' = pending \cup {[tgt |-> tgt, user |-> user]}

Answered(page, tgt, typed, f) ==
  answer' = [page |-> page, tgt |-> tgt, typed |-> typed, asked |-> f]

(* The flow ends with a page, or pauses at the form again.                 *)
Ends(t)      == flow' = [flow EXCEPT ![t] = NoFlow]
Pauses(t, f) == flow' = [flow EXCEPT ![t] = [f EXCEPT !.at = "form"]]

(* a bug: who cannot be sent back sees the form.                           *)
GatewayAsks(t, typed, f) ==
  /\ Answered(IF service.listed THEN "sent back" ELSE "form", Null, typed, f)
  /\ Ends(t)

(* gatewayServicesManagementCheck: a listed service gets its user back,    *)
(* without a ticket.                                                       *)
Gateway(t, typed, f) ==
  /\ Answered(IF service.listed THEN "sent back" ELSE "error", Null, typed, f)
  /\ Ends(t)

(* serviceAuthorizationCheck, then the form.                               *)
AsksToLogIn(t, f) ==
  IF f.service /\ ~service.enabled
  THEN Answered("error", Null, Null, f) /\ Ends(t)
  ELSE Answered("form", Null, Null, f) /\ Pauses(t, f)

(* generateServiceTicket in session g.                                     *)
GenerateServiceTicket(t, g, typed, f, live, busy) ==
  IF Grants(g, live, busy)
  THEN Answered("ticket", g, typed, f) /\ Ends(t) /\ used' = busy \cup {g}
  ELSE /\ used' = busy
       /\ IF f.gateway THEN Gateway(t, typed, f)
          ELSE Answered("form", Null, typed, f) /\ Pauses(t, f)

(***************************************************************************)
(* A tab asks for the login page.                                          *)
(***************************************************************************)
StartFlow(t, asked) ==
  LET f == [asked EXCEPT !.tgt = cookie.tgt]
  IN  /\ IF f.tgt = Null
         THEN /\ UNCHANGED used
              /\ IF f.gateway /\ f.service THEN Gateway(t, Null, f) ELSE AsksToLogIn(t, f)
         ELSE IF ~f.service
         THEN Answered("success", f.tgt, Null, f) /\ Ends(t) /\ UNCHANGED used
         ELSE IF f.renew THEN AsksToLogIn(t, f) /\ UNCHANGED used
         ELSE GenerateServiceTicket(t, f.tgt, Null, f, alive, used)
      /\ UNCHANGED <<owner, alive, service, cookie, httpUser, pending>>

(***************************************************************************)
(* The form is submitted.                                                  *)
(***************************************************************************)
WrongCredentials(t) ==
  /\ flow[t].at = "form"
  /\ Answered("form", Null, Null, flow[t])
  /\ UNCHANGED <<owner, alive, used, service, cookie, httpUser, pending, flow>>

RenewsSession(f) == f.renew /\ f.service /\ f.tgt # Null

(* Whether the credentials are those of the session.                       *)
(* a bug: the principals are not compared.                                 *)
Unchecked(g, u) == TRUE
SamePrincipal(g, u) == owner[g] = u

(* A renewed login of the same user keeps the session.                     *)
SubmitRenewed(t, u) ==
  LET f == flow[t]
  IN  /\ f.at = "form" /\ RenewsSession(f)
      /\ f.tgt \in alive
      /\ IF ~service.enabled
         THEN Answered("error", Null, u, f) /\ UNCHANGED used
         ELSE /\ SamePrincipal(f.tgt, u)
              /\ Answered("ticket", f.tgt, u, f)
              /\ used' = used \cup {f.tgt}
      /\ Ends(t)
      /\ UNCHANGED <<owner, alive, service, cookie, httpUser, pending>>

(* Any other login makes a session, ends the one the flow began with, and  *)
(* goes on to the service, if there is one.                                *)
SubmitNew(t, u) ==
  LET f    == flow[t]
      g    == NextId
      live == (alive \cup {g}) \ {f.tgt}
  IN  /\ f.at = "form"
      /\ RenewsSession(f) /\ f.tgt \in alive => service.enabled /\ ~SamePrincipal(f.tgt, u)
      /\ AnyId
      /\ owner' = [owner EXCEPT ![g] = u]
      /\ alive' = live
      /\ httpUser' = u
      /\ Respond(g, u)
      /\ IF f.service THEN GenerateServiceTicket(t, g, u, f, live, used)
         ELSE Answered("success", g, u, f) /\ Ends(t) /\ UNCHANGED used
      /\ UNCHANGED <<service, cookie>>

(***************************************************************************)
(* Outside the flow: no check of an earlier session; the cookies are set   *)
(* after the grant, which is refused without a service or for one that is  *)
(* not enabled.                                                            *)
(***************************************************************************)
NoFlowLogin(u, forService) ==
  /\ Outside /\ AnyId
  /\ LET g == NextId
     IN  /\ owner' = [owner EXCEPT ![g] = u]
         /\ alive' = alive \cup {g}
         /\ IF forService /\ Grants(g, alive', used)
            THEN /\ Respond(g, u)
                 /\ httpUser' = u
                 /\ used' = used \cup {g}
                 /\ Answered("ticket", g, u, NoFlow)
            ELSE /\ UNCHANGED <<pending, httpUser, used>>
                 /\ Answered("error", Null, u, NoFlow)
  /\ UNCHANGED <<service, cookie, flow>>

(* The HTTP session goes, and the flow executions that are kept in it.     *)
Logout ==
  /\ httpUser' = Null
  /\ flow' = [t \in Tab |-> NoFlow]
  /\ Answered("logged out", cookie.tgt, Null, NoFlow)
  /\ IF cookie.tgt = Null THEN UNCHANGED <<alive, pending>>
     ELSE /\ alive' = alive \ {cookie.tgt}
          /\ Respond(Null, Null)
  /\ UNCHANGED <<owner, used, service, cookie>>

(***************************************************************************)
(* Around the requests: responses arrive, sessions and HTTP sessions time  *)
(* out, a tab is closed, an administrator changes the service.             *)
(***************************************************************************)
Deliver(r) ==
  /\ r \in pending
  /\ pending' = pending \ {r}
  /\ cookie' = r
  /\ answer' = NoAnswer
  /\ UNCHANGED <<owner, alive, used, service, httpUser, flow>>

Expire(g) ==
  /\ g \in alive
  /\ alive' = alive \ {g}
  /\ answer' = NoAnswer
  /\ UNCHANGED <<owner, used, service, cookie, httpUser, pending, flow>>

HttpSessionEnds ==
  /\ httpUser # Null
  /\ httpUser' = Null
  /\ flow' = [t \in Tab |-> NoFlow]
  /\ answer' = NoAnswer
  /\ UNCHANGED <<owner, alive, used, service, cookie, pending>>

ChangeService ==
  /\ service.enabled
  /\ \E listed \in BOOLEAN : service' = [service EXCEPT !.enabled = FALSE, !.listed = listed]
  /\ answer' = NoAnswer
  /\ UNCHANGED <<owner, alive, used, cookie, httpUser, pending, flow>>

(* Without a service nothing looks at the other parameters.                *)
Asked == {f \in [at : {"none"}, tgt : {Null}, service : BOOLEAN, renew : BOOLEAN,
                 gateway : BOOLEAN] : f.renew \/ f.gateway => f.service}

LoginNext ==
  \/ \E t \in Tab : \/ \E f \in Asked : StartFlow(t, f)
                    \/ WrongCredentials(t)
                    \/ \E u \in User : SubmitRenewed(t, u) \/ SubmitNew(t, u)
  \/ \E u \in User, s \in BOOLEAN : NoFlowLogin(u, s)
  \/ Logout \/ HttpSessionEnds \/ ChangeService
  \/ \E r \in pending : Deliver(r)
  \/ \E g \in TGT : Expire(g)

LoginSpec == LoginInit /\ [][LoginNext]_loginVars

-----------------------------------------------------------------------------
Flow == [at : {"none", "form"}, tgt : TGT \cup {Null}, service : BOOLEAN,
         renew : BOOLEAN, gateway : BOOLEAN]
Cookies == [tgt : TGT \cup {Null}, user : User \cup {Null}]

(* Every variable has its type; only sessions that were created are alive, *)
(* in use or in a flow.                                                    *)
LoginTypeOK ==
  /\ owner \in [TGT -> User \cup {Null}]
  /\ alive \cup used \subseteq {g \in TGT : ~Fresh(g)}
  /\ service \in [enabled : BOOLEAN, sso : BOOLEAN, listed : BOOLEAN]
  /\ cookie \in Cookies /\ pending \subseteq Cookies
  /\ httpUser \in User \cup {Null}
  /\ flow \in [Tab -> Flow]
  /\ answer.tgt \in TGT \cup {Null} /\ answer.typed \in User \cup {Null}
  /\ answer.asked \in Flow
  /\ \A t \in Tab : flow[t].tgt # Null => ~Fresh(flow[t].tgt)

(* Whoever types credentials into the form is logged in as that user, in   *)
(* the ticket the service receives and in the cookies, whatever session    *)
(* the browser had before, renewed or not, and whatever the other tabs do. *)
TicketIsTheirs ==
  /\ answer.page = "ticket" /\ answer.typed # Null => owner[answer.tgt] = answer.typed
  /\ \A c \in pending \cup {cookie} :
       IF c.tgt = Null THEN c.user = Null ELSE c.user = owner[c.tgt]

(* A service that asks for a fresh login is not answered from a session    *)
(* that exists already; one that asks for no interaction never makes its   *)
(* user see the form.                                                      *)
AskedAndAnswered ==
  LET f == answer.asked
  IN  /\ answer.page = "ticket" /\ f.service /\ f.renew => answer.typed # Null
      /\ f.gateway /\ f.service /\ ~f.renew => answer.page # "form"

(* Cookies name sessions that were created: a login never gives a session  *)
(* an id that a cookie, perhaps of a login long past, still names.         *)
CookiesOld == \A c \in pending \cup {cookie} : c.tgt # Null => ~Fresh(c.tgt)

(* A flow that pauses at the form may show it.                             *)
FlowsMayAsk ==
  \A t \in Tab : flow[t].at = "form" =>
    ~(flow[t].gateway /\ flow[t].service /\ ~flow[t].renew)

(* The inductive invariant, with which the proofs argue.                   *)
LoginInv ==
  /\ LoginTypeOK /\ CookiesOld /\ FlowsMayAsk /\ TicketIsTheirs /\ AskedAndAnswered
  /\ answer.page = "ticket" => answer.tgt # Null
=============================================================================
