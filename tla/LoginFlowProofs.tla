---------------------------- MODULE LoginFlowProofs ----------------------------
(***************************************************************************)
(* Whoever types credentials is logged in as that user, and a service that *)
(* asks for a fresh login, or for no form, gets it: for any users, tabs,   *)
(* sessions and responses on their way, with and without logins outside    *)
(* the flow.                                                               *)
(***************************************************************************)
EXTENDS LoginFlow, TLAPS

(* The part of the invariant that speaks of the sessions and the cookies.  *)
SessionsOK ==
  /\ owner \in [TGT -> User \cup {Null}]
  /\ alive \cup used \subseteq {g \in TGT : ~Fresh(g)}
  /\ service \in [enabled : BOOLEAN, sso : BOOLEAN, listed : BOOLEAN]
  /\ cookie \in Cookies /\ pending \subseteq Cookies
  /\ httpUser \in User \cup {Null}
  /\ \A c \in pending \cup {cookie} :
       IF c.tgt = Null THEN c.user = Null ELSE c.user = owner[c.tgt] /\ ~Fresh(c.tgt)

(* A flow execution, typed, with a session that was created, and allowed   *)
(* to show the form when it is at the form.                                *)
FlowOK(f) ==
  /\ f \in Flow
  /\ f.tgt # Null => ~Fresh(f.tgt)
  /\ f.at = "form" => ~(f.gateway /\ f.service /\ ~f.renew)

FlowsOK == flow \in [Tab -> Flow] /\ \A t \in Tab : FlowOK(flow[t])

(* The answer.                                                             *)
AnswerOK ==
  /\ answer.tgt \in TGT \cup {Null} /\ answer.typed \in User \cup {Null}
  /\ answer.asked \in Flow
  /\ answer.page = "ticket" =>
       /\ answer.tgt # Null
       /\ answer.typed # Null => owner[answer.tgt] = answer.typed
  /\ AskedAndAnswered

LEMMA InvParts == LoginInv <=> SessionsOK /\ FlowsOK /\ AnswerOK
<1>1. ASSUME LoginInv PROVE SessionsOK /\ FlowsOK /\ AnswerOK
  BY <1>1 DEF LoginInv, LoginTypeOK, CookiesOld, FlowsMayAsk, TicketIsTheirs,
              SessionsOK, FlowsOK, FlowOK, AnswerOK
<1>2. ASSUME SessionsOK, FlowsOK, AnswerOK PROVE LoginInv
  BY <1>2 DEF LoginInv, LoginTypeOK, CookiesOld, FlowsMayAsk, TicketIsTheirs,
              SessionsOK, FlowsOK, FlowOK, AnswerOK
<1>3. QED
  BY <1>1, <1>2

LEMMA LoginInitial == LoginInit => LoginInv
<1> SUFFICES ASSUME LoginInit PROVE SessionsOK /\ FlowsOK /\ AnswerOK
  BY InvParts
<1>1. SessionsOK
  <2>1. service \in [enabled : BOOLEAN, sso : BOOLEAN, listed : BOOLEAN]
    BY DEF LoginInit
  <2>2. cookie \in Cookies /\ cookie.tgt = Null /\ cookie.user = Null
    BY DEF LoginInit, NoCookies, Cookies
  <2>3. QED
    BY <2>1, <2>2 DEF LoginInit, SessionsOK
<1>2. FlowsOK
  BY DEF LoginInit, FlowsOK, FlowOK, NoFlow, Flow
<1>3. AnswerOK
  BY DEF LoginInit, AnswerOK, AskedAndAnswered, NoAnswer, NoFlow, Flow
<1>4. QED
  BY <1>1, <1>2, <1>3

(* An id that is free goes to the session.                                 *)
LEMMA NextIdFresh == AnyId => NextId \in TGT /\ Fresh(NextId)
  BY DEF AnyId, NextId

(* An answer is in order if a ticket is of the session of whoever typed    *)
(* the credentials, and if the page is one the flow may show.              *)
LEMMA AnswerIsOK ==
  ASSUME NEW page, NEW tgt \in TGT \cup {Null}, NEW typed \in User \cup {Null},
         NEW f \in Flow, Answered(page, tgt, typed, f),
         page = "ticket" => /\ tgt # Null
                            /\ typed # Null => owner'[tgt] = typed
                            /\ f.service /\ f.renew => typed # Null,
         page = "form" => ~(f.gateway /\ f.service /\ ~f.renew)
  PROVE  AnswerOK'
<1>1. answer' = [page |-> page, tgt |-> tgt, typed |-> typed, asked |-> f]
  BY DEF Answered
<1>2. QED
  BY <1>1 DEF AnswerOK, AskedAndAnswered

(* What is no request has no answer.                                       *)
LEMMA NoAnswerIsOK == answer' = NoAnswer => AnswerOK'
  BY DEF AnswerOK, AskedAndAnswered, NoAnswer, NoFlow, Flow

LEMMA EndsOK ==
  ASSUME FlowsOK, NEW t \in Tab, Ends(t),
         \A g \in TGT : ~Fresh(g) => ~Fresh(g)'
  PROVE  FlowsOK'
<1>1. NoFlow \in Flow /\ NoFlow.tgt = Null /\ NoFlow.at # "form"
  BY DEF NoFlow, Flow
<1>2. \A s \in Tab : flow'[s] = IF s = t THEN NoFlow ELSE flow[s]
  BY DEF FlowsOK, Ends
<1>3. flow' \in [Tab -> Flow]
  BY <1>1 DEF FlowsOK, Ends
<1>4. \A s \in Tab : flow[s].tgt \in TGT \cup {Null}
  BY DEF FlowsOK, Flow
<1>5. QED
  BY <1>1, <1>2, <1>3, <1>4 DEF FlowsOK, FlowOK

LEMMA PausesOK ==
  ASSUME FlowsOK, NEW t \in Tab, NEW f \in Flow, Pauses(t, f),
         f.tgt # Null => ~Fresh(f.tgt)', ~(f.gateway /\ f.service /\ ~f.renew),
         \A g \in TGT : ~Fresh(g) => ~Fresh(g)'
  PROVE  FlowsOK'
<1> DEFINE p == [f EXCEPT !.at = "form"]
<1>1. p \in Flow /\ p.tgt = f.tgt /\ p.gateway = f.gateway /\ p.service = f.service
      /\ p.renew = f.renew
  BY DEF Flow
<1>2. flow' = [flow EXCEPT ![t] = p]
  BY DEF Pauses
<1> HIDE DEF p
<1>3. flow' \in [Tab -> Flow] /\ \A s \in Tab : flow'[s] = IF s = t THEN p ELSE flow[s]
  BY <1>1, <1>2 DEF FlowsOK
<1>4. \A s \in Tab : flow[s].tgt \in TGT \cup {Null}
  BY DEF FlowsOK, Flow
<1>5. QED
  BY <1>1, <1>3, <1>4 DEF FlowsOK, FlowOK

-------------------------------------------------------------------------------
(* The helpers of the flow.                                                *)

LEMMA GatewayOK ==
  ASSUME FlowsOK, NEW t \in Tab, NEW typed \in User \cup {Null}, NEW f \in Flow,
         Gateway(t, typed, f), \A g \in TGT : ~Fresh(g) => ~Fresh(g)'
  PROVE  FlowsOK' /\ AnswerOK'
<1>1. FlowsOK'
  BY EndsOK DEF Gateway
<1>2. PICK page \in {"sent back", "error"} : Answered(page, Null, typed, f)
  BY DEF Gateway
<1>3. AnswerOK'
  BY <1>2, AnswerIsOK
<1>4. QED
  BY <1>1, <1>3

LEMMA AsksToLogInOK ==
  ASSUME FlowsOK, NEW t \in Tab, NEW f \in Flow, AsksToLogIn(t, f),
         f.tgt # Null => ~Fresh(f.tgt)', ~(f.gateway /\ f.service /\ ~f.renew),
         \A g \in TGT : ~Fresh(g) => ~Fresh(g)'
  PROVE  FlowsOK' /\ AnswerOK'
<1>1. CASE f.service /\ ~service.enabled
  <2>1. Answered("error", Null, Null, f) /\ Ends(t)
    BY <1>1 DEF AsksToLogIn
  <2>2. QED
    BY <2>1, EndsOK, AnswerIsOK
<1>2. CASE ~(f.service /\ ~service.enabled)
  <2>1. Answered("form", Null, Null, f) /\ Pauses(t, f)
    BY <1>2 DEF AsksToLogIn
  <2>2. QED
    BY <2>1, PausesOK, AnswerIsOK
<1>3. QED
  BY <1>1, <1>2

(* A ticket granted without credentials is one nobody asked to renew for.  *)
LEMMA GenerateServiceTicketOK ==
  ASSUME FlowsOK, NEW t \in Tab, NEW g \in TGT, NEW typed \in User \cup {Null},
         NEW f \in Flow, NEW live, NEW busy,
         GenerateServiceTicket(t, g, typed, f, live, busy),
         f.service, typed = Null => ~f.renew,
         typed # Null => owner'[g] = typed,
         ~Fresh(g)', f.tgt # Null => ~Fresh(f.tgt)',
         \A h \in TGT : ~Fresh(h) => ~Fresh(h)'
  PROVE  FlowsOK' /\ AnswerOK' /\ used' \subseteq busy \cup {g}
<1>1. CASE Grants(g, live, busy)
  <2>1. Answered("ticket", g, typed, f) /\ Ends(t) /\ used' = busy \cup {g}
    BY <1>1 DEF GenerateServiceTicket
  <2>2. g # Null
    BY NoneAssumption
  <2>3. AnswerOK'
    BY <2>1, <2>2, AnswerIsOK
  <2>4. QED
    BY <2>1, <2>3, EndsOK
<1>2. CASE ~Grants(g, live, busy) /\ f.gateway
  BY <1>2, GatewayOK DEF GenerateServiceTicket
<1>3. CASE ~Grants(g, live, busy) /\ ~f.gateway
  <2>1. Answered("form", Null, typed, f) /\ Pauses(t, f) /\ used' = busy
    BY <1>3 DEF GenerateServiceTicket
  <2>2. AnswerOK'
    BY <1>3, <2>1, AnswerIsOK
  <2>3. QED
    BY <1>3, <2>1, <2>2, PausesOK
<1>4. QED
  BY <1>1, <1>2, <1>3

-------------------------------------------------------------------------------
(* The requests.                                                           *)

LEMMA StartFlowStep ==
  ASSUME SessionsOK, FlowsOK, NEW t \in Tab, NEW asked \in Asked, StartFlow(t, asked)
  PROVE  SessionsOK' /\ FlowsOK' /\ AnswerOK'
<1> DEFINE f == [asked EXCEPT !.tgt = cookie.tgt]
<1>1. UNCHANGED <<owner, alive, service, cookie, httpUser, pending>>
  BY DEF StartFlow
<1>2. f \in Flow /\ f.tgt = cookie.tgt
  BY DEF SessionsOK, Asked, Flow, Cookies
<1>3. \A g \in TGT : ~Fresh(g) => ~Fresh(g)'
  BY <1>1 DEF Fresh
<1>4. f.tgt # Null => f.tgt \in TGT /\ ~Fresh(f.tgt) /\ ~Fresh(f.tgt)'
  BY <1>1, <1>2 DEF SessionsOK, Cookies, Fresh
<1>5. (UNCHANGED used \/ (f.tgt # Null /\ used' \subseteq used \cup {f.tgt})) => SessionsOK'
  BY <1>1, <1>4 DEF SessionsOK, Fresh
<1>6. CASE f.tgt = Null
  <2>1. UNCHANGED used
        /\ IF f.gateway /\ f.service THEN Gateway(t, Null, f) ELSE AsksToLogIn(t, f)
    BY <1>6 DEF StartFlow
  <2>2. FlowsOK' /\ AnswerOK'
    <3> HIDE DEF f
    <3>1. QED
      BY <1>2, <1>3, <1>6, <2>1, GatewayOK, AsksToLogInOK
  <2>3. QED
    BY <2>1, <2>2, <1>5
<1>7. CASE f.tgt # Null /\ ~f.service
  <2>1. Answered("success", f.tgt, Null, f) /\ Ends(t) /\ UNCHANGED used
    BY <1>7 DEF StartFlow
  <2>2. FlowsOK' /\ AnswerOK'
    <3> HIDE DEF f
    <3>1. QED
      BY <1>2, <1>3, <1>4, <2>1, EndsOK, AnswerIsOK
  <2>3. QED
    BY <2>1, <2>2, <1>5
<1>8. CASE f.tgt # Null /\ f.service /\ f.renew
  <2>1. AsksToLogIn(t, f) /\ UNCHANGED used
    BY <1>8 DEF StartFlow
  <2>2. FlowsOK' /\ AnswerOK'
    <3> HIDE DEF f
    <3>1. QED
      BY <1>2, <1>3, <1>4, <1>8, <2>1, AsksToLogInOK
  <2>3. QED
    BY <2>1, <2>2, <1>5
<1>9. CASE f.tgt # Null /\ f.service /\ ~f.renew
  <2>1. GenerateServiceTicket(t, f.tgt, Null, f, alive, used)
    BY <1>9 DEF StartFlow
  <2>2. FlowsOK' /\ AnswerOK' /\ used' \subseteq used \cup {f.tgt}
    <3> HIDE DEF f
    <3>1. QED
      BY <1>2, <1>3, <1>4, <1>9, <2>1, GenerateServiceTicketOK
  <2>3. QED
    BY <2>2, <1>5, <1>9
<1>10. QED
  BY <1>6, <1>7, <1>8, <1>9

LEMMA WrongCredentialsStep ==
  ASSUME SessionsOK, FlowsOK, NEW t \in Tab, WrongCredentials(t)
  PROVE  SessionsOK' /\ FlowsOK' /\ AnswerOK'
<1>1. UNCHANGED <<owner, alive, used, service, cookie, httpUser, pending, flow>>
      /\ Answered("form", Null, Null, flow[t]) /\ flow[t].at = "form"
  BY DEF WrongCredentials
<1>2. flow[t] \in Flow /\ ~(flow[t].gateway /\ flow[t].service /\ ~flow[t].renew)
  BY <1>1 DEF FlowsOK, FlowOK
<1>3. AnswerOK'
  BY <1>1, <1>2, AnswerIsOK
<1>4. QED
  BY <1>1, <1>3 DEF SessionsOK, FlowsOK, FlowOK, Fresh

(* The session that is kept is the user's.                                 *)
LEMMA SubmitRenewedStep ==
  ASSUME SessionsOK, FlowsOK, NEW t \in Tab, NEW u \in User, SubmitRenewed(t, u)
  PROVE  SessionsOK' /\ FlowsOK' /\ AnswerOK'
<1> DEFINE f == flow[t]
<1>1. UNCHANGED <<owner, alive, service, cookie, httpUser, pending>> /\ Ends(t)
      /\ f.tgt \in alive
  BY DEF SubmitRenewed
<1>2. f \in Flow
  BY DEF FlowsOK, FlowOK
<1>3. FlowsOK'
  BY <1>1, EndsOK DEF Fresh
<1>4. CASE ~service.enabled
  <2>1. Answered("error", Null, u, f) /\ UNCHANGED used
    BY <1>4 DEF SubmitRenewed
  <2>2. AnswerOK'
    BY <1>2, <2>1, AnswerIsOK
  <2>3. SessionsOK'
    BY <1>1, <2>1 DEF SessionsOK, Fresh
  <2>4. QED
    BY <1>3, <2>2, <2>3
<1>5. CASE service.enabled
  <2>1. owner[f.tgt] = u /\ Answered("ticket", f.tgt, u, f) /\ used' = used \cup {f.tgt}
    BY <1>5 DEF SubmitRenewed, SamePrincipal
  <2>2. f.tgt \in TGT /\ f.tgt # Null /\ ~Fresh(f.tgt)
    BY <1>1, NoneAssumption DEF SessionsOK
  <2>3. AnswerOK'
    BY <1>1, <1>2, <2>1, <2>2, NoneAssumption, AnswerIsOK
  <2>4. SessionsOK'
    BY <1>1, <2>1, <2>2 DEF SessionsOK, Fresh
  <2>5. QED
    BY <1>3, <2>3, <2>4
<1>6. QED
  BY <1>4, <1>5

(* A session gets an id that no cookie, no flow and no ticket names.       *)
LEMMA CreatesSession ==
  ASSUME SessionsOK, NEW g \in TGT, Fresh(g), NEW u \in User,
         owner' = [owner EXCEPT ![g] = u], alive' \subseteq alive \cup {g},
         used' \subseteq used \cup {g}, httpUser' \in {u, httpUser}, UNCHANGED <<service, cookie>>,
         Respond(g, u) \/ UNCHANGED pending
  PROVE  /\ SessionsOK'
         /\ owner'[g] = u /\ ~Fresh(g)'
         /\ \A h \in TGT : ~Fresh(h) => ~Fresh(h)'
<1>1. owner' \in [TGT -> User \cup {Null}] /\ owner'[g] = u
      /\ \A h \in TGT : h # g => owner'[h] = owner[h]
  BY DEF SessionsOK
<1>2. u # Null
  BY NoneAssumption
<1>3. ~Fresh(g)' /\ \A h \in TGT : ~Fresh(h) => owner'[h] = owner[h] /\ ~Fresh(h)'
  BY <1>1, <1>2 DEF Fresh
<1>4. alive' \cup used' \subseteq {h \in TGT : ~Fresh(h)'}
  BY <1>3 DEF SessionsOK
<1>5. pending' \subseteq pending \cup {[tgt |-> g, user |-> u]}
  BY DEF Respond
<1>6. cookie' \in Cookies /\ pending' \subseteq Cookies
  BY <1>5 DEF SessionsOK, Cookies
<1>7. ASSUME NEW c \in pending' \cup {cookie'}
      PROVE  IF c.tgt = Null THEN c.user = Null ELSE c.user = owner'[c.tgt] /\ ~Fresh(c.tgt)'
  <2>1. CASE c = [tgt |-> g, user |-> u]
    BY <2>1, <1>1, <1>3, NoneAssumption
  <2>2. CASE c \in pending \cup {cookie}
    <3>1. c.tgt \in TGT \cup {Null}
      BY <2>2 DEF SessionsOK, Cookies
    <3>2. IF c.tgt = Null THEN c.user = Null ELSE c.user = owner[c.tgt] /\ ~Fresh(c.tgt)
      BY <2>2 DEF SessionsOK
    <3>3. QED
      BY <3>1, <3>2, <1>3
  <2>3. QED
    BY <2>1, <2>2, <1>5
<1>8. SessionsOK'
  BY <1>1, <1>4, <1>6, <1>7 DEF SessionsOK
<1>9. QED
  BY <1>1, <1>3, <1>8

(* Any other login: whatever the browser had, the session is the new one.  *)
LEMMA SubmitNewStep ==
  ASSUME SessionsOK, FlowsOK, NEW t \in Tab, NEW u \in User, SubmitNew(t, u)
  PROVE  SessionsOK' /\ FlowsOK' /\ AnswerOK'
<1>1. AnyId
  BY DEF SubmitNew
<1>2. PICK g \in TGT : g = NextId /\ Fresh(g)
  BY <1>1, NextIdFresh
<1>3. PICK f \in Flow : f = flow[t] /\ (f.tgt # Null => f.tgt \in TGT /\ ~Fresh(f.tgt))
  BY DEF FlowsOK, FlowOK, Flow
<1> DEFINE live == (alive \cup {g}) \ {f.tgt}
<1>4. /\ owner' = [owner EXCEPT ![g] = u] /\ alive' = live /\ httpUser' = u
      /\ Respond(g, u) /\ UNCHANGED <<service, cookie>>
      /\ IF f.service THEN GenerateServiceTicket(t, g, u, f, live, used)
         ELSE Answered("success", g, u, f) /\ Ends(t) /\ UNCHANGED used
  BY <1>2, <1>3 DEF SubmitNew
<1>5. u # Null
  BY NoneAssumption
<1>6. owner'[g] = u /\ ~Fresh(g)' /\ \A h \in TGT : ~Fresh(h) => ~Fresh(h)'
  <2>1. owner'[g] = u /\ \A h \in TGT : h # g => owner'[h] = owner[h]
    BY <1>4, <1>2 DEF SessionsOK
  <2>2. QED
    BY <2>1, <1>2, <1>5 DEF Fresh
<1>7. f.tgt # Null => ~Fresh(f.tgt)'
  BY <1>3, <1>6
<1>8. CASE f.service
  <2>1. GenerateServiceTicket(t, g, u, f, live, used)
    BY <1>4, <1>8
  <2>2. FlowsOK' /\ AnswerOK' /\ used' \subseteq used \cup {g}
    <3> HIDE DEF live
    <3>1. QED
      BY <2>1, <1>2, <1>3, <1>5, <1>6, <1>8, <1>7, GenerateServiceTicketOK
  <2>3. SessionsOK'
    BY <2>2, <1>4, <1>2, CreatesSession
  <2>4. QED
    BY <2>2, <2>3
<1>9. CASE ~f.service
  <2>1. Answered("success", g, u, f) /\ Ends(t) /\ UNCHANGED used
    BY <1>4, <1>9
  <2>2. FlowsOK'
    BY <2>1, <1>6, EndsOK
  <2>3. AnswerOK'
    BY <2>1, <1>2, <1>3, AnswerIsOK
  <2>4. SessionsOK'
    BY <2>1, <1>4, <1>2, CreatesSession
  <2>5. QED
    BY <2>2, <2>3, <2>4
<1>10. QED
  BY <1>8, <1>9

(* Outside the flow, a login makes a session and leaves the flows alone.   *)
LEMMA NoFlowLoginStep ==
  ASSUME SessionsOK, FlowsOK, NEW u \in User, NEW forService \in BOOLEAN,
         NoFlowLogin(u, forService)
  PROVE  SessionsOK' /\ FlowsOK' /\ AnswerOK'
<1> DEFINE g == NextId
<1>1. /\ AnyId /\ owner' = [owner EXCEPT ![g] = u] /\ alive' = alive \cup {g}
      /\ UNCHANGED <<service, cookie, flow>>
      /\ \/ /\ Respond(g, u) /\ httpUser' = u /\ used' = used \cup {g}
            /\ Answered("ticket", g, u, NoFlow)
         \/ /\ UNCHANGED <<pending, httpUser, used>>
            /\ Answered("error", Null, u, NoFlow)
  BY DEF NoFlowLogin
<1>2. g \in TGT /\ Fresh(g)
  BY <1>1, NextIdFresh
<1> HIDE DEF g
<1>3. SessionsOK' /\ owner'[g] = u /\ \A h \in TGT : ~Fresh(h) => ~Fresh(h)'
  BY <1>1, <1>2, CreatesSession
<1>4. FlowsOK'
  BY <1>1, <1>3 DEF FlowsOK, FlowOK, Flow
<1>5. NoFlow \in Flow
  BY DEF NoFlow, Flow
<1>6. AnswerOK'
  BY <1>1, <1>2, <1>3, <1>5, NoneAssumption, AnswerIsOK
<1>7. QED
  BY <1>3, <1>4, <1>6

LEMMA NoFlowsOK ==
  ASSUME flow' = [t \in Tab |-> NoFlow]
  PROVE  FlowsOK'
  BY DEF FlowsOK, FlowOK, NoFlow, Flow

LEMMA LogoutStep ==
  ASSUME SessionsOK, Logout
  PROVE  SessionsOK' /\ FlowsOK' /\ AnswerOK'
<1>1. /\ httpUser' = Null /\ flow' = [t \in Tab |-> NoFlow]
      /\ Answered("logged out", cookie.tgt, Null, NoFlow)
      /\ alive' \subseteq alive /\ pending' \subseteq pending \cup {NoCookies}
      /\ UNCHANGED <<owner, used, service, cookie>>
  BY DEF Logout, Respond, NoCookies
<1>2. NoCookies \in Cookies /\ NoCookies.tgt = Null /\ NoCookies.user = Null
  BY DEF NoCookies, Cookies
<1>3. SessionsOK'
  BY <1>1, <1>2 DEF SessionsOK, Fresh
<1>4. NoFlow \in Flow /\ cookie.tgt \in TGT \cup {Null}
  BY DEF NoFlow, Flow, SessionsOK, Cookies
<1>5. AnswerOK'
  BY <1>1, <1>4, AnswerIsOK
<1>6. QED
  BY <1>1, <1>3, <1>5, NoFlowsOK

-------------------------------------------------------------------------------
(* Every step, and the theorems.                                           *)

LEMMA NextInvParts == LoginInv' <=> SessionsOK' /\ FlowsOK' /\ AnswerOK'
  BY InvParts, PTL

LEMMA LoginStep == LoginInv /\ [LoginNext]_loginVars => LoginInv'
<1> SUFFICES ASSUME SessionsOK, FlowsOK, AnswerOK, [LoginNext]_loginVars
             PROVE  SessionsOK' /\ FlowsOK' /\ AnswerOK'
  BY InvParts, NextInvParts
<1>1. ASSUME NEW t \in Tab, NEW f \in Asked, StartFlow(t, f)
      PROVE  SessionsOK' /\ FlowsOK' /\ AnswerOK'
  BY <1>1, StartFlowStep
<1>2. ASSUME NEW t \in Tab, WrongCredentials(t)
      PROVE  SessionsOK' /\ FlowsOK' /\ AnswerOK'
  BY <1>2, WrongCredentialsStep
<1>3. ASSUME NEW t \in Tab, NEW u \in User, SubmitRenewed(t, u)
      PROVE  SessionsOK' /\ FlowsOK' /\ AnswerOK'
  BY <1>3, SubmitRenewedStep
<1>4. ASSUME NEW t \in Tab, NEW u \in User, SubmitNew(t, u)
      PROVE  SessionsOK' /\ FlowsOK' /\ AnswerOK'
  BY <1>4, SubmitNewStep
<1>5. ASSUME NEW u \in User, NEW s \in BOOLEAN, NoFlowLogin(u, s)
      PROVE  SessionsOK' /\ FlowsOK' /\ AnswerOK'
  BY <1>5, NoFlowLoginStep
<1>6. CASE Logout
  BY <1>6, LogoutStep
<1>7. CASE HttpSessionEnds
  <2>1. /\ httpUser' = Null /\ flow' = [t \in Tab |-> NoFlow]
        /\ answer' = NoAnswer
        /\ UNCHANGED <<owner, alive, used, service, cookie, pending>>
    BY <1>7 DEF HttpSessionEnds
  <2>2. SessionsOK' /\ AnswerOK'
    BY <2>1, NoAnswerIsOK DEF SessionsOK, Fresh
  <2>3. QED
    BY <2>1, <2>2, NoFlowsOK
<1>8. CASE ChangeService
  <2>1. /\ service' \in [enabled : BOOLEAN, sso : BOOLEAN, listed : BOOLEAN]
        /\ answer' = NoAnswer
        /\ UNCHANGED <<owner, alive, used, cookie, httpUser, pending, flow>>
    BY <1>8 DEF ChangeService, SessionsOK
  <2>2. QED
    BY <2>1, NoAnswerIsOK DEF SessionsOK, Fresh, FlowsOK, FlowOK
<1>9. ASSUME NEW r \in pending, Deliver(r)
      PROVE  SessionsOK' /\ FlowsOK' /\ AnswerOK'
  BY <1>9, NoAnswerIsOK DEF Deliver, SessionsOK, Fresh, FlowsOK, FlowOK
<1>10. ASSUME NEW g \in TGT, Expire(g)
       PROVE  SessionsOK' /\ FlowsOK' /\ AnswerOK'
  BY <1>10, NoAnswerIsOK DEF Expire, SessionsOK, Fresh, FlowsOK, FlowOK
<1>11. CASE UNCHANGED loginVars
  BY <1>11 DEF loginVars, SessionsOK, Fresh, FlowsOK, FlowOK, AnswerOK, AskedAndAnswered
<1>12. QED
  BY <1>1, <1>2, <1>3, <1>4, <1>5, <1>6, <1>7, <1>8, <1>9, <1>10, <1>11 DEF LoginNext

(* The inductive invariant: sessions, cookies and flows agree at every     *)
(* moment, for any users, tabs, ids and responses on their way.            *)
THEOREM LoginInvariant == LoginSpec => []LoginInv
<1>1. QED
  BY LoginInitial, LoginStep, PTL DEF LoginSpec

(* Whoever types credentials into the form is logged in as that user: the  *)
(* ticket the service gets, and every pair of cookies the browser has or   *)
(* will have, are that user's.                                             *)
THEOREM CredentialsDecide == LoginSpec => []TicketIsTheirs
<1>1. LoginInv => TicketIsTheirs
  BY DEF LoginInv
<1>2. QED
  BY <1>1, LoginInvariant, PTL

(* A service that asks for a fresh login gets one; one that asks for no    *)
(* interaction never makes its user see the form.                          *)
THEOREM AskedIsAnswered == LoginSpec => []AskedAndAnswered
<1>1. LoginInv => AskedAndAnswered
  BY DEF LoginInv
<1>2. QED
  BY <1>1, LoginInvariant, PTL
================================================================================
