------------------------------ MODULE CasServer ------------------------------
(***************************************************************************)
(* The deployed CAS server: Dev.CasServer/CasServer.cs behind the actions  *)
(* of CASController, with FormsCasAuthenticator and UserValidateFake, on   *)
(* top of the tickets of module CasTicket.  A request runs on one thread;  *)
(* its calls of CasTicket.Issue and CheckAndPunch are the steps of that    *)
(* module, so that requests interleave inside them.                        *)
(*                                                                         *)
(* A service URL is a record of the client it is a page of and whether it  *)
(* carries a ";jsessionid=.." suffix.                                      *)
(***************************************************************************)
EXTENDS CasTicket

CONSTANTS
    Browsers,
    LoginThreads,     \* the requests that log in; no thread is bound to a kind of
    ValidateThreads,  \* request, these two sets bound how many of each overlap
    ClientList,       \* the services whose URL starts with that of a configured Client
    Extended,         \* the users with a row in UserExtend
    NoService,        \* the service parameter is missing
    CurrentDomain,    \* a URL of the CAS server's own site
    Requested         \* bound: the service URLs that requests name

ServicePage == Services \cup {NoService, CurrentDomain}

ServiceUrl == [page : ServicePage, jsessionid : BOOLEAN]

LoginRequest == [browser : Browsers, strUserName : Users, service : ServiceUrl, signsIn : BOOLEAN]

ValidateRequest == [service : ServiceUrl, extended : BOOLEAN]

Redirect == [browser : Browsers, strUserName : Users, page : Services, ticket : TicketString]

Verdict == {"success", "INVALID_SERVICE", "exception"}

Answer == [ticket : CasTicketObject, str : TicketString, page : ServicePage, verdict : Verdict]

ASSUME ServerAssumption ==
    /\ LoginThreads \cap ValidateThreads = {}
    /\ Threads = LoginThreads \cup ValidateThreads
    /\ ClientList \subseteq Services
    /\ Extended \subseteq Users
    /\ NoService \notin Services /\ CurrentDomain \notin Services
    /\ Requested \subseteq ServiceUrl
    /\ Null \notin LoginRequest \cup ValidateRequest

VARIABLES
    cookie,     \* the forms authentication cookie of each browser: a user or null
    login,      \* the login request each thread is serving
    validation, \* the validation request each thread is serving
    redirects,  \* history: redirections to a service, with the ticket in them
    answers     \* history: answers to validations that found their ticket

serverVars == <<cookie, login, validation, redirects, answers>>
allVars == <<vars, serverVars>>

ServerInit ==
    /\ Init
    /\ cookie = [b \in Browsers |-> Null]
    /\ login = [t \in LoginThreads |-> Null]
    /\ validation = [t \in ValidateThreads |-> Null]
    /\ redirects = {}
    /\ answers = {}

\* Mutant: a URL with a session is not the URL of the service.
TranslateService_KeepsSession(url) == IF url.jsessionid THEN NoService ELSE url.page

\* The jsessionid suffix is cut off; CasTranslateService returns its argument.
TranslateService(url) == url.page

\* The response of a request that signed the browser in carries the new cookie.
SetCookie(r) == cookie' = IF r.signsIn THEN [cookie EXCEPT ![r.browser] = r.strUserName] ELSE cookie

-----------------------------------------------------------------------------
(* Login                                                                   *)

\* A page of the own site, or no service at all: the redirection carries no ticket.
RedirectWithoutTicket(r) ==
    /\ r.service.page \in {NoService, CurrentDomain}
    /\ SetCookie(r)
    /\ UNCHANGED <<vars, login, validation, redirects, answers>>

\* ClientNoPermissionException: whether the error page still carries the cookie is
\* ASP.NET's choice.
NoPermission(r) ==
    /\ r.service.page \in Services \ ClientList
    /\ SetCookie(r) \/ UNCHANGED cookie
    /\ UNCHANGED <<vars, login, validation, redirects, answers>>

\* Mutant: a ticket is issued for a missing service too.
StartIssue_NoCheck(t, r) ==
    /\ IssueReads(t, r.strUserName, TranslateService(r.service))
    /\ login' = [login EXCEPT ![t] = r]
    /\ UNCHANGED <<cookie, validation, redirects, answers>>

\* A ticket is issued for a client on the list.
StartIssue(t, r) ==
    /\ r.service.page \in ClientList
    /\ IssueReads(t, r.strUserName, TranslateService(r.service))
    /\ login' = [login EXCEPT ![t] = r]
    /\ UNCHANGED <<cookie, validation, redirects, answers>>

HandleLoginRequest(t, r) ==
    RedirectWithoutTicket(r) \/ NoPermission(r) \/ StartIssue(t, r)

\* GET login: a browser that is logged in already is redirected; else it sees the form.
HandlePageLoad(t, b, service) ==
    /\ pc[t] = "idle"
    /\ cookie[b] # Null
    /\ HandleLoginRequest(t, [browser |-> b, strUserName |-> cookie[b],
                              service |-> service, signsIn |-> FALSE])

\* POST login with a good password: WebSecurity.Login adds the cookie to the response,
\* CasLogin does nothing.  A bad password shows the form again and changes nothing.
HandlePageLogin(t, b, user, service) ==
    /\ pc[t] = "idle"
    /\ HandleLoginRequest(t, [browser |-> b, strUserName |-> user,
                              service |-> service, signsIn |-> TRUE])

IncrementCounter(t) ==
    /\ IssueWrites(t)
    /\ UNCHANGED serverVars

\* Issue returns, and the browser is redirected to the URL it asked for plus the ticket.
RedirectWithTicket(t) ==
    /\ IssueAdds(t)
    /\ redirects' = redirects \cup {[browser |-> login[t].browser, strUserName |-> login[t].strUserName,
                                     page |-> login[t].service.page, ticket |-> strTicket[t]]}
    /\ SetCookie(login[t])
    /\ login' = [login EXCEPT ![t] = Null]
    /\ UNCHANGED <<validation, answers>>

HandleLogoutRequest(b) ==
    /\ cookie[b] # Null
    /\ cookie' = [cookie EXCEPT ![b] = Null]
    /\ UNCHANGED <<vars, login, validation, redirects, answers>>

-----------------------------------------------------------------------------
(* Validation: a missing parameter is refused before the ticket is touched, *)
(* and an unknown ticket is INVALID_TICKET; neither changes anything.       *)

\* HandleServiceValidateRequest (extended) or HandleValidateRequest; the client presents a
\* ticket that some browser brought.
ValidateTicket(t, service, str, extended) ==
    /\ service.page # NoService
    /\ \E r \in redirects : r.ticket = str
    /\ PunchGets(t, str)
    /\ validation' = [validation EXCEPT ![t] = [service |-> service, extended |-> extended]]
    /\ UNCHANGED <<cookie, login, redirects, answers>>

\* Mutant: the service a ticket was issued for is not looked at.
VerdictOn_AnyService(object, v) ==
    IF v.extended /\ object._strUserName \notin Extended THEN "exception" ELSE "success"

\* The ticket is punched before the service is compared, and the answer of CAS 2.0 reads
\* the user's UserExtend row after that.
VerdictOn(object, v) ==
    IF object._strService # TranslateService(v.service) THEN "INVALID_SERVICE"
    ELSE IF v.extended /\ object._strUserName \notin Extended THEN "exception"
    ELSE "success"

AnswerValidation(t) ==
    /\ PunchRemoves(t)
    /\ answers' = answers \cup {[ticket |-> ticket[t], str |-> strTicket[t],
                                 page |-> validation[t].service.page,
                                 verdict |-> VerdictOn(ticket[t], validation[t])]}
    /\ validation' = [validation EXCEPT ![t] = Null]
    /\ UNCHANGED <<cookie, login, redirects>>

-----------------------------------------------------------------------------
CacheEvicts(str) == Evict(str) /\ UNCHANGED serverVars

\* Cookies are the browsers', and survive.
ServerRestarts ==
    /\ Restart
    /\ login' = [t \in LoginThreads |-> Null]
    /\ validation' = [t \in ValidateThreads |-> Null]
    /\ UNCHANGED <<cookie, redirects, answers>>

ServerNext ==
    \/ \E t \in LoginThreads :
          \/ \E b \in Browsers, service \in Requested :
                \/ HandlePageLoad(t, b, service)
                \/ \E user \in Users : HandlePageLogin(t, b, user, service)
          \/ IncrementCounter(t)
          \/ RedirectWithTicket(t)
    \/ \E b \in Browsers : HandleLogoutRequest(b)
    \/ \E t \in ValidateThreads :
          \/ \E service \in Requested, str \in TicketString, extended \in BOOLEAN :
                ValidateTicket(t, service, str, extended)
          \/ AnswerValidation(t)
    \/ \E str \in TicketString : CacheEvicts(str)
    \/ ServerRestarts

ServerSpec == ServerInit /\ [][ServerNext]_allVars

-----------------------------------------------------------------------------
ServerTypeOK ==
    /\ TypeOK
    /\ cookie \in [Browsers -> Users \cup {Null}]
    /\ login \in [LoginThreads -> LoginRequest \cup {Null}]
    /\ validation \in [ValidateThreads -> ValidateRequest \cup {Null}]
    /\ \A t \in LoginThreads : (pc[t] = "idle") = (login[t] = Null)
    /\ \A t \in ValidateThreads : (pc[t] = "idle") = (validation[t] = Null)
    /\ redirects \subseteq Redirect
    /\ answers \subseteq Answer

\* A client is only ever told a user who logged in towards that same client and was sent
\* there with that very ticket, and the client is one of the configured ones, whatever the
\* interleaving, and over restarts that reset the counter.
AnswersAreGranted ==
    \A a \in answers : a.verdict = "success" =>
        /\ a.page \in ClientList
        /\ \E r \in redirects :
              /\ r.ticket = a.str
              /\ r.strUserName = a.ticket._strUserName
              /\ r.page = a.page

\* As long as the counter is undisturbed, a client that presents the ticket of a redirection
\* is told the user of that redirection, and the service is not refused to a client that
\* names the page the browser was sent to, with or without its jsessionid.
OwnRedirectIsHonoured ==
    Undisturbed =>
        \A a \in answers, r \in redirects : a.str = r.ticket =>
            /\ a.ticket._strUserName = r.strUserName
            /\ a.page = r.page => a.verdict # "INVALID_SERVICE"

\* Where every ticket comes from, on which the two properties above rest: the strings handed
\* out and the redirections are the same, for configured clients only, and whatever is in
\* the cache, read by a validation or answered was handed out under that very string.
Carries(r, p) ==
    r.ticket = p[2] /\ r.strUserName = p[1]._strUserName /\ r.page = p[1]._strService

GrantInv ==
    /\ \A t \in LoginThreads : ~Punching(t) /\ (pc[t] # "idle" =>
          /\ login[t].service.page \in ClientList
          /\ ticket[t]._strUserName = login[t].strUserName
          /\ ticket[t]._strService = login[t].service.page)
    /\ \A t \in ValidateThreads : ~Issuing(t) /\ (pc[t] # "idle" => <<ticket[t], strTicket[t]>> \in issued)
    /\ \A str \in TicketString : cache[str] # Null => <<cache[str], str>> \in issued
    /\ \A p \in issued : p[1]._strService \in ClientList /\ \E r \in redirects : Carries(r, p)
    /\ \A r \in redirects : \E p \in issued : Carries(r, p)
    /\ \A a \in answers :
          /\ <<a.ticket, a.str>> \in issued
          /\ a.verdict = "success" => a.page = a.ticket._strService
          /\ a.verdict = "INVALID_SERVICE" => a.page # a.ticket._strService

-----------------------------------------------------------------------------
(* The server implements PunchedTicket.                                    *)

Cached(id) == \E str \in TicketString : cache[str] # Null /\ cache[str].id = id

HeldBy(id, threads) == {t \in threads : pc[t] # "idle" /\ ticket[t].id = id}

StatusOf(id) ==
    IF uses[id] > 0 THEN "redeemed"
    ELSE IF Cached(id) THEN "live"
    ELSE IF id >= issues \/ HeldBy(id, LoginThreads) # {} THEN "new"
    ELSE "gone"

Status == [id \in Ids |-> StatusOf(id)]

Holders == [id \in Ids |-> HeldBy(id, ValidateThreads)]

Abstract == INSTANCE PunchedTicket WITH
    Tickets <- Ids,
    Validators <- ValidateThreads,
    status <- Status,
    holders <- Holders,
    answers <- uses

\* Every step of the server is a step of PunchedTicket or leaves its state unchanged: after a
\* validation was answered, no validation that starts later gets that ticket, whatever logins,
\* other validations of the same ticket, evictions and restarts come between.
ImplementsPunchedTicket == Abstract!Spec
=============================================================================
