--------------------------- MODULE CasServerProofs ---------------------------
(***************************************************************************)
(* Proofs about CasServer: a step of the server is a step of CasTicket or  *)
(* leaves the tickets alone, so that the invariants of CasTicketProofs are *)
(* the server's too; from them, what an answer to a validation says; and   *)
(* the refinement of PunchedTicket.                                        *)
(***************************************************************************)
EXTENDS CasServer, CasTicketProofs

CookiesTypeOK == cookie \in [Browsers -> Users \cup {Null}]

\* The steps that touch nothing but the cookies: logging in without a ticket, logging out.
OnlyCookies == UNCHANGED <<vars, login, validation, redirects, answers>> /\ CookiesTypeOK'

\* A step of the server by the call of CasTicket it makes.
ServerStep ==
    \/ OnlyCookies
    \/ \E t \in LoginThreads :
          \/ \E r \in LoginRequest : StartIssue(t, r)
          \/ IncrementCounter(t)
          \/ RedirectWithTicket(t)
    \/ \E t \in ValidateThreads :
          \/ \E service \in ServiceUrl, str \in TicketString, extended \in BOOLEAN :
                ValidateTicket(t, service, str, extended)
          \/ AnswerValidation(t)
    \/ \E str \in TicketString : CacheEvicts(str)
    \/ ServerRestarts

\* The handlers of page loads and of login forms come to one of two ends.
LEMMA LoginsStartOrRedirect ==
    ASSUME CookiesTypeOK, NEW t \in LoginThreads, NEW b \in Browsers, NEW service \in Requested,
           \/ HandlePageLoad(t, b, service)
           \/ \E user \in Users : HandlePageLogin(t, b, user, service)
    PROVE  OnlyCookies \/ \E r \in LoginRequest : StartIssue(t, r)
<1> USE ServerAssumption DEF CookiesTypeOK
<1>1. PICK r \in LoginRequest : HandleLoginRequest(t, r)
  <2>1. CASE HandlePageLoad(t, b, service)
    BY <2>1, Zenon DEF HandlePageLoad, LoginRequest
  <2>2. CASE \E user \in Users : HandlePageLogin(t, b, user, service)
    BY <2>2, Zenon DEF HandlePageLogin, LoginRequest
  <2>3. QED
    BY <2>1, <2>2
<1>2. ASSUME RedirectWithoutTicket(r) \/ NoPermission(r)
      PROVE  OnlyCookies
  BY <1>2 DEF RedirectWithoutTicket, NoPermission, SetCookie, OnlyCookies, LoginRequest
<1>3. QED
  BY <1>1, <1>2 DEF HandleLoginRequest

\* Every step of the server, as one of its calls into CasTicket or a step without one.
LEMMA ServerSteps ==
    ASSUME CookiesTypeOK, [ServerNext]_allVars
    PROVE  ServerStep
<1>1. ASSUME NEW t \in LoginThreads, NEW b \in Browsers, NEW service \in Requested,
             \/ HandlePageLoad(t, b, service)
             \/ \E user \in Users : HandlePageLogin(t, b, user, service)
      PROVE  OnlyCookies \/ \E r \in LoginRequest : StartIssue(t, r)
  BY <1>1, LoginsStartOrRedirect
<1>2. ASSUME NEW b \in Browsers, HandleLogoutRequest(b)
      PROVE  OnlyCookies
  BY <1>2 DEF HandleLogoutRequest, OnlyCookies, CookiesTypeOK
<1>3. CASE UNCHANGED allVars
  BY <1>3 DEF allVars, serverVars, OnlyCookies, CookiesTypeOK, ServerStep
<1>4. CASE ServerNext
  BY <1>1, <1>2, <1>4, ServerAssumption, Zenon DEF ServerNext, ServerStep
<1>5. QED
  BY <1>3, <1>4 DEF ServerStep

\* The request handlers touch the tickets through the calls of CasTicket only.
LEMMA ServerStepIsTicketStep ==
    ASSUME CookiesTypeOK, [ServerNext]_allVars
    PROVE  [Next]_vars
<1> USE ServerAssumption
<1>1. CASE OnlyCookies
  BY <1>1 DEF OnlyCookies
<1>2. ASSUME NEW t \in LoginThreads, NEW r \in LoginRequest, StartIssue(t, r)
      PROVE  Next
  <2>1. r.strUserName \in Users /\ TranslateService(r.service) \in Services
    BY <1>2 DEF StartIssue, TranslateService, LoginRequest
  <2>2. IssueReads(t, r.strUserName, TranslateService(r.service))
    BY <1>2 DEF StartIssue
  <2>3. QED
    BY <2>1, <2>2 DEF Next
<1>3. ASSUME NEW t \in LoginThreads, IncrementCounter(t) \/ RedirectWithTicket(t)
      PROVE  Next
  BY <1>3 DEF IncrementCounter, RedirectWithTicket, Next
<1>4. ASSUME NEW t \in ValidateThreads, NEW service \in ServiceUrl, NEW str \in TicketString,
             NEW extended \in BOOLEAN, ValidateTicket(t, service, str, extended)
      PROVE  Next
  BY <1>4 DEF ValidateTicket, Next
<1>5. ASSUME NEW t \in ValidateThreads, AnswerValidation(t)
      PROVE  Next
  BY <1>5 DEF AnswerValidation, Next
<1>6. ASSUME NEW str \in TicketString, CacheEvicts(str)
      PROVE  Next
  BY <1>6 DEF CacheEvicts, Next
<1>7. CASE ServerRestarts
  BY <1>7 DEF ServerRestarts, Next
<1>8. QED
  BY <1>1, <1>2, <1>3, <1>4, <1>5, <1>6, <1>7, ServerSteps, Zenon DEF ServerStep
-----------------------------------------------------------------------------
\* The part of ServerTypeOK that the server adds to the type invariant of CasTicket.
RequestsTypeOK ==
    /\ CookiesTypeOK
    /\ login \in [LoginThreads -> LoginRequest \cup {Null}]
    /\ validation \in [ValidateThreads -> ValidateRequest \cup {Null}]
    /\ \A t \in LoginThreads : (pc[t] = "idle") = (login[t] = Null)
    /\ \A t \in ValidateThreads : (pc[t] = "idle") = (validation[t] = Null)
    /\ redirects \subseteq Redirect
    /\ answers \subseteq Answer

\* The type invariant is that of the tickets and that of the requests in progress.
LEMMA ServerTypeParts == ServerTypeOK <=> TypeOK /\ RequestsTypeOK
BY DEF ServerTypeOK, RequestsTypeOK, CookiesTypeOK

\* No step of the server leaves its types, given where its tickets come from.
LEMMA ServerTypeStep ==
    ServerTypeOK /\ GrantInv /\ [ServerNext]_allVars => ServerTypeOK'
<1> SUFFICES ASSUME ServerTypeOK, GrantInv, [ServerNext]_allVars
             PROVE  ServerTypeOK'
  OBVIOUS
<1> USE ServerAssumption
<1>t. TypeOK /\ RequestsTypeOK
  BY ServerTypeParts
<1>1. ASSUME OnlyCookies
      PROVE  RequestsTypeOK'
  BY <1>t, <1>1 DEF OnlyCookies, vars, calls, RequestsTypeOK
<1>2. ASSUME NEW t \in LoginThreads, NEW r \in LoginRequest, StartIssue(t, r)
      PROVE  RequestsTypeOK'
  BY <1>t, <1>2 DEF StartIssue, IssueReads, RequestsTypeOK, CookiesTypeOK, TypeOK
<1>3. ASSUME NEW t \in LoginThreads, IncrementCounter(t)
      PROVE  RequestsTypeOK'
  BY <1>t, <1>3 DEF IncrementCounter, IssueWrites, serverVars, RequestsTypeOK, CookiesTypeOK, TypeOK
<1>4. ASSUME NEW t \in LoginThreads, RedirectWithTicket(t)
      PROVE  RequestsTypeOK'
  <2>1. login[t] \in LoginRequest /\ login[t].service.page \in Services /\ strTicket[t] \in TicketString
    BY <1>t, <1>4 DEF RedirectWithTicket, IssueAdds, RequestsTypeOK, TypeOK, GrantInv
  <2>2. redirects' \subseteq Redirect
    BY <1>t, <2>1, <1>4 DEF RedirectWithTicket, RequestsTypeOK, Redirect, LoginRequest
  <2>3. CookiesTypeOK'
    BY <1>t, <2>1, <1>4 DEF RedirectWithTicket, SetCookie, RequestsTypeOK, CookiesTypeOK, LoginRequest
  <2>4. QED
    BY <1>t, <1>4, <2>2, <2>3 DEF RedirectWithTicket, IssueAdds, RequestsTypeOK, TypeOK
<1>5. ASSUME NEW t \in ValidateThreads, NEW service \in ServiceUrl, NEW str \in TicketString,
             NEW extended \in BOOLEAN, ValidateTicket(t, service, str, extended)
      PROVE  RequestsTypeOK'
  <2>1. [service |-> service, extended |-> extended] \in ValidateRequest
    BY DEF ValidateRequest
  <2>2. QED
    BY <1>t, <1>5, <2>1 DEF ValidateTicket, PunchGets, history, RequestsTypeOK, CookiesTypeOK, TypeOK
<1>6. ASSUME NEW t \in ValidateThreads, AnswerValidation(t)
      PROVE  RequestsTypeOK'
  <2>1. /\ validation[t] \in ValidateRequest
        /\ ticket[t] \in CasTicketObject
        /\ strTicket[t] \in TicketString
    BY <1>t, <1>6 DEF AnswerValidation, PunchRemoves, RequestsTypeOK, TypeOK
  <2>2. answers' \subseteq Answer
    BY <1>t, <1>6, <2>1
       DEF AnswerValidation, RequestsTypeOK, Answer, ValidateRequest, ServiceUrl, VerdictOn, Verdict
  <2>3. QED
    BY <1>t, <1>6, <2>2 DEF AnswerValidation, PunchRemoves, RequestsTypeOK, CookiesTypeOK, TypeOK
<1>7. ASSUME NEW str \in TicketString, CacheEvicts(str)
      PROVE  RequestsTypeOK'
  BY <1>t, <1>7 DEF CacheEvicts, Evict, calls, serverVars, RequestsTypeOK, CookiesTypeOK
<1>8. ASSUME ServerRestarts
      PROVE  RequestsTypeOK'
  BY <1>t, <1>8 DEF ServerRestarts, Restart, RequestsTypeOK, CookiesTypeOK
<1>9. ServerStep
  BY <1>t, ServerSteps DEF RequestsTypeOK
<1>10. QED
  <2>1. RequestsTypeOK'
    BY <1>1, <1>2, <1>3, <1>4, <1>5, <1>6, <1>7, <1>8, <1>9, Zenon DEF ServerStep
  <2>2. TypeOK'
    BY <1>t, ServerStepIsTicketStep, TypeStep DEF RequestsTypeOK
  <2>3. QED
    BY <2>1, <2>2 DEF ServerTypeOK, RequestsTypeOK, CookiesTypeOK

\* No step of the server puts a ticket anywhere that it was not handed out for.
LEMMA GrantStep ==
    ServerTypeOK /\ GrantInv /\ [ServerNext]_allVars => GrantInv'
<1> SUFFICES ASSUME ServerTypeOK, GrantInv, [ServerNext]_allVars
             PROVE  GrantInv'
  OBVIOUS
<1> USE ServerAssumption
<1>t. TypeOK /\ RequestsTypeOK
  BY ServerTypeParts
<1>1. CASE OnlyCookies
  BY <1>1 DEF OnlyCookies, vars, calls, history, GrantInv, Carries, Punching, Issuing
<1>2. ASSUME NEW t \in LoginThreads, NEW r \in LoginRequest, StartIssue(t, r)
      PROVE  GrantInv'
  BY <1>t, <1>2 DEF StartIssue, IssueReads, TranslateService, GrantInv, Carries, Punching, Issuing,
                    TypeOK, RequestsTypeOK
<1>3. ASSUME NEW t \in LoginThreads, IncrementCounter(t)
      PROVE  GrantInv'
  BY <1>t, <1>3 DEF IncrementCounter, IssueWrites, serverVars, GrantInv, Carries, Punching, Issuing, TypeOK
<1>4. ASSUME NEW t \in LoginThreads, RedirectWithTicket(t)
      PROVE  GrantInv'
  <2> DEFINE p == <<ticket[t], strTicket[t]>>
             r == [browser |-> login[t].browser, strUserName |-> login[t].strUserName,
                   page |-> login[t].service.page, ticket |-> strTicket[t]]
  <2>1. issued' = issued \cup {p} /\ redirects' = redirects \cup {r} /\ answers' = answers
    BY <1>4 DEF RedirectWithTicket, IssueAdds
  <2>2. p[1]._strService \in ClientList /\ Carries(r, p)
    BY <1>4 DEF RedirectWithTicket, IssueAdds, GrantInv, Carries
  <2>3. \A str \in TicketString : cache'[str] # Null => <<cache'[str], str>> \in issued'
    BY <1>t, <1>4, <2>1 DEF RedirectWithTicket, IssueAdds, StorageAdd, GrantInv, TypeOK
  <2>4. \A q \in issued' : q[1]._strService \in ClientList /\ \E s \in redirects' : Carries(s, q)
    BY <2>1, <2>2 DEF GrantInv
  <2>5. \A s \in redirects' : \E q \in issued' : Carries(s, q)
    BY <2>1, <2>2 DEF GrantInv
  <2>6. \A u \in LoginThreads : ~Punching(u)' /\ (pc'[u] # "idle" =>
              /\ login'[u].service.page \in ClientList
              /\ ticket'[u]._strUserName = login'[u].strUserName
              /\ ticket'[u]._strService = login'[u].service.page)
    BY <1>t, <1>4 DEF RedirectWithTicket, IssueAdds, GrantInv, Punching, TypeOK, RequestsTypeOK
  <2>7. \A u \in ValidateThreads :
              ~Issuing(u)' /\ (pc'[u] # "idle" => <<ticket'[u], strTicket'[u]>> \in issued')
    BY <1>t, <1>4, <2>1 DEF RedirectWithTicket, IssueAdds, GrantInv, Issuing, TypeOK
  <2>8. \A a \in answers' : <<a.ticket, a.str>> \in issued'
    BY <2>1 DEF GrantInv
  <2>9. QED
    BY <2>1, <2>3, <2>4, <2>5, <2>6, <2>7, <2>8 DEF GrantInv, Carries
<1>5. ASSUME NEW t \in ValidateThreads, NEW service \in ServiceUrl, NEW str \in TicketString,
             NEW extended \in BOOLEAN, ValidateTicket(t, service, str, extended)
      PROVE  GrantInv'
  BY <1>t, <1>5 DEF ValidateTicket, PunchGets, history, GrantInv, Carries, Punching, Issuing, TypeOK
<1>6. ASSUME NEW t \in ValidateThreads, AnswerValidation(t)
      PROVE  GrantInv'
  <2> DEFINE a == [ticket |-> ticket[t], str |-> strTicket[t], page |-> validation[t].service.page,
                   verdict |-> VerdictOn(ticket[t], validation[t])]
  <2>1. /\ <<a.ticket, a.str>> \in issued
        /\ a.verdict = "success" => a.page = a.ticket._strService
        /\ a.verdict = "INVALID_SERVICE" => a.page # a.ticket._strService
    BY <1>6 DEF AnswerValidation, PunchRemoves, GrantInv, VerdictOn, TranslateService
  <2>2. answers' = answers \cup {a} /\ issued' = issued /\ redirects' = redirects
    BY <1>6 DEF AnswerValidation, PunchRemoves
  <2> HIDE DEF a
  <2>3. \A str \in TicketString : cache'[str] # Null => <<cache'[str], str>> \in issued'
    BY <1>t, <1>6, <2>2 DEF AnswerValidation, PunchRemoves, StorageRemove, GrantInv, TypeOK
  <2>4. \A c \in answers' :
              /\ <<c.ticket, c.str>> \in issued'
              /\ c.verdict = "success" => c.page = c.ticket._strService
              /\ c.verdict = "INVALID_SERVICE" => c.page # c.ticket._strService
    BY <2>1, <2>2 DEF GrantInv
  <2>5. QED
    BY <1>t, <1>6, <2>2, <2>3, <2>4
       DEF AnswerValidation, PunchRemoves, GrantInv, Carries, Punching, Issuing, TypeOK
<1>7. ASSUME NEW str \in TicketString, CacheEvicts(str)
      PROVE  GrantInv'
  BY <1>t, <1>7 DEF CacheEvicts, Evict, StorageRemove, calls, history, serverVars, GrantInv, Carries,
                    Punching, Issuing, TypeOK
<1>8. CASE ServerRestarts
  BY <1>t, <1>8 DEF ServerRestarts, Restart, GrantInv, Carries, Punching, Issuing
<1>9. ServerStep
  BY <1>t, ServerSteps DEF RequestsTypeOK
<1>10. QED
  BY <1>1, <1>2, <1>3, <1>4, <1>5, <1>6, <1>7, <1>8, <1>9, Zenon DEF ServerStep

\* Every reachable state of the server is well typed, and its tickets are where they were
\* handed out.
LEMMA ServerInvariant == ServerSpec => [](ServerTypeOK /\ GrantInv)
<1>1. ServerInit => ServerTypeOK
  <2>1. ServerInit => RequestsTypeOK
    BY ServerAssumption DEF ServerInit, Init, RequestsTypeOK, CookiesTypeOK
  <2>2. QED
    BY <2>1, TypeInit, ServerTypeParts DEF ServerInit
<1>2. ServerInit => GrantInv
  BY ServerAssumption DEF ServerInit, Init, GrantInv, Punching, Issuing
<1>3. QED
  BY <1>1, <1>2, ServerTypeStep, GrantStep, PTL DEF ServerSpec

\* The server's requests, cookies, redirections and answers are well typed, and a thread has
\* a request exactly while it is inside a call of CasTicket.
THEOREM ServerTypeCorrect == ServerSpec => []ServerTypeOK
BY ServerInvariant, PTL

\* The invariants of the tickets hold in the server.
LEMMA TicketInvariants == ServerSpec => [](PunchInv /\ CounterInv)
<1>1. ServerInit => PunchInv /\ CounterInv
  BY PunchInit, CounterInit DEF ServerInit
<1>2. ServerTypeOK /\ ServerTypeOK' /\ PunchInv /\ CounterInv /\ [ServerNext]_allVars
          => PunchInv' /\ CounterInv'
  BY ServerTypeParts, ServerStepIsTicketStep, PunchStep, CounterStep DEF RequestsTypeOK, ServerTypeOK
<1>3. QED
  BY <1>1, <1>2, ServerInvariant, PTL DEF ServerSpec

\* ValidateTicket and AnswerValidation: a client is only told a user who was sent to it with
\* that ticket, for any number of requests and over any number of restarts.
THEOREM AnswersGranted == ServerSpec => []AnswersAreGranted
<1>1. GrantInv => AnswersAreGranted
  <2> SUFFICES ASSUME GrantInv, NEW a \in answers, a.verdict = "success"
               PROVE  /\ a.page \in ClientList
                      /\ \E r \in redirects :
                            /\ r.ticket = a.str
                            /\ r.strUserName = a.ticket._strUserName
                            /\ r.page = a.page
    BY DEF AnswersAreGranted
  <2>1. <<a.ticket, a.str>> \in issued /\ a.page = a.ticket._strService
    BY DEF GrantInv
  <2>2. a.ticket._strService \in ClientList /\ \E r \in redirects : Carries(r, <<a.ticket, a.str>>)
    BY <2>1 DEF GrantInv
  <2>3. QED
    BY <2>1, <2>2 DEF Carries
<1>2. QED
  BY <1>1, ServerInvariant, PTL

\* While the counter is undisturbed the ticket of a redirection leads to the user of that
\* redirection, and the client it went to is not refused.
THEOREM OwnRedirectHonoured == ServerSpec => []OwnRedirectIsHonoured
<1>1. GrantInv /\ CounterInv => OwnRedirectIsHonoured
  <2> SUFFICES ASSUME GrantInv, CounterInv, Undisturbed,
                      NEW a \in answers, NEW r \in redirects, a.str = r.ticket
               PROVE  /\ a.ticket._strUserName = r.strUserName
                      /\ a.page = r.page => a.verdict # "INVALID_SERVICE"
    BY DEF OwnRedirectIsHonoured
  <2>1. PICK p \in issued : Carries(r, p)
    BY DEF GrantInv
  <2>2. <<a.ticket, a.str>> \in issued
    BY DEF GrantInv
  <2>3. p[1] = a.ticket
    BY <2>1, <2>2 DEF CounterInv, Carries
  <2>4. QED
    BY <2>1, <2>3 DEF Carries, GrantInv
<1>2. QED
  BY <1>1, ServerInvariant, TicketInvariants, PTL
-----------------------------------------------------------------------------
(* The refinement of PunchedTicket                                         *)

\* Steps that move no ticket keep every status and every holder.
LEMMA StatusUnchanged ==
    ASSUME UNCHANGED uses,
           \A id \in Ids : /\ HeldBy(id, ValidateThreads)' = HeldBy(id, ValidateThreads)
                           /\ Cached(id)' <=> Cached(id)
                           /\ (id >= issues \/ HeldBy(id, LoginThreads) # {})'
                                 <=> (id >= issues \/ HeldBy(id, LoginThreads) # {})
    PROVE  UNCHANGED Abstract!vars
BY DEF Status, StatusOf, Holders, Abstract!vars

\* A ticket in the cache is with no login.
LEMMA CachedIsIssued ==
    ASSUME TypeOK, GrantInv, PunchInv, NEW str \in TicketString, NEW k \in Ids,
           cache[str] # Null, cache[str].id = k
    PROVE  /\ k < issues /\ ~(k >= issues) /\ uses[k] = 0 /\ ~(uses[k] > 0) /\ Cached(k)
           /\ HeldBy(k, LoginThreads) = {}
           /\ Status[k] = "live"
<1> USE ServerAssumption
<1>1. k < issues /\ uses[k] = 0 /\ Cached(k)
  BY DEF PunchInv, Cached
<1>2. ~(k >= issues) /\ ~(uses[k] > 0)
  BY <1>1 DEF Ids, TypeOK
<1>3. \A u \in LoginThreads : pc[u] # "idle" => Issuing(u)
  BY DEF GrantInv, Punching, Issuing, TypeOK
<1>4. HeldBy(k, LoginThreads) = {}
  BY <1>3 DEF HeldBy, PunchInv
<1>5. QED
  BY <1>1, <1>2, <1>4 DEF Status, StatusOf

\* StartIssue: the new ticket is new already, as no thread has had its identity before.
LEMMA IssueStutters ==
    ASSUME TypeOK, GrantInv, PunchInv, NEW t \in LoginThreads, NEW r \in LoginRequest, StartIssue(t, r)
    PROVE  UNCHANGED Abstract!vars
<1> USE ServerAssumption
<1>1. /\ pc[t] = "idle" /\ pc' = [pc EXCEPT ![t] = "issue_write"]
      /\ ticket'[t].id = issues /\ issues' = issues + 1
      /\ \A u \in Threads \ {t} : ticket'[u] = ticket[u]
      /\ UNCHANGED <<cache, uses>>
  BY DEF StartIssue, IssueReads, TypeOK
<1>2. \A id \in Ids : Cached(id)' <=> Cached(id)
  BY <1>1 DEF Cached
<1>3. \A u \in Threads \ {t} : pc'[u] = pc[u]
  BY <1>1 DEF TypeOK
<1>4. \A id \in Ids : HeldBy(id, ValidateThreads)' = HeldBy(id, ValidateThreads)
  BY <1>1, <1>3 DEF HeldBy
<1>5. \A id \in Ids : HeldBy(id, LoginThreads)' # {} <=> (HeldBy(id, LoginThreads) # {} \/ id = issues)
  <2>1. \A id \in Ids, u \in LoginThreads :
            u \in HeldBy(id, LoginThreads)' <=> (u \in HeldBy(id, LoginThreads) \/ (u = t /\ id = issues))
    BY <1>1, <1>3 DEF HeldBy, TypeOK
  <2>2. \A id \in Ids : /\ HeldBy(id, LoginThreads) \subseteq LoginThreads
                        /\ HeldBy(id, LoginThreads)' \subseteq LoginThreads
    BY DEF HeldBy
  <2>3. QED
    BY <2>1, <2>2
<1>6. \A id \in Ids : (id >= issues \/ HeldBy(id, LoginThreads) # {})'
                         <=> (id >= issues \/ HeldBy(id, LoginThreads) # {})
  <2>1. \A id \in Ids : id >= issues' <=> id >= issues /\ id # issues
    BY <1>1 DEF Ids, TypeOK
  <2>2. \A id \in Ids : id = issues => id >= issues
    BY DEF Ids, TypeOK
  <2>3. QED
    BY <1>5, <2>1, <2>2
<1>7. QED
  BY <1>1, <1>2, <1>4, <1>6, StatusUnchanged

\* RedirectWithTicket: the ticket becomes valid, or is gone at once when its string has an
\* entry already; no other ticket changes.
LEMMA RedirectIssues ==
    ASSUME TypeOK, GrantInv, PunchInv, NEW t \in LoginThreads, RedirectWithTicket(t)
    PROVE  \E k \in Ids : Abstract!Issue(k)
<1> USE ServerAssumption
<1>k. PICK k \in Ids, str \in TicketString : k = ticket[t].id /\ str = strTicket[t]
  BY DEF RedirectWithTicket, IssueAdds, TypeOK, CasTicketObject
<1>1. /\ pc[t] = "issue_add" /\ pc' = [pc EXCEPT ![t] = "idle"]
      /\ cache' = StorageAdd(cache, str, ticket[t])
      /\ UNCHANGED <<ticket, issues, uses>>
  BY <1>k DEF RedirectWithTicket, IssueAdds
<1>2. ticket[t] # Null
  BY <1>1 DEF TypeOK
<1>3. uses[k] = 0 /\ ~Cached(k) /\ (\A u \in Threads \ {t} : pc[u] # "idle" => ticket[u].id # k)
  BY <1>1, <1>k DEF PunchInv, Issuing, Cached
<1>4. t \in HeldBy(k, LoginThreads)
  BY <1>1, <1>3, <1>k DEF HeldBy
<1>5. Status[k] = "new"
  BY <1>2, <1>3, <1>4 DEF Status, StatusOf
<1>6. \A id \in Ids : HeldBy(id, ValidateThreads)' = HeldBy(id, ValidateThreads)
  BY <1>1 DEF HeldBy, TypeOK
<1>7. \A id \in Ids \ {k} : HeldBy(id, LoginThreads)' = HeldBy(id, LoginThreads)
  BY <1>1, <1>k DEF HeldBy, TypeOK
<1>8. \A id \in Ids \ {k} : Cached(id)' <=> Cached(id)
  BY <1>1, <1>2, <1>k DEF StorageAdd, Cached, TypeOK
<1>9. \A id \in Ids \ {k} : StatusOf(id)' = StatusOf(id)
  BY <1>1, <1>7, <1>8 DEF StatusOf
<1>10. StatusOf(k)' \in {"live", "gone"}
  <2>1. k < issues /\ HeldBy(k, LoginThreads)' = {}
    BY <1>1, <1>3, <1>k DEF PunchInv, HeldBy, TypeOK
  <2>2. ~(k >= issues) /\ ~(uses[k] > 0)
    BY <2>1, <1>3 DEF Ids, TypeOK
  <2>3. QED
    BY <1>1, <2>1, <2>2 DEF StatusOf
<1>11. Status' = [Status EXCEPT ![k] = StatusOf(k)']
  BY <1>9 DEF Status
<1>12. Holders' = Holders
  BY <1>6 DEF Holders
<1>13. QED
  BY <1>1, <1>5, <1>10, <1>11, <1>12 DEF Abstract!Issue

\* ValidateTicket: the validation takes the ticket it finds, which is live.
LEMMA ValidationTakes ==
    ASSUME TypeOK, GrantInv, PunchInv,
           NEW t \in ValidateThreads, NEW service \in ServiceUrl, NEW str \in TicketString,
           NEW extended \in BOOLEAN, ValidateTicket(t, service, str, extended)
    PROVE  \E k \in Ids, v \in ValidateThreads : Abstract!Take(k, v)
<1> USE ServerAssumption
<1>k. PICK k \in Ids : k = cache[str].id
  BY DEF ValidateTicket, PunchGets, TypeOK, CasTicketObject
<1>1. /\ pc[t] = "idle" /\ pc' = [pc EXCEPT ![t] = "punch_remove"]
      /\ cache[str] # Null /\ ticket' = [ticket EXCEPT ![t] = cache[str]]
      /\ UNCHANGED <<cache, issues, uses>>
  BY DEF ValidateTicket, PunchGets, history
<1>2. Status[k] = "live"
  BY <1>1, <1>k, CachedIsIssued
<1>3. \A j \in Ids : t \notin Holders[j]
  BY <1>1 DEF Holders, HeldBy
<1>4. \A id \in Ids : HeldBy(id, LoginThreads)' = HeldBy(id, LoginThreads) /\ (Cached(id)' <=> Cached(id))
  BY <1>1 DEF HeldBy, Cached, TypeOK
<1>5. Status' = Status
  BY <1>1, <1>4 DEF Status, StatusOf
<1>6. \A id \in Ids \ {k} : HeldBy(id, ValidateThreads)' = HeldBy(id, ValidateThreads)
  BY <1>1, <1>k DEF HeldBy, TypeOK
<1>7. HeldBy(k, ValidateThreads)' = HeldBy(k, ValidateThreads) \cup {t}
  BY <1>1, <1>k DEF HeldBy, TypeOK
<1>8. Holders' = [Holders EXCEPT ![k] = @ \cup {t}]
  BY <1>6, <1>7 DEF Holders
<1>9. Abstract!Take(k, t)
  BY <1>1, <1>2, <1>3, <1>5, <1>8 DEF Abstract!Take
<1>10. QED
  BY <1>9

\* AnswerValidation: the ticket is redeemed; another one that has come under its string since
\* it was read is removed instead.
LEMMA ValidationAnswers ==
    ASSUME TypeOK, GrantInv, PunchInv, NEW t \in ValidateThreads, AnswerValidation(t)
    PROVE  \E k \in Ids, v \in ValidateThreads : Abstract!Answer(k, v)
<1> USE ServerAssumption
<1>k. PICK k \in Ids, str \in TicketString : k = ticket[t].id /\ str = strTicket[t]
  BY DEF AnswerValidation, PunchRemoves, TypeOK, CasTicketObject
<1> DEFINE S == {j \in Ids \ {k} : cache[str] # Null /\ cache[str].id = j}
<1>1. /\ pc[t] = "punch_remove" /\ pc' = [pc EXCEPT ![t] = "idle"]
      /\ cache' = [cache EXCEPT ![str] = Null]
      /\ uses' = [uses EXCEPT ![k] = @ + 1]
      /\ UNCHANGED <<ticket, issues>>
  BY <1>k DEF AnswerValidation, PunchRemoves, StorageRemove
<1>2. t \in Holders[k]
  BY <1>1, <1>k DEF Holders, HeldBy
<1>3. \A id \in Ids : HeldBy(id, LoginThreads)' = HeldBy(id, LoginThreads)
  BY <1>1 DEF HeldBy, TypeOK
<1>4. \A id \in Ids \ {k} : HeldBy(id, ValidateThreads)' = HeldBy(id, ValidateThreads)
  BY <1>1, <1>k DEF HeldBy, TypeOK
<1>5. HeldBy(k, ValidateThreads)' = HeldBy(k, ValidateThreads) \ {t}
  BY <1>1, <1>k DEF HeldBy, TypeOK
<1>6. Holders' = [Holders EXCEPT ![k] = @ \ {t}]
  BY <1>4, <1>5 DEF Holders
<1>7. \A id \in Ids : Cached(id)' <=> (Cached(id) /\ ~(cache[str] # Null /\ cache[str].id = id))
  BY <1>1 DEF Cached, PunchInv, TypeOK
<1>8. StatusOf(k)' = "redeemed"
  BY <1>1 DEF StatusOf, TypeOK
<1>9. \A id \in S : Status[id] = "live" /\ StatusOf(id)' = "gone"
  <2> SUFFICES ASSUME NEW id \in S
               PROVE  Status[id] = "live" /\ StatusOf(id)' = "gone"
    OBVIOUS
  <2>1. cache[str] # Null /\ cache[str].id = id /\ id # k
    OBVIOUS
  <2>2. /\ ~(id >= issues) /\ ~(uses[id] > 0) /\ HeldBy(id, LoginThreads) = {}
        /\ Status[id] = "live"
    BY <2>1, CachedIsIssued
  <2>3. ~(uses'[id] > 0)
    BY <1>1, <2>1, <2>2 DEF TypeOK
  <2>4. QED
    BY <1>1, <1>3, <1>7, <2>1, <2>2, <2>3 DEF StatusOf
<1>10. \A id \in Ids \ (S \cup {k}) : StatusOf(id)' = StatusOf(id)
  <2>1. \A id \in Ids \ (S \cup {k}) : uses'[id] = uses[id] /\ (Cached(id)' <=> Cached(id))
    BY <1>1, <1>7 DEF TypeOK
  <2>2. QED
    BY <1>1, <1>3, <2>1 DEF StatusOf
<1>11. Status' = [Abstract!Gone(S) EXCEPT ![k] = "redeemed"]
  BY <1>8, <1>9, <1>10 DEF Status, Abstract!Gone
<1>12. Abstract!Answer(k, t)
  BY <1>1, <1>2, <1>6, <1>9, <1>11 DEF Abstract!Answer
<1>13. QED
  BY <1>12

\* CacheEvicts: the ticket is dropped; a validation that has it keeps it.
LEMMA EvictionDrops ==
    ASSUME TypeOK, GrantInv, PunchInv, NEW str \in TicketString, CacheEvicts(str)
    PROVE  Abstract!Drop
<1> USE ServerAssumption
<1>k. PICK k \in Ids : k = cache[str].id
  BY DEF CacheEvicts, Evict, TypeOK, CasTicketObject
<1>1. /\ cache[str] # Null /\ cache' = [cache EXCEPT ![str] = Null]
      /\ UNCHANGED <<pc, ticket, issues, uses>>
  BY DEF CacheEvicts, Evict, StorageRemove, calls, history
<1>2. /\ ~(k >= issues) /\ ~(uses[k] > 0) /\ HeldBy(k, LoginThreads) = {}
      /\ Status[k] = "live"
  BY <1>1, <1>k, CachedIsIssued
<1>3. \A id \in Ids : /\ HeldBy(id, ValidateThreads)' = HeldBy(id, ValidateThreads)
                      /\ HeldBy(id, LoginThreads)' = HeldBy(id, LoginThreads)
  BY <1>1 DEF HeldBy
<1>4. \A id \in Ids : Cached(id)' <=> (Cached(id) /\ id # k)
  BY <1>1, <1>k DEF Cached, PunchInv, TypeOK
<1>5. \A id \in Ids \ {k} : StatusOf(id)' = StatusOf(id)
  BY <1>1, <1>3, <1>4 DEF StatusOf
<1>6. StatusOf(k)' = "gone"
  BY <1>1, <1>2, <1>3, <1>4 DEF StatusOf
<1>7. Status' = Abstract!Gone({k})
  BY <1>5, <1>6 DEF Status, Abstract!Gone
<1>8. Holders' = Holders
  BY <1>3 DEF Holders
<1>9. QED
  BY <1>1, <1>2, <1>7, <1>8 DEF Abstract!Drop

\* ServerRestarts: every ticket that is issued and not redeemed is dropped, and nobody holds
\* one any more.
LEMMA RestartCrashes ==
    ASSUME TypeOK, GrantInv, PunchInv, ServerRestarts
    PROVE  Abstract!Crash
<1> DEFINE S == {j \in Ids : Status[j] \in {"live", "new"} /\ j < issues}
<1>1. /\ cache' = [str \in TicketString |-> Null] /\ pc' = [t \in Threads |-> "idle"]
      /\ UNCHANGED <<ticket, issues, uses>>
  BY DEF ServerRestarts, Restart
<1>2. \A id \in Ids : ~Cached(id)' /\ HeldBy(id, ValidateThreads)' = {} /\ HeldBy(id, LoginThreads)' = {}
  BY <1>1, ServerAssumption DEF Cached, HeldBy
<1>3. \A id \in Ids : id < issues <=> ~(id >= issues)
  BY DEF Ids, TypeOK
<1>4. \A id \in S : StatusOf(id)' = "gone"
  BY <1>1, <1>2, <1>3 DEF Status, StatusOf
<1>5. \A id \in Ids : Cached(id) => id < issues
  BY DEF Cached, PunchInv
<1>6. \A id \in Ids \ S : StatusOf(id)' = StatusOf(id)
  BY <1>1, <1>2, <1>3, <1>5 DEF Status, StatusOf
<1>7. Status' = Abstract!Gone(S)
  BY <1>4, <1>6 DEF Status, Abstract!Gone
<1>8. \A j \in Ids \ S : Status[j] # "live"
  BY <1>5 DEF Status, StatusOf
<1>9. Holders' = [k \in Ids |-> {}]
  BY <1>2 DEF Holders
<1>10. S \in SUBSET {j \in Ids : Status[j] \in {"live", "new"}}
  OBVIOUS
<1> HIDE DEF S
<1>11. QED
  BY <1>1, <1>7, <1>8, <1>9, <1>10 DEF Abstract!Crash

\* Every step of the server is a step of PunchedTicket or changes nothing there.
LEMMA RefinementStep ==
    ASSUME ServerTypeOK, GrantInv, PunchInv, [ServerNext]_allVars
    PROVE  [Abstract!Next]_(Abstract!vars)
<1>t. TypeOK /\ RequestsTypeOK
  BY ServerTypeParts
<1>1. ASSUME OnlyCookies
      PROVE  UNCHANGED Abstract!vars
  BY <1>1, StatusUnchanged DEF OnlyCookies, vars, calls, history, HeldBy, Cached
<1>2. ASSUME NEW t \in LoginThreads, NEW r \in LoginRequest, StartIssue(t, r)
      PROVE  UNCHANGED Abstract!vars
  BY <1>t, <1>2, IssueStutters
<1>3. ASSUME NEW t \in LoginThreads, IncrementCounter(t)
      PROVE  UNCHANGED Abstract!vars
  <2>1. /\ pc[t] = "issue_write" /\ pc' = [pc EXCEPT ![t] = "issue_add"]
        /\ UNCHANGED <<cache, ticket, issues, uses>>
    BY <1>3 DEF IncrementCounter, IssueWrites
  <2>2. \A u \in Threads : pc'[u] # "idle" <=> pc[u] # "idle"
    BY <1>t, <2>1 DEF TypeOK
  <2>3. QED
    BY <2>1, <2>2, StatusUnchanged, ServerAssumption DEF HeldBy, Cached
<1>4. ASSUME NEW t \in LoginThreads, RedirectWithTicket(t)
      PROVE  Abstract!Next
  BY <1>t, <1>4, RedirectIssues DEF Abstract!Next
<1>5. ASSUME NEW t \in ValidateThreads, NEW service \in ServiceUrl, NEW str \in TicketString,
             NEW extended \in BOOLEAN, ValidateTicket(t, service, str, extended)
      PROVE  Abstract!Next
  BY <1>t, <1>5, ValidationTakes DEF Abstract!Next
<1>6. ASSUME NEW t \in ValidateThreads, AnswerValidation(t)
      PROVE  Abstract!Next
  BY <1>t, <1>6, ValidationAnswers DEF Abstract!Next
<1>7. ASSUME NEW str \in TicketString, CacheEvicts(str)
      PROVE  Abstract!Next
  BY <1>t, <1>7, EvictionDrops DEF Abstract!Next
<1>8. ASSUME ServerRestarts
      PROVE  Abstract!Next
  BY <1>t, <1>8, RestartCrashes DEF Abstract!Next
<1>9. ServerStep
  BY <1>t, ServerSteps DEF RequestsTypeOK
<1>10. QED
  BY <1>1, <1>2, <1>3, <1>4, <1>5, <1>6, <1>7, <1>8, <1>9, Zenon DEF ServerStep

\* The server implements PunchedTicket, with any number of requests at a time: after a
\* validation was answered no later one gets that ticket, whatever logins, validations,
\* evictions and restarts come between.
THEOREM Refinement == ServerSpec => ImplementsPunchedTicket
<1>1. ServerInit => Abstract!Init
  BY ServerAssumption DEF ServerInit, Init, Abstract!Init, Status, StatusOf, Cached, Holders, HeldBy, Ids
<1>2. ServerTypeOK /\ GrantInv /\ PunchInv /\ [ServerNext]_allVars => [Abstract!Next]_(Abstract!vars)
  BY RefinementStep
<1>3. QED
  BY <1>1, <1>2, ServerInvariant, TicketInvariants, PTL
     DEF ServerSpec, ImplementsPunchedTicket, Abstract!Spec

=============================================================================
