---------------- MODULE CentralAuthenticationServiceProofs ----------------
(***************************************************************************)
(* Proofs about CentralAuthenticationService: a service ticket is used no  *)
(* more often than its policy allows, and a logout that comes to its end   *)
(* has reached every service recorded in the ticket granting ticket, for   *)
(* any number of threads, tickets and services.                            *)
(***************************************************************************)
EXTENDS CentralAuthenticationService, TLAPS

\* The tickets, the registry and the calls in progress are well typed.
TypeInv == TicketsTypeOK /\ CallsInv

\* The threads that act are those of the requests and the cleaner's, which is none of them.
LEMMA ActorsAreThreadsOrCleaner ==
    /\ Threads \subseteq Actors
    /\ Cleaner \in Actors
    /\ \A t \in Threads : t # Cleaner
BY CasAssumption DEF Actors

\* What the steps do to a ticket leaves it a ticket.
LEMMA TgtUpdate ==
    ASSUME NEW f \in [TgtIds -> TgtRecord], NEW i \in TgtIds, NEW services \in SUBSET StIds
    PROVE  /\ [f EXCEPT ![i].idle = TRUE] \in [TgtIds -> TgtRecord]
           /\ [f EXCEPT ![i].old = TRUE] \in [TgtIds -> TgtRecord]
           /\ [f EXCEPT ![i].expired = TRUE] \in [TgtIds -> TgtRecord]
           /\ [f EXCEPT ![i].used = TRUE, ![i].idle = FALSE, ![i].services = services]
                 \in [TgtIds -> TgtRecord]
<1>1. [f EXCEPT ![i].idle = TRUE] \in [TgtIds -> TgtRecord]
  BY DEF TgtRecord
<1>2. [f EXCEPT ![i].old = TRUE] \in [TgtIds -> TgtRecord]
  BY DEF TgtRecord
<1>3. [f EXCEPT ![i].expired = TRUE] \in [TgtIds -> TgtRecord]
  BY DEF TgtRecord
<1>4. [f[i] EXCEPT !.used = TRUE, !.idle = FALSE, !.services = services] \in TgtRecord
  BY DEF TgtRecord
<1>5. [f EXCEPT ![i].used = TRUE, ![i].idle = FALSE, ![i].services = services]
         \in [TgtIds -> TgtRecord]
  BY <1>4
<1>6. QED
  BY <1>1, <1>2, <1>3, <1>5

\* The same of a service ticket.
LEMMA StUpdate ==
    ASSUME NEW f \in [StIds -> StRecord], NEW j \in StIds
    PROVE  /\ [f EXCEPT ![j].idle = TRUE] \in [StIds -> StRecord]
           /\ [f EXCEPT ![j].grantedTicketAlready = TRUE] \in [StIds -> StRecord]
           /\ [f EXCEPT ![j].countOfUses = @ + 1, ![j].idle = FALSE] \in [StIds -> StRecord]
<1>1. [f EXCEPT ![j].idle = TRUE] \in [StIds -> StRecord]
  BY DEF StRecord
<1>2. [f EXCEPT ![j].grantedTicketAlready = TRUE] \in [StIds -> StRecord]
  BY DEF StRecord
<1>3. PICK n \in Nat : n = f[j].countOfUses + 1
  BY DEF StRecord
<1>4. [f EXCEPT ![j].countOfUses = @ + 1, ![j].idle = FALSE] \in [StIds -> StRecord]
  <2>1. [f EXCEPT ![j].countOfUses = n] \in [StIds -> StRecord]
    BY DEF StRecord
  <2>2. ASSUME NEW g \in [StIds -> StRecord]
        PROVE  [g EXCEPT ![j].idle = FALSE] \in [StIds -> StRecord]
    <3>1. [g[j] EXCEPT !.idle = FALSE] \in StRecord
      BY DEF StRecord
    <3>2. QED
      BY <3>1
  <2>3. [f EXCEPT ![j].countOfUses = @ + 1] = [f EXCEPT ![j].countOfUses = n]
    BY <1>3
  <2>4. QED
    BY <2>1, <2>2, <2>3
<1>5. QED
  BY <1>1, <1>2, <1>4

\* A use is counted, and nothing happens to the other tickets.
LEMMA StUse ==
    ASSUME NEW f \in [StIds -> StRecord], NEW j \in StIds, NEW g,
           g = [f EXCEPT ![j].countOfUses = @ + 1, ![j].idle = FALSE]
    PROVE  g[j].countOfUses = f[j].countOfUses + 1 /\ \A k \in StIds \ {j} : g[k] = f[k]
<1>1. PICK n : n = f[j].countOfUses + 1
  OBVIOUS
<1>2. g[j] = [f[j] EXCEPT !.countOfUses = n, !.idle = FALSE]
  BY <1>1
<1>3. g[j].countOfUses = n
  <2>1. \A x \in StRecord : [x EXCEPT !.countOfUses = n, !.idle = FALSE].countOfUses = n
    BY DEF StRecord
  <2>2. QED
    BY <1>2, <2>1
<1>4. \A k \in StIds \ {j} : g[k] = f[k]
  OBVIOUS
<1>5. QED
  BY <1>1, <1>3, <1>4

\* What CallsInv says of each call.
GoodCall ==
    {c \in CallRecord :
        /\ c.pc \in {"grant_new", "grant_record", "logout", "delete"} => c.tgt \in TgtIds
        /\ c.pc \in {"grant_record", "grant_store", "validate_lock", "validate_use",
                     "validate_finally", "delegate_check", "delegate_grant"} => c.st \in StIds}

\* The calls are good as long as those that steps put in their places are.
LEMMA CallUpdate ==
    ASSUME call \in [Actors -> CallRecord], CallsInv,
           NEW a \in Actors, NEW c \in GoodCall, call' = [call EXCEPT ![a] = c]
    PROVE  call' \in [Actors -> CallRecord] /\ CallsInv'
BY DEF GoodCall, CallsInv

\* The calls that begin are good.
LEMMA NewCalls ==
    /\ \A i \in TgtIds, service \in Services, facts \in SUBSET Facts :
          [NoCall EXCEPT !.pc = "grant_new", !.tgt = i, !.service = service, !.facts = facts]
             \in GoodCall
    /\ \A j \in StIds, service \in Services, facts \in SUBSET Facts :
          [NoCall EXCEPT !.pc = "validate_lock", !.st = j, !.service = service, !.facts = facts]
             \in GoodCall
BY DEF GoodCall, CallRecord, NoCall

\* Idle calls are good, and a good call stays good on its way.
LEMMA GoodCalls ==
    /\ NoCall \in GoodCall
    /\ [NoCall EXCEPT !.pc = "clean"] \in GoodCall
    /\ \A j \in StIds : Finally(j) \in GoodCall
    /\ \A c \in GoodCall :
          /\ c.pc = "grant_record" => [c EXCEPT !.pc = "grant_store"] \in GoodCall
          /\ c.pc = "logout" => [c EXCEPT !.pc = "delete"] \in GoodCall
          /\ \A k : [c EXCEPT !.todo = @ \ {k}] \in GoodCall
          /\ c.st \in StIds =>
                \A pc \in {"validate_use", "delegate_grant"} :
                   [c EXCEPT !.pc = pc] \in GoodCall
<1> USE DEF GoodCall, CallRecord, NoCall
<1>1. NoCall \in GoodCall /\ [NoCall EXCEPT !.pc = "clean"] \in GoodCall
  OBVIOUS
<1>7. \A j \in StIds : Finally(j) \in GoodCall
  BY DEF Finally
<1>2. ASSUME NEW c \in GoodCall, c.pc = "grant_record"
      PROVE  [c EXCEPT !.pc = "grant_store"] \in GoodCall
  BY <1>2
<1>3. ASSUME NEW c \in GoodCall, c.pc = "logout"
      PROVE  [c EXCEPT !.pc = "delete"] \in GoodCall
  BY <1>3
<1>4. ASSUME NEW c \in GoodCall, NEW k
      PROVE  [c EXCEPT !.todo = @ \ {k}] \in GoodCall
  <2>1. PICK todo \in SUBSET StIds : todo = c.todo \ {k}
    OBVIOUS
  <2>2. [c EXCEPT !.todo = todo] \in GoodCall
    OBVIOUS
  <2>3. QED
    BY <2>1, <2>2
<1>5. ASSUME NEW c \in GoodCall, c.st \in StIds,
             NEW pc \in {"validate_use", "delegate_grant"}
      PROVE  [c EXCEPT !.pc = pc] \in GoodCall
  BY <1>5
<1> HIDE DEF GoodCall, CallRecord, NoCall
<1>6. QED
  BY <1>1, <1>2, <1>3, <1>4, <1>5, <1>7

\* A validation at the lock throws, or goes on with the call it is.
LEMMA AtTheLock ==
    ASSUME call \in [Actors -> CallRecord], NEW t \in Threads, ValidateLocks(t)
    PROVE  \/ /\ StExpired(call[t].st) /\ stLock' = stLock
              /\ call' = [call EXCEPT ![t] = Finally(call[t].st)]
              /\ call'[t].pc = "validate_finally" /\ call'[t].st = call[t].st
           \/ /\ ~StExpired(call[t].st)
              /\ call'[t].pc = "validate_use" /\ call'[t].st = call[t].st
              /\ call'[t].service = call[t].service /\ call'[t].facts = call[t].facts
<1> USE ActorsAreThreadsOrCleaner DEF ValidateLocks
<1>1. t \in DOMAIN call /\ call[t] \in CallRecord
  OBVIOUS
<1>2. CASE call' = [call EXCEPT ![t] = Finally(call[t].st)] /\ StExpired(call[t].st) /\ UNCHANGED stLock
  <2>1. call'[t] = Finally(call[t].st)
    BY <1>1, <1>2
  <2>2. Finally(call[t].st).pc = "validate_finally" /\ Finally(call[t].st).st = call[t].st
    BY DEF Finally, NoCall
  <2>3. QED
    BY <1>2, <2>1, <2>2
<1>3. CASE call' = [call EXCEPT ![t].pc = "validate_use"] /\ ~StExpired(call[t].st)
  BY <1>1, <1>3 DEF CallRecord
<1>4. QED
  BY <1>2, <1>3

\* The tickets and the calls are well typed at first.
LEMMA TypesAtFirst == Init => TypeInv
<1> SUFFICES ASSUME Init
             PROVE  TypeInv
  OBVIOUS
<1> USE CasAssumption, ActorsAreThreadsOrCleaner DEF Init
<1>1. tgt \in [TgtIds -> TgtRecord]
  BY DEF NewTgt, TgtRecord
<1>2. st \in [StIds -> StRecord]
  BY DEF NewSt, StRecord
<1>3. call \in [Actors -> CallRecord]
  BY DEF NoCall, CallRecord
<1>4. tgts \in 0 .. MaxTgts /\ sts \in 0 .. MaxSts /\ timeouts \in 0 .. MaxTimeouts
  BY DEF CasAssumption
<1>5. CallsInv
  BY DEF CallsInv, NoCall
<1>6. QED
  BY <1>1, <1>2, <1>3, <1>4, <1>5 DEF TypeInv, TicketsTypeOK

\* Every reachable state is well typed, and each call in progress knows its tickets.
THEOREM TicketsTyped == Spec => []TypeInv
<1> USE CasAssumption, ActorsAreThreadsOrCleaner
<1>1. Init => TypeInv
  BY TypesAtFirst
<1>2. TypeInv /\ [Next]_vars => TypeInv'
  <2> SUFFICES ASSUME TypeInv, [Next]_vars
               PROVE  TypeInv'
    OBVIOUS
  <2> USE DEF TypeInv, TicketsTypeOK, CallsInv, tickets, registries, others
  <2>1. ASSUME NEW user \in Users, CreateTicketGrantingTicket(user)
        PROVE  TypeInv'
    BY <2>1 DEF CreateTicketGrantingTicket, NewTgt, TgtRecord, TgtIds
  <2>2. ASSUME NEW i \in TgtIds, GrantFindsExpired(i)
        PROVE  TypeInv'
    BY <2>2 DEF GrantFindsExpired
  <2>3. ASSUME NEW t \in Threads, NEW i \in TgtIds, NEW service \in Services, GrantBegins(t, i, service)
        PROVE  TypeInv'
    <3> DEFINE facts == {f \in {"used"} : Granted(i)}
    <3>1. facts \in SUBSET Facts
      BY DEF Facts
    <3>2. call' = [call EXCEPT ![t] = [NoCall EXCEPT !.pc = "grant_new", !.tgt = i,
                                                     !.service = service, !.facts = facts]]
      BY <2>3 DEF GrantBegins
    <3> HIDE DEF facts
    <3>3. call' \in [Actors -> CallRecord] /\ CallsInv'
      <4>1. [NoCall EXCEPT !.pc = "grant_new", !.tgt = i, !.service = service, !.facts = facts]
               \in GoodCall
        BY <3>1, NewCalls
      <4>2. QED
        BY <3>2, <4>1, CallUpdate
    <3>4. QED
      BY <2>3, <3>3 DEF GrantBegins
  <2>4. ASSUME NEW t \in Threads, GrantCreates(t)
        PROVE  TypeInv'
    <3> USE <2>4 DEF GrantCreates
    <3>1. call[t] \in CallRecord /\ call[t].tgt \in TgtIds /\ sts \in StIds
      BY DEF StIds
    <3>2. st' \in [StIds -> StRecord]
      BY <3>1 DEF NewSt, StRecord, CallRecord
    <3>3. call' \in [Actors -> CallRecord] /\ CallsInv'
      BY <3>1 DEF CallRecord
    <3>4. sts' \in 0 .. MaxSts
      OBVIOUS
    <3>5. QED
      BY <3>2, <3>3, <3>4
  <2>5. ASSUME NEW t \in Threads, GrantRecords(t)
        PROVE  TypeInv'
    <3> USE <2>5 DEF GrantRecords
    <3>1. call[t].tgt \in TgtIds /\ call[t].st \in StIds
      OBVIOUS
    <3>2. tgt' \in [TgtIds -> TgtRecord]
      <4>1. PICK services \in ServicesAfterAdd(t) :
               tgt' = [tgt EXCEPT ![call[t].tgt].used = TRUE, ![call[t].tgt].idle = FALSE,
                                  ![call[t].tgt].services = services]
        OBVIOUS
      <4>2. ServicesAfterAdd(t) \subseteq SUBSET StIds
        <5>1. tgt[call[t].tgt].services \in SUBSET StIds
          BY <3>1 DEF TgtRecord
        <5>2. QED
          BY <3>1, <5>1 DEF ServicesAfterAdd
      <4>3. services \in SUBSET StIds
        BY <4>2
      <4>4. QED
        BY <3>1, <4>1, <4>3, TgtUpdate
    <3>3. call' \in [Actors -> CallRecord] /\ CallsInv'
      <4>1. call[t] \in GoodCall /\ call[t].pc = "grant_record"
        BY DEF GoodCall
      <4>2. [call[t] EXCEPT !.pc = "grant_store"] \in GoodCall
        BY <4>1, GoodCalls
      <4>3. PICK c \in GoodCall : call' = [call EXCEPT ![t] = c]
        BY <4>2
      <4>4. QED
        BY <4>3, CallUpdate
    <3>4. QED
      BY <3>2, <3>3
  <2>6. ASSUME NEW t \in Threads, GrantStores(t)
        PROVE  TypeInv'
    BY <2>6 DEF GrantStores, CallRecord, NoCall, Return
  <2>7. ASSUME NEW t \in Threads, NEW j \in StIds, NEW service \in Services, ValidateBegins(t, j, service)
        PROVE  TypeInv'
    <3> DEFINE facts == HistoryOf(st[j].tgt)
    <3>1. facts \in SUBSET Facts
      BY DEF HistoryOf, Facts
    <3>2. call' = [call EXCEPT ![t] = [NoCall EXCEPT !.pc = "validate_lock", !.st = j,
                                                     !.service = service, !.facts = facts]]
      BY <2>7 DEF ValidateBegins
    <3> HIDE DEF facts
    <3>3. call' \in [Actors -> CallRecord] /\ CallsInv'
      <4>1. [NoCall EXCEPT !.pc = "validate_lock", !.st = j, !.service = service, !.facts = facts]
               \in GoodCall
        BY <3>1, NewCalls
      <4>2. QED
        BY <3>2, <4>1, CallUpdate
    <3>4. QED
      BY <2>7, <3>3 DEF ValidateBegins
  <2>8. ASSUME NEW t \in Threads, ValidateLocks(t)
        PROVE  TypeInv'
    <3> USE <2>8 DEF ValidateLocks
    <3>1. call' \in [Actors -> CallRecord] /\ CallsInv'
      <4>1. call[t] \in GoodCall /\ call[t].st \in StIds
        BY DEF GoodCall
      <4>2. /\ Finally(call[t].st) \in GoodCall
            /\ [call[t] EXCEPT !.pc = "validate_use"] \in GoodCall
        BY <4>1, GoodCalls
      <4>3. PICK c \in GoodCall : call' = [call EXCEPT ![t] = c]
        BY <4>2
      <4>4. QED
        BY <4>3, CallUpdate
    <3>2. stLock' \in [StIds -> Threads \cup {None}]
      OBVIOUS
    <3>3. QED
      BY <3>1, <3>2
  <2>9. ASSUME NEW t \in Threads, ValidateUses(t)
        PROVE  TypeInv'
    <3> USE <2>9 DEF ValidateUses
    <3>1. call[t].st \in StIds
      OBVIOUS
    <3>2. st' \in [StIds -> StRecord]
      BY <3>1, StUpdate
    <3>3. call' \in [Actors -> CallRecord] /\ CallsInv'
      <4>1. call[t] \in GoodCall /\ call[t].st \in StIds
        BY DEF GoodCall
      <4>2. Finally(call[t].st) \in GoodCall
        BY <4>1, GoodCalls
      <4>3. PICK c \in GoodCall : call' = [call EXCEPT ![t] = c]
        BY <4>2
      <4>4. QED
        BY <4>3, CallUpdate
    <3>4. stLock' \in [StIds -> Threads \cup {None}]
      OBVIOUS
    <3>5. QED
      BY <3>2, <3>3, <3>4
  <2>10. ASSUME NEW t \in Threads, ValidateReturns(t)
        PROVE  TypeInv'
    BY <2>10 DEF ValidateReturns, CallRecord, NoCall, Return
  <2>11. ASSUME NEW t \in Threads, NEW j \in StIds, DelegateBegins(t, j)
        PROVE  TypeInv'
    BY <2>11 DEF DelegateBegins, CallRecord, NoCall
  <2>12. ASSUME NEW t \in Threads, DelegateChecks(t)
        PROVE  TypeInv'
    <3>1. PICK c \in GoodCall : call' = [call EXCEPT ![t] = c]
      <4>1. call[t] \in GoodCall /\ call[t].st \in StIds
        BY <2>12 DEF GoodCall, DelegateChecks
      <4>2. NoCall \in GoodCall /\ [call[t] EXCEPT !.pc = "delegate_grant"] \in GoodCall
        BY <4>1, GoodCalls
      <4>3. \/ call' = [call EXCEPT ![t] = NoCall]
            \/ call' = [call EXCEPT ![t] = [call[t] EXCEPT !.pc = "delegate_grant"]]
        BY <2>12 DEF DelegateChecks, Return
      <4>4. QED
        BY <4>2, <4>3
    <3>2. call' \in [Actors -> CallRecord] /\ CallsInv'
      BY <3>1, CallUpdate
    <3>3. QED
      BY <2>12, <3>2 DEF DelegateChecks
  <2>13. ASSUME NEW t \in Threads, NEW proxy \in Proxies, DelegateGrants(t, proxy)
        PROVE  TypeInv'
    <3> USE <2>13 DEF DelegateGrants
    <3>1. call[t].st \in StIds /\ tgts \in TgtIds
      BY DEF TgtIds
    <3>2. tgt' \in [TgtIds -> TgtRecord]
      BY <3>1 DEF NewTgt, TgtRecord, StRecord
    <3>3. st' \in [StIds -> StRecord]
      BY <3>1, StUpdate
    <3>4. call' \in [Actors -> CallRecord] /\ CallsInv'
      BY DEF Return, NoCall, CallRecord
    <3>5. tgts' \in 0 .. MaxTgts /\ tgtRegistry' \in SUBSET TgtIds
      BY <3>1
    <3>6. QED
      BY <3>2, <3>3, <3>4, <3>5
  <2>14. ASSUME NEW t \in Threads, NEW i \in TgtIds, DestroyBegins(t, i)
        PROVE  TypeInv'
    <3> USE <2>14 DEF DestroyBegins
    <3>1. tgt' \in [TgtIds -> TgtRecord]
      BY TgtUpdate
    <3>2. tgt[i].services \in SUBSET StIds
      BY DEF TgtRecord
    <3>3. call' \in [Actors -> CallRecord] /\ CallsInv'
      BY <3>2 DEF NoCall, CallRecord
    <3>4. QED
      BY <3>1, <3>3
  <2>15. ASSUME NEW a \in Actors, EnumerationFails(a)
        PROVE  TypeInv'
    BY <2>15 DEF EnumerationFails, CallRecord, NoCall, Return, Throw
  <2>16. ASSUME NEW a \in Actors, NEW k \in StIds, LogOutOfService(a, k)
        PROVE  TypeInv'
    <3> USE <2>16 DEF LogOutOfService
    <3>1. CASE call' = [call EXCEPT ![a].todo = @ \ {k}] /\ UNCHANGED ticketsToRemove
      <4>1. call[a] \in GoodCall
        BY DEF GoodCall
      <4>2. [call[a] EXCEPT !.todo = @ \ {k}] \in GoodCall
        BY <4>1, GoodCalls
      <4>3. call' = [call EXCEPT ![a] = [call[a] EXCEPT !.todo = @ \ {k}]]
        BY <3>1
      <4>4. call' \in [Actors -> CallRecord] /\ CallsInv'
        BY <4>2, <4>3, CallUpdate
      <4>5. QED
        BY <3>1, <4>4
    <3>2. CASE Throw(a)
      <4>1. call' \in [Actors -> CallRecord] /\ CallsInv'
        BY <3>2 DEF Throw, Return, NoCall, CallRecord
      <4>2. ticketsToRemove' \subseteq {"TGT", "ST"} \X (TgtIds \cup StIds)
        BY <3>2 DEF Throw
      <4>3. QED
        BY <4>1, <4>2
    <3>3. QED
      BY <3>1, <3>2
  <2>17. ASSUME NEW a \in Actors, LogOutEnds(a)
        PROVE  TypeInv'
    <3>1. call[a] \in GoodCall /\ call[a].pc = "logout"
      BY <2>17 DEF LogOutEnds, GoodCall
    <3>2. PICK c \in GoodCall : call' = [call EXCEPT ![a] = c]
      BY <2>17, <3>1, GoodCalls DEF LogOutEnds
    <3>3. call' \in [Actors -> CallRecord] /\ CallsInv'
      BY <3>2, CallUpdate
    <3>4. QED
      BY <2>17, <3>3 DEF LogOutEnds
  <2>18. ASSUME NEW a \in Actors, DeletesTgt(a)
        PROVE  TypeInv'
    <3>1. PICK c \in GoodCall : call' = [call EXCEPT ![a] = c]
      BY <2>18, GoodCalls DEF DeletesTgt, Return
    <3>2. call' \in [Actors -> CallRecord] /\ CallsInv'
      BY <3>1, CallUpdate
    <3>3. ticketsToRemove' \subseteq ticketsToRemove /\ tgtRegistry' \subseteq tgtRegistry
      BY <2>18 DEF DeletesTgt
    <3>4. UNCHANGED <<tickets, stRegistry, stLock, loggedOutAlready, timeouts, assertions>>
      BY <2>18 DEF DeletesTgt
    <3>5. QED
      BY <3>2, <3>3, <3>4
  <2>19. ASSUME CleanScans
        PROVE  TypeInv'
    BY <2>19 DEF CleanScans, CallRecord
  <2>20. ASSUME NEW i \in TgtIds, CleanExpiresTgt(i)
        PROVE  TypeInv'
    <3> USE <2>20 DEF CleanExpiresTgt
    <3>1. tgt' \in [TgtIds -> TgtRecord]
      BY TgtUpdate
    <3>2. tgt[i].services \in SUBSET StIds
      BY DEF TgtRecord
    <3>3. call' \in [Actors -> CallRecord] /\ CallsInv'
      BY <3>2 DEF NoCall, CallRecord
    <3>4. QED
      BY <3>1, <3>3
  <2>21. ASSUME NEW j \in StIds, CleanDeletesSt(j)
        PROVE  TypeInv'
    BY <2>21 DEF CleanDeletesSt
  <2>22. ASSUME CleanEnds
        PROVE  TypeInv'
    BY <2>22 DEF CleanEnds, CallRecord, NoCall, Return
  <2>23. ASSUME NEW i \in TgtIds, TgtTimesOut(i)
        PROVE  TypeInv'
    <3> USE <2>23 DEF TgtTimesOut
    <3>1. tgt' \in [TgtIds -> TgtRecord]
      <4>1. CASE tgt' = [tgt EXCEPT ![i].idle = TRUE]
        BY <4>1, TgtUpdate
      <4>2. CASE tgt' = [tgt EXCEPT ![i].old = TRUE]
        BY <4>2, TgtUpdate
      <4>3. QED
        BY <4>1, <4>2
    <3>2. timeouts' \in 0 .. MaxTimeouts
      BY DEF CasAssumption
    <3>3. QED
      BY <3>1, <3>2
  <2>24. ASSUME NEW j \in StIds, StTimesOut(j)
        PROVE  TypeInv'
    <3> USE <2>24 DEF StTimesOut
    <3>1. st' \in [StIds -> StRecord]
      BY StUpdate
    <3>2. timeouts' \in 0 .. MaxTimeouts
      BY DEF CasAssumption
    <3>3. QED
      BY <3>1, <3>2
  <2>25. CASE UNCHANGED vars
    BY <2>25 DEF vars
  <2>26. QED
    BY <2>1, <2>2, <2>3, <2>4, <2>5, <2>6, <2>7, <2>8, <2>9, <2>10, <2>11, <2>12, <2>13, <2>14, <2>15, <2>16, <2>17, <2>18, <2>19, <2>20, <2>21, <2>22, <2>23, <2>24, <2>25
    DEF Next, Grant, Validate, Delegate, LogOut, Clean
<1>3. QED
  BY <1>1, <1>2, PTL DEF Spec
-----------------------------------------------------------------------------
\* The invariant behind UsesBounded: between its check and its use of a service ticket a
\* thread has the lock to itself, so the use that was left is still left.
LEMMA LockInvariant == Spec => []LockInv
<1> USE CasAssumption, ActorsAreThreadsOrCleaner
<1>1. Init => LockInv
  BY DEF Init, LockInv, NewSt, NoCall
<1>2. TypeInv /\ TypeInv' /\ LockInv /\ [Next]_vars => LockInv'
  <2> SUFFICES ASSUME TypeInv, TypeInv', LockInv, [Next]_vars
               PROVE  LockInv'
    OBVIOUS
  <2> USE DEF TypeInv, TicketsTypeOK, CallsInv, LockInv, tickets, registries, others
  <2>1. ASSUME NEW user \in Users, CreateTicketGrantingTicket(user)
        PROVE  LockInv'
    BY <2>1 DEF CreateTicketGrantingTicket
  <2>2. ASSUME NEW i \in TgtIds, GrantFindsExpired(i)
        PROVE  LockInv'
    BY <2>2 DEF GrantFindsExpired
  <2>3. ASSUME NEW t \in Threads, NEW i \in TgtIds, NEW service \in Services, GrantBegins(t, i, service)
        PROVE  LockInv'
    BY <2>3 DEF GrantBegins, NoCall
  <2>4. ASSUME NEW t \in Threads, GrantCreates(t)
        PROVE  LockInv'
    BY <2>4 DEF GrantCreates, NewSt
  <2>5. ASSUME NEW t \in Threads, GrantRecords(t)
        PROVE  LockInv'
    BY <2>5 DEF GrantRecords
  <2>6. ASSUME NEW t \in Threads, GrantStores(t)
        PROVE  LockInv'
    BY <2>6 DEF GrantStores, Return, NoCall
  <2>7. ASSUME NEW t \in Threads, NEW j \in StIds, NEW service \in Services, ValidateBegins(t, j, service)
        PROVE  LockInv'
    BY <2>7 DEF ValidateBegins, NoCall
  <2>8. ASSUME NEW t \in Threads, ValidateLocks(t)
        PROVE  LockInv'
    <3> USE <2>8 DEF ValidateLocks
    <3>1. CASE StExpired(call[t].st)
      <4>1. /\ call' = [call EXCEPT ![t] = Finally(call[t].st)] /\ stLock' = stLock
            /\ call'[t].pc = "validate_finally"
        BY <3>1, AtTheLock
      <4>2. \A u \in Threads \ {t} : call'[u] = call[u]
        BY <4>1
      <4>3. QED
        BY <4>1, <4>2
    <3>2. CASE ~StExpired(call[t].st)
      <4>1. st[call[t].st].countOfUses < NumberOfUses
        BY <3>2 DEF StExpired, StRecord
      <4>2. call' = [call EXCEPT ![t].pc = "validate_use"]
            /\ stLock' = [stLock EXCEPT ![call[t].st] = t]
        BY <3>2
      <4>3. ASSUME NEW u \in Threads, call'[u].pc = "validate_use"
            PROVE  /\ stLock'[call'[u].st] = u
                   /\ st[call'[u].st].countOfUses < NumberOfUses
        <5>1. CASE u = t
          BY <4>1, <4>2, <5>1 DEF CallRecord
        <5>2. CASE u # t
          <6>1. call'[u] = call[u] /\ stLock[call[u].st] = u
            BY <4>2, <4>3, <5>2
          <6>2. call[u].st # call[t].st
            BY <6>1
          <6>3. QED
            BY <4>2, <4>3, <6>1, <6>2
        <5>3. QED
          BY <5>1, <5>2
      <4>4. QED
        BY <4>3
    <3>3. QED
      BY <3>1, <3>2
  <2>9. ASSUME NEW t \in Threads, ValidateUses(t)
        PROVE  LockInv'
    <3> USE <2>9 DEF ValidateUses
    <3>1. st[call[t].st].countOfUses \in Nat /\ st[call[t].st].countOfUses < NumberOfUses
      BY DEF StRecord
    <3>2. /\ st'[call[t].st].countOfUses = st[call[t].st].countOfUses + 1
          /\ \A j \in StIds \ {call[t].st} : st'[j] = st[j]
      BY StUse
    <3>3. \A j \in StIds : st'[j].countOfUses <= NumberOfUses
      <4>1. st'[call[t].st].countOfUses <= NumberOfUses
        <5>1. PICK n \in Nat : n = st[call[t].st].countOfUses
          BY <3>1
        <5>2. PICK m : m = st'[call[t].st].countOfUses
          OBVIOUS
        <5>3. m = n + 1 /\ n < NumberOfUses
          BY <3>1, <3>2, <5>1, <5>2
        <5>4. m <= NumberOfUses
          BY <5>3, CasAssumption
        <5>5. QED
          BY <5>2, <5>4
      <4>2. \A j \in StIds : st[j].countOfUses <= NumberOfUses
        OBVIOUS
      <4>3. QED
        BY <3>2, <4>1, <4>2
    <3>4. ASSUME NEW u \in Threads, call'[u].pc = "validate_use"
          PROVE  /\ stLock'[call'[u].st] = u
                 /\ st'[call'[u].st].countOfUses < NumberOfUses
      <4>1. u # t /\ call'[u] = call[u]
        BY <3>4 DEF CallRecord, Finally, NoCall
      <4>2. call[u].st \in StIds /\ call[u].st # call[t].st
        BY <3>4, <4>1
      <4>3. QED
        BY <3>2, <3>4, <4>1, <4>2
    <3>5. QED
      BY <3>3, <3>4
  <2>10. ASSUME NEW t \in Threads, ValidateReturns(t)
        PROVE  LockInv'
    BY <2>10 DEF ValidateReturns, Return, NoCall
  <2>11. ASSUME NEW t \in Threads, NEW j \in StIds, DelegateBegins(t, j)
        PROVE  LockInv'
    BY <2>11 DEF DelegateBegins, NoCall
  <2>12. ASSUME NEW t \in Threads, DelegateChecks(t)
        PROVE  LockInv'
    <3> USE <2>12 DEF DelegateChecks
    <3>1. CASE Return(t)
      BY <3>1 DEF Return, NoCall
    <3>2. CASE call' = [call EXCEPT ![t].pc = "delegate_grant"]
      BY <3>2 DEF CallRecord
    <3>3. QED
      BY <3>1, <3>2
  <2>13. ASSUME NEW t \in Threads, NEW proxy \in Proxies, DelegateGrants(t, proxy)
        PROVE  LockInv'
    BY <2>13 DEF DelegateGrants, Return, NoCall
  <2>14. ASSUME NEW t \in Threads, NEW i \in TgtIds, DestroyBegins(t, i)
        PROVE  LockInv'
    BY <2>14 DEF DestroyBegins, NoCall
  <2>15. ASSUME NEW a \in Actors, EnumerationFails(a)
        PROVE  LockInv'
    BY <2>15 DEF EnumerationFails, Throw, Return, NoCall
  <2>16. ASSUME NEW a \in Actors, NEW k \in StIds, LogOutOfService(a, k)
        PROVE  LockInv'
    <3> USE <2>16 DEF LogOutOfService
    <3>1. CASE call' = [call EXCEPT ![a].todo = @ \ {k}]
      BY <3>1 DEF CallRecord
    <3>2. CASE Throw(a)
      BY <3>2 DEF Throw, Return, NoCall
    <3>3. QED
      BY <3>1, <3>2
  <2>17. ASSUME NEW a \in Actors, LogOutEnds(a)
        PROVE  LockInv'
    BY <2>17 DEF LogOutEnds, CallRecord
  <2>18. ASSUME NEW a \in Actors, DeletesTgt(a)
        PROVE  LockInv'
    BY <2>18 DEF DeletesTgt, Return, NoCall
  <2>19. ASSUME CleanScans
        PROVE  LockInv'
    BY <2>19 DEF CleanScans
  <2>20. ASSUME NEW i \in TgtIds, CleanExpiresTgt(i)
        PROVE  LockInv'
    BY <2>20 DEF CleanExpiresTgt, NoCall
  <2>21. ASSUME NEW j \in StIds, CleanDeletesSt(j)
        PROVE  LockInv'
    BY <2>21 DEF CleanDeletesSt
  <2>22. ASSUME CleanEnds
        PROVE  LockInv'
    BY <2>22 DEF CleanEnds, Return, NoCall
  <2>23. ASSUME NEW i \in TgtIds, TgtTimesOut(i)
        PROVE  LockInv'
    BY <2>23 DEF TgtTimesOut
  <2>24. ASSUME NEW j \in StIds, StTimesOut(j)
        PROVE  LockInv'
    BY <2>24 DEF StTimesOut
  <2>25. CASE UNCHANGED vars
    BY <2>25 DEF vars
  <2>26. QED
    BY <2>1, <2>2, <2>3, <2>4, <2>5, <2>6, <2>7, <2>8, <2>9, <2>10, <2>11, <2>12,
       <2>13, <2>14, <2>15, <2>16, <2>17, <2>18, <2>19, <2>20, <2>21, <2>22, <2>23, <2>24, <2>25
    DEF Next, Grant, Validate, Delegate, LogOut, Clean
<1>3. QED
  BY <1>1, <1>2, TicketsTyped, PTL DEF Spec

\* However many requests present a service ticket at once, it is used no more often than its
\* expiration policy allows: validateServiceTicket checks and counts under one lock.
THEOREM UsesAreBounded == Spec => []UsesBounded
<1>1. LockInv => UsesBounded
  BY DEF LockInv, UsesBounded
<1>2. QED
  BY <1>1, LockInvariant, PTL

-----------------------------------------------------------------------------
\* The invariant behind SingleLogoutIsComplete: what a logout has enumerated is logged out.
LEMMA LogOutInvariant == Spec => []LogOutInv
<1> USE CasAssumption, ActorsAreThreadsOrCleaner
<1>1. Init => LogOutInv
  BY DEF Init, LogOutInv, NoCall
<1>2. TypeInv /\ TypeInv' /\ LogOutInv /\ [Next]_vars => LogOutInv'
  <2> SUFFICES ASSUME TypeInv, TypeInv', LogOutInv, [Next]_vars
               PROVE  LogOutInv'
    OBVIOUS
  <2> USE DEF TypeInv, TicketsTypeOK, CallsInv, LogOutInv, tickets, registries, others
  <2>1. ASSUME NEW user \in Users, CreateTicketGrantingTicket(user)
        PROVE  LogOutInv'
    BY <2>1 DEF CreateTicketGrantingTicket
  <2>2. ASSUME NEW i \in TgtIds, GrantFindsExpired(i)
        PROVE  LogOutInv'
    BY <2>2 DEF GrantFindsExpired
  <2>3. ASSUME NEW t \in Threads, NEW i \in TgtIds, NEW service \in Services, GrantBegins(t, i, service)
        PROVE  LogOutInv'
    BY <2>3 DEF GrantBegins, NoCall
  <2>4. ASSUME NEW t \in Threads, GrantCreates(t)
        PROVE  LogOutInv'
    BY <2>4 DEF GrantCreates
  <2>5. ASSUME NEW t \in Threads, GrantRecords(t)
        PROVE  LogOutInv'
    BY <2>5 DEF GrantRecords
  <2>6. ASSUME NEW t \in Threads, GrantStores(t)
        PROVE  LogOutInv'
    BY <2>6 DEF GrantStores, Return, NoCall
  <2>7. ASSUME NEW t \in Threads, NEW j \in StIds, NEW service \in Services, ValidateBegins(t, j, service)
        PROVE  LogOutInv'
    BY <2>7 DEF ValidateBegins, NoCall
  <2>8. ASSUME NEW t \in Threads, ValidateLocks(t)
        PROVE  LogOutInv'
    <3>1. CASE call' = [call EXCEPT ![t] = Finally(call[t].st)]
      BY <2>8, <3>1 DEF ValidateLocks, Finally, NoCall
    <3>2. CASE call' = [call EXCEPT ![t].pc = "validate_use"]
      BY <2>8, <3>2 DEF ValidateLocks
    <3>3. QED
      BY <2>8, <3>1, <3>2 DEF ValidateLocks
  <2>9. ASSUME NEW t \in Threads, ValidateUses(t)
        PROVE  LogOutInv'
    BY <2>9 DEF ValidateUses, Finally, NoCall
  <2>10. ASSUME NEW t \in Threads, ValidateReturns(t)
        PROVE  LogOutInv'
    BY <2>10 DEF ValidateReturns, Return, NoCall
  <2>11. ASSUME NEW t \in Threads, NEW j \in StIds, DelegateBegins(t, j)
        PROVE  LogOutInv'
    BY <2>11 DEF DelegateBegins, NoCall
  <2>12. ASSUME NEW t \in Threads, DelegateChecks(t)
        PROVE  LogOutInv'
    <3> USE <2>12 DEF DelegateChecks
    <3>1. CASE Return(t)
      BY <3>1 DEF Return, NoCall
    <3>2. CASE call' = [call EXCEPT ![t].pc = "delegate_grant"]
      BY <3>2 DEF CallRecord
    <3>3. QED
      BY <3>1, <3>2
  <2>13. ASSUME NEW t \in Threads, NEW proxy \in Proxies, DelegateGrants(t, proxy)
        PROVE  LogOutInv'
    BY <2>13 DEF DelegateGrants, Return, NoCall
  <2>14. ASSUME NEW t \in Threads, NEW i \in TgtIds, DestroyBegins(t, i)
        PROVE  LogOutInv'
    BY <2>14 DEF DestroyBegins, NoCall
  <2>15. ASSUME NEW a \in Actors, EnumerationFails(a)
        PROVE  LogOutInv'
    BY <2>15 DEF EnumerationFails, Throw, Return, NoCall
  <2>16. ASSUME NEW a \in Actors, NEW k \in StIds, LogOutOfService(a, k)
        PROVE  LogOutInv'
    <3> USE <2>16 DEF LogOutOfService
    <3>1. CASE call' = [call EXCEPT ![a].todo = @ \ {k}]
      BY <3>1 DEF CallRecord
    <3>2. CASE Throw(a)
      BY <3>2 DEF Throw, Return, NoCall
    <3>3. QED
      BY <3>1, <3>2
  <2>17. ASSUME NEW a \in Actors, LogOutEnds(a)
        PROVE  LogOutInv'
    BY <2>17 DEF LogOutEnds, CallRecord
  <2>18. ASSUME NEW a \in Actors, DeletesTgt(a)
        PROVE  LogOutInv'
    BY <2>18 DEF DeletesTgt, Return, NoCall
  <2>19. ASSUME CleanScans
        PROVE  LogOutInv'
    BY <2>19 DEF CleanScans
  <2>20. ASSUME NEW i \in TgtIds, CleanExpiresTgt(i)
        PROVE  LogOutInv'
    BY <2>20 DEF CleanExpiresTgt, NoCall
  <2>21. ASSUME NEW j \in StIds, CleanDeletesSt(j)
        PROVE  LogOutInv'
    BY <2>21 DEF CleanDeletesSt
  <2>22. ASSUME CleanEnds
        PROVE  LogOutInv'
    BY <2>22 DEF CleanEnds, Return, NoCall
  <2>23. ASSUME NEW i \in TgtIds, TgtTimesOut(i)
        PROVE  LogOutInv'
    BY <2>23 DEF TgtTimesOut
  <2>24. ASSUME NEW j \in StIds, StTimesOut(j)
        PROVE  LogOutInv'
    BY <2>24 DEF StTimesOut
  <2>25. CASE UNCHANGED vars
    BY <2>25 DEF vars
  <2>26. QED
    BY <2>1, <2>2, <2>3, <2>4, <2>5, <2>6, <2>7, <2>8, <2>9, <2>10, <2>11, <2>12,
       <2>13, <2>14, <2>15, <2>16, <2>17, <2>18, <2>19, <2>20, <2>21, <2>22, <2>23, <2>24, <2>25
    DEF Next, Grant, Validate, Delegate, LogOut, Clean
<1>3. QED
  BY <1>1, <1>2, TicketsTyped, PTL DEF Spec

\* Only the end of the enumeration makes expire() return.
LEMMA ExpireReturnsAtTheEnd ==
    ASSUME TypeInv, Next, NEW a \in Actors, ExpireReturns(a)
    PROVE  LogOutEnds(a)
<1> USE CasAssumption, ActorsAreThreadsOrCleaner DEF TypeInv, TicketsTypeOK, others, ExpireReturns
<1>c. call[a] \in CallRecord /\ call'[a].pc # call[a].pc /\ call'[a].pc = "delete"
  OBVIOUS
<1>1. ASSUME NEW b \in Actors, NEW d, call' = [call EXCEPT ![b] = d], d.pc # "delete"
      PROVE  FALSE
  BY <1>1, <1>c
<1>2. ASSUME NEW t \in Threads, NEW c \in CallRecord, NEW pc, c = call[t],
             call' = [call EXCEPT ![t] = [c EXCEPT !.pc = pc]], pc # "delete"
      PROVE  FALSE
  <2>1. [c EXCEPT !.pc = pc].pc = pc
    BY DEF CallRecord
  <2>2. QED
    BY <1>1, <1>2, <2>1
<1>3. ASSUME NEW t \in Threads
      PROVE  ~Grant(t) /\ ~Validate(t) /\ ~Delegate(t) /\ ~\E i \in TgtIds : DestroyBegins(t, i)
  <2>1. NoCall.pc # "delete" /\ ~Return(t)
    BY <1>1 DEF NoCall, Return
  <2>2. PICK c \in CallRecord : c = call[t]
    OBVIOUS
  <2>3. \A i \in TgtIds, service \in Services : ~GrantBegins(t, i, service)
    BY <1>1 DEF GrantBegins, NoCall
  <2>4. ~GrantCreates(t)
    <3>1. [c EXCEPT !.pc = "grant_record", !.st = sts].pc = "grant_record"
      BY DEF CallRecord
    <3>2. QED
      BY <1>1, <2>2, <3>1 DEF GrantCreates
  <2>5. ~GrantRecords(t) /\ ~GrantStores(t)
    BY <1>2, <2>1, <2>2 DEF GrantRecords, GrantStores
  <2>6. \A j \in StIds, service \in Services : ~ValidateBegins(t, j, service)
    BY <1>1 DEF ValidateBegins, NoCall
  <2>7. ~ValidateLocks(t)
    BY <1>2, <2>2 DEF ValidateLocks
  <2>8. ~ValidateUses(t) /\ ~ValidateReturns(t)
    BY <1>2, <2>1, <2>2 DEF ValidateUses, ValidateReturns
  <2>9. \A j \in StIds : ~DelegateBegins(t, j)
    BY <1>1 DEF DelegateBegins, NoCall
  <2>10. ~DelegateChecks(t) /\ \A proxy \in Proxies : ~DelegateGrants(t, proxy)
    BY <1>2, <2>1, <2>2 DEF DelegateChecks, DelegateGrants
  <2>11. \A i \in TgtIds : ~DestroyBegins(t, i)
    BY <1>1 DEF DestroyBegins, NoCall
  <2>12. QED
    BY <2>3, <2>4, <2>5, <2>6, <2>7, <2>8, <2>9, <2>10, <2>11 DEF Grant, Validate, Delegate
<1>4. ASSUME NEW b \in Actors, EnumerationFails(b) \/ DeletesTgt(b)
      PROVE  FALSE
  BY <1>4, <1>c DEF EnumerationFails, DeletesTgt, Throw, NoCall, Return
<1>5. ASSUME NEW b \in Actors, NEW k \in StIds, LogOutOfService(b, k)
      PROVE  FALSE
  <2>1. CASE call' = [call EXCEPT ![b].todo = @ \ {k}]
    BY <2>1, <1>c DEF CallRecord
  <2>2. CASE Throw(b)
    BY <2>2, <1>c DEF Throw, NoCall, Return
  <2>3. QED
    BY <1>5, <2>1, <2>2 DEF LogOutOfService
<1>6. ASSUME NEW b \in Actors, LogOutEnds(b)
      PROVE  LogOutEnds(a)
  <2>1. a = b
    BY <1>6, <1>c DEF LogOutEnds
  <2>2. QED
    BY <1>6, <2>1
<1>7. ASSUME \/ \E user \in Users : CreateTicketGrantingTicket(user)
             \/ \E i \in TgtIds : GrantFindsExpired(i)
             \/ CleanScans
             \/ CleanEnds
             \/ \E i \in TgtIds : CleanExpiresTgt(i) \/ TgtTimesOut(i)
             \/ \E j \in StIds : CleanDeletesSt(j) \/ StTimesOut(j)
      PROVE  FALSE
  BY <1>7, <1>c DEF CreateTicketGrantingTicket, GrantFindsExpired, CleanScans, CleanEnds, CleanExpiresTgt,
                    TgtTimesOut, CleanDeletesSt, StTimesOut, NoCall, Return, CallRecord
<1>8. QED
  BY <1>3, <1>4, <1>5, <1>6, <1>7 DEF Next, LogOut, Clean

\* When expire() returns every service recorded in the TGT is logged out, whatever is granted,
\* destroyed or cleaned at the same time: an entry added behind the enumeration aborts it.  The
\* ticket then leaves the registry with no service missed but those recorded after that.
THEOREM LogoutIsComplete == Spec => SingleLogoutIsComplete
<1>1. TypeInv /\ LogOutInv /\ [Next]_vars => [LogsOutCompletely]_vars
  <2> SUFFICES ASSUME TypeInv, LogOutInv, Next, NEW a \in Actors
               PROVE  /\ ExpireReturns(a) => tgt[call[a].tgt].services \subseteq loggedOutAlready
                      /\ call[a].pc = "delete" =>
                            tgt[call[a].tgt].services \cap call[a].seen \subseteq loggedOutAlready
    BY DEF LogsOutCompletely, vars
  <2>1. ASSUME ExpireReturns(a)
        PROVE  tgt[call[a].tgt].services \subseteq loggedOutAlready
    <3>1. LogOutEnds(a)
      BY <2>1, ExpireReturnsAtTheEnd
    <3>2. QED
      BY <3>1 DEF LogOutEnds, LogOutInv
  <2>2. call[a].pc = "delete" => call[a].seen \subseteq loggedOutAlready
    BY DEF LogOutInv
  <2>3. QED
    BY <2>1, <2>2
<1>2. QED
  BY <1>1, TicketsTyped, LogOutInvariant, PTL DEF Spec, SingleLogoutIsComplete
=============================================================================
