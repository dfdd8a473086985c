-------------------- MODULE CentralAuthenticationService --------------------
(***************************************************************************)
(* NCAS: CentralAuthenticationServiceImpl.cs with the tickets it hands out *)
(* (ticket/*.cs), the registry that holds them (DefaultTicketRegistry) and *)
(* its cleaner (DefaultTicketRegistryCleaner), at the grain at which       *)
(* request threads and the cleaner interleave.                             *)
(*                                                                         *)
(* Ticket ids are allotted in order and never reused.  Time is abstracted  *)
(* to what the expiration policies make of it: a ticket is "idle" when its *)
(* sliding window has passed since it was last used, and a TGT is "old"    *)
(* when its hard window has passed since it was created.  A call that      *)
(* throws before it changed anything is not an action.  A grant that comes *)
(* with credentials is such a call: the attributes of two authentications  *)
(* are dictionaries compared by reference, so TicketCreationException is   *)
(* always thrown.                                                          *)
(***************************************************************************)
EXTENDS Naturals, Sequences, FiniteSets

CONSTANTS
    Threads,         \* request threads
    Cleaner,         \* the thread that runs the registry cleaner
    Users,           \* principals that log in
    Proxies,         \* principals of the services that PGTs are delegated to
    Services,
    Enabled,         \* the registered services with each flag
    SsoEnabled,
    AllowedToProxy,
    NumberOfUses,    \* of a service ticket, in its expiration policy
    MaxTgts,         \* bound: ticket granting tickets in a behaviour
    MaxSts,          \* bound: service tickets in a behaviour
    MaxTimeouts,     \* bound: windows of tickets that pass in a behaviour
    None

TgtIds == 0 .. MaxTgts - 1
StIds == 0 .. MaxSts - 1

ASSUME CasAssumption ==
    /\ Cleaner \notin Threads /\ None \notin Threads
    /\ Users \cap Proxies = {}
    /\ Enabled \subseteq Services /\ SsoEnabled \subseteq Services /\ AllowedToProxy \subseteq Services
    /\ NumberOfUses \in Nat \ {0}
    /\ MaxTgts \in Nat /\ MaxSts \in Nat /\ MaxTimeouts \in Nat
    /\ None \notin TgtIds /\ None \notin StIds /\ None \notin Services
    /\ None \notin Users \cup Proxies

VARIABLES
    tgt,              \* the TicketGrantingTicketImpl objects
    st,               \* the ServiceTicketImpl objects
    tgts, sts,        \* how many of each were created
    tgtRegistry,      \* the ids under which ticketRegistry has a ticket
    stRegistry,       \* the same for serviceTicketRegistry
    stLock,           \* the thread inside lock (serviceTicket), or None
    loggedOutAlready, \* the STs whose Service object has the flag loggedOutAlready
    call,             \* the call each thread is in, with its locals
    ticketsToRemove,  \* local of clean: pairs of a kind and an id
    timeouts,         \* how many windows have passed
    assertions        \* history: the assertions validateServiceTicket returned

vars == <<tgt, st, tgts, sts, tgtRegistry, stRegistry, stLock, loggedOutAlready, call,
          ticketsToRemove, timeouts, assertions>>

tickets == <<tgt, st, tgts, sts>>
registries == <<tgtRegistry, stRegistry>>
others == <<stLock, loggedOutAlready, ticketsToRemove, timeouts, assertions>>

Actors == Threads \cup {Cleaner}

\* parent: the granting ticket; via (history): the ST it was delegated from; user: the principal of its authentication;
\* used: countOfUses > 0; services: the ST ids that are keys of services.
TgtRecord ==
    [parent : TgtIds \cup {None}, via : StIds \cup {None}, user : Users \cup Proxies \cup {None}, used : BOOLEAN,
     idle : BOOLEAN, old : BOOLEAN, expired : BOOLEAN, services : SUBSET StIds]

\* What was true of the TGT when a call that uses it began (history): a service ticket it
\* granted had been returned, it had been destroyed, its hard window or its parent's passed.
Facts == {"used", "destroyed", "old"}

StRecord ==
    [tgt : TgtIds \cup {None}, service : Services \cup {None}, fromNewLogin : BOOLEAN,
     countOfUses : Nat, idle : BOOLEAN, grantedTicketAlready : BOOLEAN, facts : SUBSET Facts]

CallRecord ==
    [pc : {"idle", "grant_new", "grant_record", "grant_store", "validate_lock", "validate_use",
           "validate_finally", "delegate_check", "delegate_grant", "logout", "delete", "clean"},
     tgt : TgtIds \cup {None}, st : StIds \cup {None}, service : Services \cup {None},
     seen : SUBSET StIds, todo : SUBSET StIds, facts : SUBSET Facts]

AssertionRecord ==
    [st : StIds, service : Services, user : Users \cup Proxies, facts : SUBSET Facts]

NewTgt(parent, via, user) ==
    [parent |-> parent, via |-> via, user |-> user, used |-> FALSE, idle |-> FALSE, old |-> FALSE,
     expired |-> FALSE, services |-> {}]

NewSt(i, service, fromNewLogin, facts) ==
    [tgt |-> i, service |-> service, fromNewLogin |-> fromNewLogin, countOfUses |-> 0,
     idle |-> FALSE, grantedTicketAlready |-> FALSE, facts |-> facts]

NoCall == [pc |-> "idle", tgt |-> None, st |-> None, service |-> None,
           seen |-> {}, todo |-> {}, facts |-> {}]

Init ==
    /\ tgt = [i \in TgtIds |-> NewTgt(None, None, None)]
    /\ st = [j \in StIds |-> NewSt(None, None, FALSE, {})]
    /\ tgts = 0
    /\ sts = 0
    /\ tgtRegistry = {}
    /\ stRegistry = {}
    /\ stLock = [j \in StIds |-> None]
    /\ loggedOutAlready = {}
    /\ call = [a \in Actors |-> NoCall]
    /\ ticketsToRemove = {}
    /\ timeouts = 0
    /\ assertions = {}

Return(a) == call' = [call EXCEPT ![a] = NoCall]

-----------------------------------------------------------------------------
(* Tickets                                                                 *)

\* AbstractTicket.isExpired of a TGT under TicketGrantingTicketExpirationPolicy.  The flag
\* "expired" has no part in it: TicketGrantingTicketImpl.isExpiredInternal hides the
\* method of the base class, which is not virtual, and isExpired calls the latter.
TgtExpired[i \in TgtIds] ==
    \/ tgt[i].old
    \/ tgt[i].idle
    \/ tgt[i].parent # None /\ TgtExpired[tgt[i].parent]

\* Mutant: only the ticket's own policy is asked.
StExpired_OwnPolicy(j) == st[j].countOfUses >= NumberOfUses \/ st[j].idle

\* isExpired of an ST under MultiTimeUseOrTimeoutExpirationPolicy.
StExpired(j) ==
    \/ st[j].countOfUses >= NumberOfUses
    \/ st[j].idle
    \/ TgtExpired[st[j].tgt]

\* The principals of getChainedAuthentications, the ticket's own first.
Chained[i \in TgtIds] ==
    IF tgt[i].parent = None THEN <<tgt[i].user>> ELSE <<tgt[i].user>> \o Chained[tgt[i].parent]

\* Mutant: the list of authentications is taken to begin with the login.
Principal_First(i) == Chained[i][1]

\* The principal of the assertion: that of the last authentication.
Principal(i) == Chained[i][Len(Chained[i])]

Ancestors[i \in TgtIds] ==
    IF tgt[i].parent = None THEN {i} ELSE {i} \cup Ancestors[tgt[i].parent]

\* An ST of i was returned to its caller.
Granted(i) ==
    \E j \in StIds : /\ st[j].tgt = i
                     /\ \A t \in Threads : call[t].pc \in {"grant_record", "grant_store"} => call[t].st # j

Destroyed(i) == tgt[i].expired /\ i \notin tgtRegistry

HistoryOf(i) ==
    {f \in {"destroyed", "old"} :
        \E k \in Ancestors[i] : (f = "destroyed" /\ Destroyed(k)) \/ (f = "old" /\ tgt[k].old)}

-----------------------------------------------------------------------------
(* createTicketGrantingTicket                                              *)

\* The bound MaxTgts leaves room for the delegations in progress.
Delegating == {t \in Threads : call[t].pc \in {"delegate_check", "delegate_grant"}}

RoomForTgt == tgts + Cardinality(Delegating) < MaxTgts

\* Mutant: the authentication comes without its principal.
CreateTicketGrantingTicket_NoPrincipal(user) ==
    /\ RoomForTgt
    /\ tgts < MaxTgts
    /\ tgt' = [tgt EXCEPT ![tgts] = NewTgt(None, None, None)]
    /\ tgts' = tgts + 1
    /\ tgtRegistry' = tgtRegistry \cup {tgts}
    /\ UNCHANGED <<st, sts, stRegistry, others, call>>

CreateTicketGrantingTicket(user) ==
    /\ RoomForTgt
    /\ tgts < MaxTgts
    /\ tgt' = [tgt EXCEPT ![tgts] = NewTgt(None, None, user)]
    /\ tgts' = tgts + 1
    /\ tgtRegistry' = tgtRegistry \cup {tgts}
    /\ UNCHANGED <<st, sts, stRegistry, others, call>>

-----------------------------------------------------------------------------
(* grantServiceTicket                                                      *)

\* An expired TGT is deleted, without logging its services out, and the call throws.
GrantFindsExpired(i) ==
    /\ i \in tgtRegistry
    /\ TgtExpired[i]
    /\ tgtRegistry' = tgtRegistry \ {i}
    /\ UNCHANGED <<tickets, stRegistry, others, call>>

\* The bound MaxSts leaves room for the grants in progress.
RoomForSt == sts + Cardinality({t \in Threads : call[t].pc = "grant_new"}) < MaxSts

GrantBegins(t, i, service) ==
    /\ call[t].pc = "idle"
    /\ RoomForSt
    /\ i \in tgtRegistry
    /\ ~TgtExpired[i]
    /\ service \in Enabled
    /\ service \in SsoEnabled \/ ~tgt[i].used
    /\ Len(Chained[i]) > 1 => service \in AllowedToProxy
    /\ call' = [call EXCEPT ![t] = [NoCall EXCEPT !.pc = "grant_new", !.tgt = i, !.service = service,
                                                  !.facts = {f \in {"used"} : Granted(i)}]]
    /\ UNCHANGED <<tickets, registries, others>>

\* TicketGrantingTicketImpl.grantServiceTicket: the ticket takes fromNewLogin from the
\* count as it is now ..
GrantCreates(t) ==
    /\ call[t].pc = "grant_new"
    /\ sts < MaxSts
    /\ st' = [st EXCEPT ![sts] = NewSt(call[t].tgt, call[t].service, ~tgt[call[t].tgt].used,
                                       call[t].facts)]
    /\ sts' = sts + 1
    /\ call' = [call EXCEPT ![t].pc = "grant_record", ![t].st = sts]
    /\ UNCHANGED <<tgt, tgts, registries, others>>

\* Two threads are inside services.Add of the same dictionary.
AddsRace(t) ==
    \E u \in Threads \ {t} : call[u].pc = "grant_record" /\ call[u].tgt = call[t].tgt

\* Mutant: the use of the TGT is not counted.
GrantRecords_NotCounted(t) ==
    /\ call[t].pc = "grant_record"
    /\ tgt' = [tgt EXCEPT ![call[t].tgt].services = @ \cup {call[t].st}]
    /\ call' = [call EXCEPT ![t].pc = "grant_store"]
    /\ UNCHANGED <<st, tgts, sts, registries, others>>

\* .. then the count is increased and the service recorded for the single logout.
\* Dictionary is not thread safe: of two entries added at once, one may be lost.
ServicesAfterAdd(t) ==
    LET services == tgt[call[t].tgt].services IN
    {services \cup {call[t].st}} \cup (IF AddsRace(t) THEN {services} ELSE {})

GrantRecords(t) ==
    /\ call[t].pc = "grant_record"
    /\ \E services \in ServicesAfterAdd(t) :
          tgt' = [tgt EXCEPT ![call[t].tgt].used = TRUE,
                             ![call[t].tgt].idle = FALSE,
                             ![call[t].tgt].services = services]
    /\ call' = [call EXCEPT ![t].pc = "grant_store"]
    /\ UNCHANGED <<st, tgts, sts, registries, others>>

GrantStores(t) ==
    /\ call[t].pc = "grant_store"
    /\ stRegistry' = stRegistry \cup {call[t].st}
    /\ Return(t)
    /\ UNCHANGED <<tickets, tgtRegistry, others>>

-----------------------------------------------------------------------------
(* validateServiceTicket                                                   *)

ValidateBegins(t, j, service) ==
    /\ call[t].pc = "idle"
    /\ j \in stRegistry
    /\ service \in Enabled
    /\ call' = [call EXCEPT ![t] = [NoCall EXCEPT !.pc = "validate_lock", !.st = j, !.service = service,
                                                  !.facts = HistoryOf(st[j].tgt)]]
    /\ UNCHANGED <<tickets, registries, others>>

\* The finally block of validateServiceTicket is left to do.
Finally(j) == [NoCall EXCEPT !.pc = "validate_finally", !.st = j]

\* Mutant: without lock (serviceTicket).
ValidateLocks_NoLock(t) ==
    /\ call[t].pc = "validate_lock"
    /\ call' = [call EXCEPT ![t].pc = IF StExpired(call[t].st) THEN "validate_finally"
                                      ELSE "validate_use"]
    /\ UNCHANGED <<tickets, registries, others>>

\* lock (serviceTicket); an expired ticket throws, which leaves the lock again.
ValidateLocks(t) ==
    LET j == call[t].st IN
    /\ call[t].pc = "validate_lock"
    /\ stLock[j] = None
    /\ \/ /\ StExpired(j)
          /\ call' = [call EXCEPT ![t] = Finally(j)]
          /\ UNCHANGED stLock
       \/ /\ ~StExpired(j)
          /\ call' = [call EXCEPT ![t].pc = "validate_use"]
          /\ stLock' = [stLock EXCEPT ![j] = t]
    /\ UNCHANGED <<tickets, registries, loggedOutAlready, ticketsToRemove, timeouts, assertions>>

\* isValidFor counts the use whether or not the service matches; if it does, the assertion
\* is made of the principal the chain of tickets ends in.
ValidateUses(t) ==
    LET j == call[t].st IN
    /\ call[t].pc = "validate_use"
    /\ st' = [st EXCEPT ![j].countOfUses = @ + 1, ![j].idle = FALSE]
    /\ assertions' = IF call[t].service # st[j].service THEN assertions
                     ELSE assertions \cup {[st |-> j, service |-> call[t].service,
                                            user |-> Principal(st[j].tgt), facts |-> call[t].facts]}
    /\ stLock' = [stLock EXCEPT ![j] = None]
    /\ call' = [call EXCEPT ![t] = Finally(j)]
    /\ UNCHANGED <<tgt, tgts, sts, registries, loggedOutAlready, ticketsToRemove, timeouts>>

\* The finally block, outside the lock.
ValidateReturns(t) ==
    LET j == call[t].st IN
    /\ call[t].pc = "validate_finally"
    /\ stRegistry' = IF StExpired(j) THEN stRegistry \ {j} ELSE stRegistry
    /\ Return(t)
    /\ UNCHANGED <<tickets, tgtRegistry, others>>

-----------------------------------------------------------------------------
(* delegateTicketGrantingTicket                                            *)

\* Mutant: whether the service may proxy is not asked.
DelegateBegins_AnyService(t, j) ==
    /\ call[t].pc = "idle"
    /\ RoomForTgt
    /\ j \in stRegistry
    /\ ~StExpired(j)
    /\ st[j].service \in Enabled
    /\ call' = [call EXCEPT ![t] = [NoCall EXCEPT !.pc = "delegate_check", !.st = j]]
    /\ UNCHANGED <<tickets, registries, others>>

DelegateBegins(t, j) ==
    /\ call[t].pc = "idle"
    /\ RoomForTgt
    /\ j \in stRegistry
    /\ ~StExpired(j)
    /\ st[j].service \in Enabled \cap AllowedToProxy
    /\ call' = [call EXCEPT ![t] = [NoCall EXCEPT !.pc = "delegate_check", !.st = j]]
    /\ UNCHANGED <<tickets, registries, others>>

\* ServiceTicketImpl.grantTicketGrantingTicket reads the flag ..
DelegateChecks(t) ==
    LET j == call[t].st IN
    /\ call[t].pc = "delegate_check"
    /\ \/ st[j].grantedTicketAlready /\ Return(t)
       \/ ~st[j].grantedTicketAlready /\ call' = [call EXCEPT ![t].pc = "delegate_grant"]
    /\ UNCHANGED <<tickets, registries, others>>

\* .. and sets it; the new TGT has the TGT of the ST as its parent, and goes to the registry.
DelegateGrants(t, proxy) ==
    LET j == call[t].st IN
    /\ call[t].pc = "delegate_grant"
    /\ tgts < MaxTgts
    /\ st' = [st EXCEPT ![j].grantedTicketAlready = TRUE]
    /\ tgt' = [tgt EXCEPT ![tgts] = NewTgt(st[j].tgt, j, proxy)]
    /\ tgts' = tgts + 1
    /\ tgtRegistry' = tgtRegistry \cup {tgts}
    /\ Return(t)
    /\ UNCHANGED <<sts, stRegistry, others>>

-----------------------------------------------------------------------------
(* destroyTicketGrantingTicket and TicketGrantingTicketImpl.expire         *)

DestroyBegins(t, i) ==
    /\ call[t].pc = "idle"
    /\ i \in tgtRegistry
    /\ tgt' = [tgt EXCEPT ![i].expired = TRUE]
    /\ call' = [call EXCEPT ![t] = [NoCall EXCEPT !.pc = "logout", !.tgt = i,
                                    !.seen = tgt[i].services, !.todo = tgt[i].services]]
    /\ UNCHANGED <<st, tgts, sts, registries, others>>

\* An exception in logOutOfServices: the call ends, and so does the run of the cleaner.
Throw(a) ==
    /\ Return(a)
    /\ ticketsToRemove' = IF a = Cleaner THEN {} ELSE ticketsToRemove

\* The enumerator of services throws once an entry was added behind its back.
EnumerationFails(a) ==
    /\ call[a].pc = "logout"
    /\ tgt[call[a].tgt].services # call[a].seen
    /\ Throw(a)
    /\ UNCHANGED <<tickets, registries, stLock, loggedOutAlready, timeouts, assertions>>

\* Mutant: the flag is set after the message is posted.
LogOutOfService_FlagLast(a, k) ==
    /\ call[a].pc = "logout"
    /\ tgt[call[a].tgt].services = call[a].seen
    /\ k \in call[a].todo
    /\ \/ /\ call' = [call EXCEPT ![a].todo = @ \ {k}]
          /\ loggedOutAlready' = loggedOutAlready \cup {k}
          /\ UNCHANGED ticketsToRemove
       \/ k \notin loggedOutAlready /\ Throw(a) /\ UNCHANGED loggedOutAlready
    /\ UNCHANGED <<tickets, registries, stLock, timeouts, assertions>>

\* logOutOfService, which is synchronized, for the service of the ST k: the flag is set
\* before the message is posted, and a post that fails throws.
LogOutOfService(a, k) ==
    /\ call[a].pc = "logout"
    /\ tgt[call[a].tgt].services = call[a].seen
    /\ k \in call[a].todo
    /\ loggedOutAlready' = loggedOutAlready \cup {k}
    /\ \/ /\ call' = [call EXCEPT ![a].todo = @ \ {k}]
          /\ UNCHANGED ticketsToRemove
       \/ k \notin loggedOutAlready /\ Throw(a)
    /\ UNCHANGED <<tickets, registries, stLock, timeouts, assertions>>

\* Mutant: the services are enumerated from a copy.
LogOutEnds_Copy(a) ==
    /\ call[a].pc = "logout"
    /\ call[a].todo = {}
    /\ call' = [call EXCEPT ![a].pc = "delete"]
    /\ UNCHANGED <<tickets, registries, others>>

\* The enumeration comes to its end, and expire returns.
LogOutEnds(a) ==
    /\ call[a].pc = "logout"
    /\ tgt[call[a].tgt].services = call[a].seen
    /\ call[a].todo = {}
    /\ call' = [call EXCEPT ![a].pc = "delete"]
    /\ UNCHANGED <<tickets, registries, others>>

\* deleteTicket, by then with what grants have added to services since; the STs and PGTs
\* granted from the ticket stay.
DeletesTgt(a) ==
    LET i == call[a].tgt IN
    /\ call[a].pc = "delete"
    /\ tgtRegistry' = tgtRegistry \ {i}
    /\ IF a = Cleaner
       THEN /\ call' = [call EXCEPT ![a] = [NoCall EXCEPT !.pc = "clean"]]
            /\ ticketsToRemove' = ticketsToRemove \ {<<"TGT", i>>}
       ELSE Return(a) /\ UNCHANGED ticketsToRemove
    /\ UNCHANGED <<tickets, stRegistry, stLock, loggedOutAlready, timeouts, assertions>>

-----------------------------------------------------------------------------
(* DefaultTicketRegistryCleaner.clean                                      *)

\* The scan of the registry, one step; no lock is held between it and the removals.  A run
\* that finds nothing is over at once.
CleanScans ==
    /\ call[Cleaner].pc = "idle"
    /\ ticketsToRemove' = {<<"TGT", i>> : i \in {k \in tgtRegistry : TgtExpired[k]}}
                         \cup {<<"ST", j>> : j \in {k \in stRegistry : StExpired(k)}}
    /\ call' = [call EXCEPT ![Cleaner].pc = IF ticketsToRemove' = {} THEN "idle" ELSE "clean"]
    /\ UNCHANGED <<tickets, registries, stLock, loggedOutAlready, timeouts, assertions>>

\* "Expire TGT to trigger single sign-out": the cleaner goes through LogOutOfService too.
CleanExpiresTgt(i) ==
    /\ call[Cleaner].pc = "clean"
    /\ <<"TGT", i>> \in ticketsToRemove
    /\ tgt' = [tgt EXCEPT ![i].expired = TRUE]
    /\ call' = [call EXCEPT ![Cleaner] = [NoCall EXCEPT !.pc = "logout", !.tgt = i,
                                          !.seen = tgt[i].services, !.todo = tgt[i].services]]
    /\ UNCHANGED <<st, tgts, sts, registries, others>>

CleanDeletesSt(j) ==
    /\ call[Cleaner].pc = "clean"
    /\ <<"ST", j>> \in ticketsToRemove
    /\ stRegistry' = stRegistry \ {j}
    /\ ticketsToRemove' = ticketsToRemove \ {<<"ST", j>>}
    /\ UNCHANGED <<tickets, tgtRegistry, stLock, loggedOutAlready, call, timeouts, assertions>>

CleanEnds ==
    /\ call[Cleaner].pc = "clean"
    /\ ticketsToRemove = {}
    /\ Return(Cleaner)
    /\ UNCHANGED <<tickets, registries, others>>

-----------------------------------------------------------------------------
(* Time passes                                                             *)

TgtTimesOut(i) ==
    /\ i < tgts
    /\ timeouts < MaxTimeouts
    /\ timeouts' = timeouts + 1
    /\ \/ ~tgt[i].idle /\ tgt' = [tgt EXCEPT ![i].idle = TRUE]
       \/ ~tgt[i].old /\ tgt' = [tgt EXCEPT ![i].old = TRUE]
    /\ UNCHANGED <<st, tgts, sts, registries, stLock, loggedOutAlready, call, ticketsToRemove,
                   assertions>>

StTimesOut(j) ==
    /\ j < sts
    /\ timeouts < MaxTimeouts
    /\ timeouts' = timeouts + 1
    /\ ~st[j].idle
    /\ st' = [st EXCEPT ![j].idle = TRUE]
    /\ UNCHANGED <<tgt, tgts, sts, registries, stLock, loggedOutAlready, call, ticketsToRemove,
                   assertions>>

-----------------------------------------------------------------------------
Grant(t) ==
    \/ \E i \in TgtIds, service \in Services : GrantBegins(t, i, service)
    \/ GrantCreates(t)
    \/ GrantRecords(t)
    \/ GrantStores(t)

Validate(t) ==
    \/ \E j \in StIds, service \in Services : ValidateBegins(t, j, service)
    \/ ValidateLocks(t)
    \/ ValidateUses(t)
    \/ ValidateReturns(t)

Delegate(t) ==
    \/ \E j \in StIds : DelegateBegins(t, j)
    \/ DelegateChecks(t)
    \/ \E proxy \in Proxies : DelegateGrants(t, proxy)

LogOut(a) ==
    \/ EnumerationFails(a)
    \/ \E k \in StIds : LogOutOfService(a, k)
    \/ LogOutEnds(a)
    \/ DeletesTgt(a)

Clean ==
    \/ CleanScans
    \/ \E i \in TgtIds : CleanExpiresTgt(i)
    \/ \E j \in StIds : CleanDeletesSt(j)
    \/ CleanEnds
    \/ LogOut(Cleaner)

Next ==
    \/ \E user \in Users : CreateTicketGrantingTicket(user)
    \/ \E i \in TgtIds : GrantFindsExpired(i)
    \/ \E t \in Threads : Grant(t) \/ Validate(t) \/ Delegate(t) \/ LogOut(t)
    \/ \E t \in Threads, i \in TgtIds : DestroyBegins(t, i)
    \/ Clean
    \/ \E i \in TgtIds : TgtTimesOut(i)
    \/ \E j \in StIds : StTimesOut(j)

Spec == Init /\ [][Next]_vars

\* The step a call in progress takes next; no such step waits for another call but the one
\* that enters a lock.
Proceed(t) ==
    \/ GrantCreates(t) \/ GrantRecords(t) \/ GrantStores(t)
    \/ ValidateLocks(t) \/ ValidateUses(t) \/ ValidateReturns(t)
    \/ DelegateChecks(t) \/ \E proxy \in Proxies : DelegateGrants(t, proxy)
    \/ LogOut(t)

\* Threads keep running, and the cleaner is run again and again.
Fairness == WF_vars(Clean) /\ \A t \in Threads : WF_vars(Proceed(t))

FairSpec == Spec /\ Fairness

-----------------------------------------------------------------------------
\* What the theorems need of it: every variable but the history of assertions.
TicketsTypeOK ==
    /\ tgt \in [TgtIds -> TgtRecord]
    /\ st \in [StIds -> StRecord]
    /\ tgts \in 0 .. MaxTgts
    /\ sts \in 0 .. MaxSts
    /\ tgtRegistry \in SUBSET TgtIds
    /\ stRegistry \in SUBSET StIds
    /\ stLock \in [StIds -> Threads \cup {None}]
    /\ loggedOutAlready \in SUBSET StIds
    /\ call \in [Actors -> CallRecord]
    /\ ticketsToRemove \subseteq {"TGT", "ST"} \X (TgtIds \cup StIds)
    /\ timeouts \in 0 .. MaxTimeouts

TypeOK == TicketsTypeOK /\ assertions \subseteq AssertionRecord

\* A call in progress knows the tickets it is about.
CallsInv ==
    \A a \in Actors :
        /\ call[a].pc \in {"grant_new", "grant_record", "logout", "delete"} => call[a].tgt \in TgtIds
        /\ call[a].pc \in {"grant_record", "grant_store", "validate_lock", "validate_use",
                           "validate_finally", "delegate_check", "delegate_grant"}
              => call[a].st \in StIds

\* The thread about to use a service ticket owns its lock, and a use is left.
LockInv ==
    /\ \A j \in StIds : st[j].countOfUses <= NumberOfUses
    /\ \A t \in Threads : call[t].pc = "validate_use" =>
          stLock[call[t].st] = t /\ st[call[t].st].countOfUses < NumberOfUses

\* A logout in progress has logged out of what it has enumerated, and at its end of all.
LogOutInv ==
    \A a \in Actors :
        /\ call[a].pc = "logout" => call[a].seen \ call[a].todo \subseteq loggedOutAlready
        /\ call[a].pc = "delete" => call[a].seen \subseteq loggedOutAlready

\* However many requests present a service ticket at once, it is used no more often than
\* its expiration policy allows: the check and the increment are under one lock.
UsesBounded == \A j \in StIds : st[j].countOfUses <= NumberOfUses

\* An assertion names a user who logged in and whose TGT the ticket descends from over any
\* number of delegations, never a proxy; it goes to the enabled service the ticket was
\* granted for.  Every delegation between the login and that ticket was made with a ticket of
\* the TGT above it, for a service that was allowed to proxy, and if there was any the service
\* of the assertion was allowed to proxy too.
AssertionsAreTrue ==
    \A x \in assertions : LET i == st[x.st].tgt IN
        /\ x.service = st[x.st].service /\ x.service \in Enabled
        /\ \E k \in Ancestors[i] : tgt[k].parent = None /\ tgt[k].user = x.user
        /\ x.user \in Users
        /\ tgt[i].parent # None => x.service \in AllowedToProxy
        /\ \A k \in Ancestors[i] : tgt[k].parent # None =>
              st[tgt[k].via].tgt = tgt[k].parent /\ st[tgt[k].via].service \in AllowedToProxy

\* A request that began after the TGT of a service ticket, or a TGT that one was delegated
\* from, had reached its maximum time to live gets no assertion.
HardTimeoutIsFinal == \A x \in assertions : "old" \notin x.facts

\* Only a call that began before any service ticket of the TGT had been returned can get a
\* ticket marked as from a new login, or one for a service without single sign-on.
SsoIsVisible ==
    \A j \in StIds : (j < sts /\ (st[j].fromNewLogin \/ st[j].service \notin SsoEnabled))
                        => "used" \notin st[j].facts

ExpireReturns(a) == call[a].pc = "logout" /\ call'[a].pc = "delete"

LogsOutCompletely ==
    \A a \in Actors : LET i == call[a].tgt IN
        /\ ExpireReturns(a) => tgt[i].services \subseteq loggedOutAlready
        /\ (call[a].pc = "delete" /\ i \in tgtRegistry \ tgtRegistry') =>
              tgt[i].services \cap call[a].seen \subseteq loggedOutAlready

\* When expire() returns, to a request or to the cleaner, every service recorded in the TGT at
\* that moment has been logged out, by whomever; and the TGT leaves the registry with no
\* service missed but those that a grant has recorded in the meantime.
SingleLogoutIsComplete == [][LogsOutCompletely]_vars

\* The cleaner gets rid of every TGT past its maximum time to live, although a failing
\* logout message or a concurrent grant aborts its run: the flag of a service is set before
\* the message is sent, so that the next run skips it.
OldTgtIsRemoved ==
    \A i \in TgtIds : (i \in tgtRegistry /\ tgt[i].old) ~> i \notin tgtRegistry

-----------------------------------------------------------------------------
(* The inductive invariant behind SsoIsVisible, AssertionsAreTrue and      *)
(* HardTimeoutIsFinal                                                      *)

MayDelegate(j) == st[j].service \in AllowedToProxy

DelegatedVia(i, j) == j \in StIds /\ j < sts /\ st[j].tgt = tgt[i].parent /\ MayDelegate(j)

\* Tickets are numbered as they are created: a parent before its children, a TGT before its
\* STs, and nothing speaks of a ticket that was not created.
TicketsInv ==
    /\ \A i \in TgtIds :
          /\ tgt[i].parent # None => i < tgts /\ tgt[i].parent < i /\ DelegatedVia(i, tgt[i].via)
          /\ i < tgts /\ tgt[i].parent = None => tgt[i].user \in Users
    /\ \A j \in StIds :
          /\ j < sts => st[j].tgt \in TgtIds /\ st[j].tgt < tgts
          /\ st[j].tgt # None => j < sts
    /\ \A i \in tgtRegistry : i < tgts
    /\ \A j \in stRegistry : j < sts
    /\ \A t \in Threads :
          /\ call[t].pc \in {"grant_new", "grant_record"} => call[t].tgt < tgts
          /\ call[t].pc \in {"grant_record", "grant_store", "validate_lock", "validate_use",
                             "delegate_check", "delegate_grant"}
                => call[t].st < sts
          /\ call[t].pc \in {"delegate_check", "delegate_grant"} => MayDelegate(call[t].st)

\* A TGT that granted an ST has been used, or the grant is about to count the use; a grant that
\* began when an ST had been returned knows that the TGT was used, and goes to a service that
\* takes part in single sign-on.
MayGrant(i, service) ==
    service \in Enabled /\ (tgt[i].parent # None => service \in AllowedToProxy)

GrantsInv ==
    /\ \A t \in Threads : call[t].pc = "grant_new" =>
          /\ MayGrant(call[t].tgt, call[t].service)
          /\ "used" \in call[t].facts => tgt[call[t].tgt].used /\ call[t].service \in SsoEnabled
    /\ \A t \in Threads : call[t].pc = "grant_record" => st[call[t].st].tgt = call[t].tgt
    /\ \A j \in StIds : j < sts =>
          /\ MayGrant(st[j].tgt, st[j].service)
          /\ \/ tgt[st[j].tgt].used
             \/ \E t \in Threads : call[t].pc = "grant_record" /\ call[t].st = j

\* A validation that began after the hard window of the ticket's login finds it passed.
ValidationsInv ==
    \A t \in Threads :
        /\ call[t].pc \in {"validate_lock", "validate_use"} => call[t].service \in Enabled
        /\ call[t].pc = "validate_lock" /\ "old" \in call[t].facts =>
              \E k \in Ancestors[st[call[t].st].tgt] : tgt[k].old
        /\ call[t].pc = "validate_use" => "old" \notin call[t].facts

AssertionsInv ==
    /\ AssertionsAreTrue /\ HardTimeoutIsFinal
    /\ \A x \in assertions : x.st < sts

CasInv ==
    /\ TypeOK /\ CallsInv /\ TicketsInv /\ GrantsInv /\ ValidationsInv
    /\ AssertionsInv /\ SsoIsVisible

-----------------------------------------------------------------------------
(* What the comments and exceptions of the code say, which it does not do  *)

\* "Destroy a TicketGrantingTicket. This has the effect of invalidating any Ticket that was
\* derived from" it: no assertion for a request that began after that.
DestroyInvalidates == \A x \in assertions : "destroyed" \notin x.facts

\* "Cannot grant more than one TGT for ServiceTicket": no two proxy granting tickets were
\* delegated from one service ticket.
OnePgtPerSt == \A j \in StIds : Cardinality({k \in TgtIds : tgt[k].via = j}) <= 1
=============================================================================
