------------------------------ MODULE CasTicket ------------------------------
(***************************************************************************)
(* Dev.CasServer/CasTicket.cs and TicketStorage/HttpCacheTicketStorage.cs: *)
(* the service tickets of the deployed CAS server, at the grain at which   *)
(* two request threads interleave.  The static methods of CasTicket take   *)
(* no lock: Issue reads and writes the static counter in two steps before  *)
(* it adds to the cache, and CheckAndPunch gets before it removes.         *)
(*                                                                         *)
(* A CasTicket object is a record whose "id" is its reference identity.  A *)
(* ticket string is the pair of what varies in it, the counter and the     *)
(* token; the token is a function of the seed DateTime.Now.Millisecond, so *)
(* the seed stands for it.                                                 *)
(***************************************************************************)
EXTENDS Naturals, FiniteSets

CONSTANTS
    Threads,       \* the request threads
    Users,
    Services,
    CounterSize,   \* how many values _nCounter has, 2^32 in the code
    Milliseconds,  \* the seeds of Random, 0 .. 999 in the code
    MaxIssues,     \* bound: calls of Issue in a behaviour
    MaxRestarts,   \* bound: restarts of the application
    Null

Ids == 0 .. MaxIssues - 1

CasTicketObject == [id : Ids, _strUserName : Users, _strService : Services]

TicketString == [n : 0 .. CounterSize - 1, token : Milliseconds]

ASSUME ConstantsAssumption ==
    /\ CounterSize \in Nat \ {0}
    /\ MaxIssues \in Nat
    /\ MaxRestarts \in Nat
    /\ Null \notin CasTicketObject
    /\ Null \notin TicketString

VARIABLES
    nCounter,  \* the static uint _nCounter
    cache,     \* HttpContext.Cache: string -> CasTicket or null
    pc,        \* where each thread is: between calls, or inside one
    ticket,    \* the local "ticket" of Issue and of CheckAndPunch
    strTicket, \* the local "strTicket" of Issue, the parameter of CheckAndPunch
    \* history: what the callers were told
    issues,    \* calls of Issue so far, the source of object identities
    issued,    \* <<ticket, string>> for each completed call of Issue
    uses,      \* how many calls of CheckAndPunch returned each ticket
    increments, \* increments of _nCounter so far
    lost,      \* some increment of _nCounter overwrote another one
    restarts

calls == <<pc, ticket, strTicket>>
history == <<issues, issued, uses, increments, lost, restarts>>
vars == <<nCounter, cache, calls, history>>

Init ==
    /\ nCounter = 0
    /\ cache = [str \in TicketString |-> Null]
    /\ pc = [t \in Threads |-> "idle"]
    /\ ticket = [t \in Threads |-> Null]
    /\ strTicket = [t \in Threads |-> Null]
    /\ issues = 0
    /\ issued = {}
    /\ uses = [id \in Ids |-> 0]
    /\ increments = 0
    /\ lost = FALSE
    /\ restarts = 0

-----------------------------------------------------------------------------
(* Issue(strUserName, strService)                                          *)

\* Mutant: an increment that forgets that the counter is 32 bits wide.
Incremented_NoWrap(n) == n + 1

\* The value ++_nCounter computes from the counter it reads.
Incremented(n) == IF n + 1 = CounterSize THEN 0 ELSE n + 1

\* "new CasTicket", the seed from the clock, and the read half of ++_nCounter.
IssueReads(t, user, service) ==
    /\ pc[t] = "idle"
    /\ issues < MaxIssues
    /\ ticket' = [ticket EXCEPT ![t] =
                    [id |-> issues, _strUserName |-> user, _strService |-> service]]
    /\ \E millisecond \in Milliseconds :
          strTicket' = [strTicket EXCEPT ![t] =
                          [n |-> Incremented(nCounter), token |-> millisecond]]
    /\ issues' = issues + 1
    /\ pc' = [pc EXCEPT ![t] = "issue_write"]
    /\ UNCHANGED <<nCounter, cache, issued, uses, increments, lost, restarts>>

\* Mutant: the increment stays in a local variable.
IssueWrites_LocalOnly(t) ==
    /\ pc[t] = "issue_write"
    /\ increments' = increments + 1
    /\ lost' = (lost \/ strTicket[t].n # Incremented(nCounter))
    /\ pc' = [pc EXCEPT ![t] = "issue_add"]
    /\ UNCHANGED <<nCounter, cache, ticket, strTicket, issues, issued, uses, restarts>>

\* The write half of ++_nCounter: it stores the value computed from the earlier read.
IssueWrites(t) ==
    /\ pc[t] = "issue_write"
    /\ nCounter' = strTicket[t].n
    /\ increments' = increments + 1
    /\ lost' = (lost \/ strTicket[t].n # Incremented(nCounter))
    /\ pc' = [pc EXCEPT ![t] = "issue_add"]
    /\ UNCHANGED <<cache, ticket, strTicket, issues, issued, uses, restarts>>

\* Cache.Add keeps the entry a key already has; Issue ignores its result.
StorageAdd(c, str, object) ==
    IF c[str] = Null THEN [c EXCEPT ![str] = object] ELSE c

IssueAdds(t) ==
    /\ pc[t] = "issue_add"
    /\ cache' = StorageAdd(cache, strTicket[t], ticket[t])
    /\ issued' = issued \cup {<<ticket[t], strTicket[t]>>}
    /\ pc' = [pc EXCEPT ![t] = "idle"]
    /\ UNCHANGED <<nCounter, ticket, strTicket, issues, uses, increments, lost, restarts>>

-----------------------------------------------------------------------------
(* CheckAndPunch(strTicket, ref strService)                                *)

\* No such key: the empty user name is returned.
PunchMisses(t, str) ==
    /\ pc[t] = "idle"
    /\ cache[str] = Null
    /\ UNCHANGED vars

PunchGets(t, str) ==
    /\ pc[t] = "idle"
    /\ cache[str] # Null
    /\ ticket' = [ticket EXCEPT ![t] = cache[str]]
    /\ strTicket' = [strTicket EXCEPT ![t] = str]
    /\ pc' = [pc EXCEPT ![t] = "punch_remove"]
    /\ UNCHANGED <<nCounter, cache, history>>

\* Mutant: the ticket is read but not punched.
StorageRemove_Nothing(c, str) == c

\* Cache.Remove does nothing for a missing key; the ticket's user is returned.
StorageRemove(c, str) == [c EXCEPT ![str] = Null]

PunchRemoves(t) ==
    /\ pc[t] = "punch_remove"
    /\ cache' = StorageRemove(cache, strTicket[t])
    /\ uses' = [uses EXCEPT ![ticket[t].id] = @ + 1]
    /\ pc' = [pc EXCEPT ![t] = "idle"]
    /\ UNCHANGED <<nCounter, ticket, strTicket, issues, issued, increments, lost, restarts>>

-----------------------------------------------------------------------------
(* The environment                                                         *)

\* An entry expires ten minutes after Add, or earlier under memory pressure.
Evict(str) ==
    /\ cache[str] # Null
    /\ cache' = StorageRemove(cache, str)
    /\ UNCHANGED <<nCounter, calls, history>>

\* The application restarts: the requests in progress die, statics and cache are gone.
Restart ==
    /\ restarts < MaxRestarts
    /\ restarts' = restarts + 1
    /\ nCounter' = 0
    /\ cache' = [str \in TicketString |-> Null]
    /\ pc' = [t \in Threads |-> "idle"]
    /\ UNCHANGED <<ticket, strTicket, issues, issued, uses, increments, lost>>

Next ==
    \/ \E t \in Threads :
          \/ \E user \in Users, service \in Services : IssueReads(t, user, service)
          \/ IssueWrites(t)
          \/ IssueAdds(t)
          \/ \E str \in TicketString : PunchMisses(t, str) \/ PunchGets(t, str)
          \/ PunchRemoves(t)
    \/ \E str \in TicketString : Evict(str)
    \/ Restart

Spec == Init /\ [][Next]_vars

-----------------------------------------------------------------------------
TypeOK ==
    /\ nCounter \in 0 .. CounterSize - 1
    /\ cache \in [TicketString -> CasTicketObject \cup {Null}]
    /\ pc \in [Threads -> {"idle", "issue_write", "issue_add", "punch_remove"}]
    /\ ticket \in [Threads -> CasTicketObject \cup {Null}]
    /\ strTicket \in [Threads -> TicketString \cup {Null}]
    /\ \A t \in Threads : pc[t] # "idle" => ticket[t] # Null /\ strTicket[t] # Null
    /\ issues \in 0 .. MaxIssues
    /\ issued \subseteq CasTicketObject \X TicketString
    /\ uses \in [Ids -> Nat]
    /\ increments \in Nat
    /\ lost \in BOOLEAN
    /\ restarts \in 0 .. MaxRestarts

\* A ticket some caller of CheckAndPunch was given the user of is out of the cache for
\* good: a second success can only come from a call that had already read the entry.
PunchedTicketIsGone ==
    \A str \in TicketString : cache[str] # Null => uses[cache[str].id] = 0

\* Two calls of Issue return different strings, so every string leads a validation to the
\* ticket it was returned for, as long as no increment of the counter was lost, the counter
\* did not wrap and the application was not restarted.
StringsAreUnique ==
    (~lost /\ restarts = 0 /\ increments <= CounterSize) =>
        \A p, q \in issued : p[2] = q[2] => p[1] = q[1]

-----------------------------------------------------------------------------
(* The inductive invariants behind the two properties above                *)

Issuing(t) == pc[t] \in {"issue_write", "issue_add"}

Punching(t) == pc[t] = "punch_remove"

\* Each ticket object is in one place: with the thread that is issuing it, or under one
\* key of the cache; only a thread punching it also refers to it, under that same key.
PunchInv ==
    /\ \A id \in Ids : id >= issues => uses[id] = 0
    /\ \A str \in TicketString :
          cache[str] # Null => cache[str].id < issues /\ uses[cache[str].id] = 0
    /\ \A str1, str2 \in TicketString :
          (cache[str1] # Null /\ cache[str2] # Null /\ cache[str1].id = cache[str2].id)
              => str1 = str2
    /\ \A t \in Threads : pc[t] # "idle" => ticket[t].id < issues
    /\ \A t \in Threads : Issuing(t) =>
          /\ uses[ticket[t].id] = 0
          /\ \A str \in TicketString : cache[str] # Null => cache[str].id # ticket[t].id
          /\ \A u \in Threads \ {t} : pc[u] # "idle" => ticket[u].id # ticket[t].id
    /\ \A t \in Threads : Punching(t) =>
          \A str \in TicketString :
             (cache[str] # Null /\ cache[str].id = ticket[t].id) => str = strTicket[t]

\* The order in which the values of the counter are handed out: 1, 2, .. and 0 last.
Position(n) == IF n = 0 THEN CounterSize ELSE n

Undisturbed == ~lost /\ restarts = 0 /\ increments <= CounterSize

\* While the counter is undisturbed it is the number of increments, and every string made
\* of a value it has handed out has that value to itself.
CounterInv ==
    Undisturbed =>
        /\ increments < CounterSize => nCounter = increments
        /\ \A t \in Threads : pc[t] = "issue_add" => Position(strTicket[t].n) <= increments
        /\ \A p \in issued : Position(p[2].n) <= increments
        /\ \A t, u \in Threads :
              (pc[t] = "issue_add" /\ pc[u] = "issue_add" /\ strTicket[t].n = strTicket[u].n)
                  => t = u
        /\ \A t \in Threads, p \in issued :
              pc[t] = "issue_add" => strTicket[t].n # p[2].n
        /\ \A p, q \in issued : p[2].n = q[2].n => p[1] = q[1]

-----------------------------------------------------------------------------
(* What the comments of the code say, which the races break               *)

\* What "check and immedeately invalidate (punch) it" promises of CheckAndPunch: no
\* ticket is ever returned twice.
SingleUse == \A id \in Ids : uses[id] <= 1

\* What "Returns the corresponding ticket string" promises of Issue: the string does not
\* lead to a ticket issued to someone else.
StringNamesItsTicket ==
    \A p \in issued : cache[p[2]] \in {Null, p[1]}
=============================================================================
