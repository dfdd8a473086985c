--------------------------- MODULE AssertionProofs ---------------------------
(***************************************************************************)
(* Proofs about what CentralAuthenticationService promises of an assertion *)
(* over any number of delegations: it names a user who logged in, and none *)
(* is made for a request that began after the hard window of the login.    *)
(* The chain of tickets is walked by recursion on the parent.              *)
(***************************************************************************)
EXTENDS CentralAuthenticationServiceProofs, NumberLemmas

\* Tickets are numbered after their parents.
LEMMA ParentsComeFirst ==
    ASSUME TypeInv, TicketsInv
    PROVE  /\ MaxTgts \in Nat /\ TgtIds = 0 .. MaxTgts - 1
           /\ \A i \in TgtIds : tgt[i].parent # None => tgt[i].parent \in TgtIds /\ tgt[i].parent < i
BY CasAssumption DEF TypeInv, TicketsTypeOK, TicketsInv, TgtIds, TgtRecord

\* The recursive definitions have a solution, so that they may be unfolded.
LEMMA AncestorsOf ==
    ASSUME TypeInv, TicketsInv, NEW i \in TgtIds
    PROVE  Ancestors[i] = IF tgt[i].parent = None THEN {i} ELSE {i} \cup Ancestors[tgt[i].parent]
<1>1. PICK parent : parent = [k \in TgtIds |-> tgt[k].parent]
  OBVIOUS
<1>2. PICK V : V = SUBSET TgtIds
  OBVIOUS
<1>3. PICK base \in [TgtIds -> V] : base = [k \in TgtIds |-> {k}]
  BY <1>2
<1>4. PICK step \in [TgtIds \X V -> V] : step = [p \in TgtIds \X V |-> {p[1]} \cup p[2]]
  <2>1. [p \in TgtIds \X V |-> {p[1]} \cup p[2]] \in [TgtIds \X V -> V]
    BY <1>2
  <2>2. QED
    BY <2>1
<1>5. PICK f \in [TgtIds -> V] : \A k \in TgtIds :
         f[k] = IF parent[k] = None THEN base[k] ELSE step[<<k, f[parent[k]]>>]
  <2>1. ParentsOf(TgtIds, parent, None)
    BY <1>1, ParentsComeFirst DEF ParentsOf
  <2>2. RecursionInto(V, TgtIds, base, step)
    BY DEF RecursionInto
  <2>3. QED
    BY <2>1, <2>2, ParentRecursion
<1>6. \A k \in TgtIds : f[k] = IF tgt[k].parent = None THEN {k} ELSE {k} \cup f[tgt[k].parent]
  <2>1. \A k \in TgtIds : tgt[k].parent # None => tgt[k].parent \in TgtIds
    BY ParentsComeFirst
  <2>2. QED
    BY <1>1, <1>2, <1>3, <1>4, <1>5, <2>1
<1>7. f = [k \in TgtIds |-> IF tgt[k].parent = None THEN {k} ELSE {k} \cup f[tgt[k].parent]]
  BY <1>6
<1>8. Ancestors = CHOOSE g : g = [k \in TgtIds |-> IF tgt[k].parent = None THEN {k}
                                                   ELSE {k} \cup g[tgt[k].parent]]
  BY DEF Ancestors
<1>9. Ancestors = [k \in TgtIds |-> IF tgt[k].parent = None THEN {k}
                                    ELSE {k} \cup Ancestors[tgt[k].parent]]
  BY <1>7, <1>8
<1>10. QED
  BY <1>9

\* isExpired of a TGT is that of its own policy or of its parent.
LEMMA TgtExpiredOf ==
    ASSUME TypeInv, TicketsInv, NEW i \in TgtIds
    PROVE  TgtExpired[i] =
              (\/ tgt[i].old
               \/ tgt[i].idle
               \/ tgt[i].parent # None /\ TgtExpired[tgt[i].parent])
<1>1. PICK parent : parent = [k \in TgtIds |-> tgt[k].parent]
  OBVIOUS
<1>2. \A k \in TgtIds : tgt[k].old \in BOOLEAN /\ tgt[k].idle \in BOOLEAN
  BY DEF TypeInv, TicketsTypeOK, TgtRecord
<1>3. PICK base \in [TgtIds -> BOOLEAN] : base = [k \in TgtIds |-> tgt[k].old \/ tgt[k].idle]
  BY <1>2
<1>4. PICK step \in [TgtIds \X BOOLEAN -> BOOLEAN] :
         step = [p \in TgtIds \X BOOLEAN |-> tgt[p[1]].old \/ tgt[p[1]].idle \/ p[2]]
  <2>1. [p \in TgtIds \X BOOLEAN |-> tgt[p[1]].old \/ tgt[p[1]].idle \/ p[2]]
           \in [TgtIds \X BOOLEAN -> BOOLEAN]
    BY <1>2
  <2>2. QED
    BY <2>1
<1>5. PICK f \in [TgtIds -> BOOLEAN] : \A k \in TgtIds :
         f[k] = IF parent[k] = None THEN base[k] ELSE step[<<k, f[parent[k]]>>]
  <2>1. ParentsOf(TgtIds, parent, None)
    BY <1>1, ParentsComeFirst DEF ParentsOf
  <2>2. RecursionInto(BOOLEAN, TgtIds, base, step)
    BY DEF RecursionInto
  <2>3. QED
    BY <2>1, <2>2, ParentRecursion
<1>6. \A k \in TgtIds :
         f[k] = (tgt[k].old \/ tgt[k].idle \/ (tgt[k].parent # None /\ f[tgt[k].parent]))
  <2>1. \A k \in TgtIds : tgt[k].parent # None => tgt[k].parent \in TgtIds
    BY ParentsComeFirst
  <2>2. QED
    BY <1>1, <1>2, <1>3, <1>4, <1>5, <2>1
<1>7. f = [k \in TgtIds |-> \/ tgt[k].old
                            \/ tgt[k].idle
                            \/ tgt[k].parent # None /\ f[tgt[k].parent]]
  BY <1>6
<1>8. TgtExpired = CHOOSE g : g = [k \in TgtIds |-> \/ tgt[k].old
                                                    \/ tgt[k].idle
                                                    \/ tgt[k].parent # None /\ g[tgt[k].parent]]
  BY DEF TgtExpired
<1>9. TgtExpired = [k \in TgtIds |-> \/ tgt[k].old
                                     \/ tgt[k].idle
                                     \/ tgt[k].parent # None /\ TgtExpired[tgt[k].parent]]
  BY <1>7, <1>8
<1>10. QED
  BY <1>9

\* getChainedAuthentications puts the ticket's own authentication before those of its parent.
LEMMA ChainedOf ==
    ASSUME TypeInv, TicketsInv, NEW i \in TgtIds
    PROVE  Chained[i] = IF tgt[i].parent = None THEN <<tgt[i].user>>
                        ELSE <<tgt[i].user>> \o Chained[tgt[i].parent]
<1>1. PICK parent : parent = [k \in TgtIds |-> tgt[k].parent]
  OBVIOUS
<1>2. PICK V : V = Seq(Users \cup Proxies \cup {None})
  OBVIOUS
<1>3. \A k \in TgtIds : <<tgt[k].user>> \in V /\ \A s \in V : <<tgt[k].user>> \o s \in V
  <2>1. \A k \in TgtIds : tgt[k].user \in Users \cup Proxies \cup {None}
    BY DEF TypeInv, TicketsTypeOK, TgtRecord
  <2>2. QED
    BY <1>2, <2>1
<1>4. PICK base \in [TgtIds -> V] : base = [k \in TgtIds |-> <<tgt[k].user>>]
  BY <1>3
<1>5. PICK step \in [TgtIds \X V -> V] : step = [p \in TgtIds \X V |-> <<tgt[p[1]].user>> \o p[2]]
  <2>1. [p \in TgtIds \X V |-> <<tgt[p[1]].user>> \o p[2]] \in [TgtIds \X V -> V]
    BY <1>3
  <2>2. QED
    BY <2>1
<1>6. PICK f \in [TgtIds -> V] : \A k \in TgtIds :
         f[k] = IF parent[k] = None THEN base[k] ELSE step[<<k, f[parent[k]]>>]
  <2>1. ParentsOf(TgtIds, parent, None)
    BY <1>1, ParentsComeFirst DEF ParentsOf
  <2>2. RecursionInto(V, TgtIds, base, step)
    BY DEF RecursionInto
  <2>3. QED
    BY <2>1, <2>2, ParentRecursion
<1>7. \A k \in TgtIds : f[k] = IF tgt[k].parent = None THEN <<tgt[k].user>>
                               ELSE <<tgt[k].user>> \o f[tgt[k].parent]
  <2>1. \A k \in TgtIds : tgt[k].parent # None => tgt[k].parent \in TgtIds
    BY ParentsComeFirst
  <2>2. \A k \in TgtIds, s \in V : step[<<k, s>>] = <<tgt[k].user>> \o s
    BY <1>5
  <2>3. \A k \in TgtIds : tgt[k].parent # None => f[tgt[k].parent] \in V
    BY <2>1
  <2>4. ASSUME NEW k \in TgtIds
        PROVE  f[k] = IF tgt[k].parent = None THEN <<tgt[k].user>> ELSE <<tgt[k].user>> \o f[tgt[k].parent]
    <3>1. parent[k] = tgt[k].parent /\ base[k] = <<tgt[k].user>>
      BY <1>1, <1>4
    <3>2. f[k] = IF parent[k] = None THEN base[k] ELSE step[<<k, f[parent[k]]>>]
      BY <1>6
    <3>3. parent[k] # None => step[<<k, f[parent[k]]>>] = <<tgt[k].user>> \o f[parent[k]]
      BY <2>2, <2>3, <3>1
    <3>4. QED
      BY <3>1, <3>2, <3>3
  <2>5. QED
    BY <2>4
<1>8. f = [k \in TgtIds |-> IF tgt[k].parent = None THEN <<tgt[k].user>>
                            ELSE <<tgt[k].user>> \o f[tgt[k].parent]]
  BY <1>7
<1>9. Chained = CHOOSE g : g = [k \in TgtIds |-> IF tgt[k].parent = None THEN <<tgt[k].user>>
                                                 ELSE <<tgt[k].user>> \o g[tgt[k].parent]]
  BY DEF Chained
<1>10. Chained = [k \in TgtIds |-> IF tgt[k].parent = None THEN <<tgt[k].user>>
                                   ELSE <<tgt[k].user>> \o Chained[tgt[k].parent]]
  BY <1>8, <1>9
<1>11. QED
  BY <1>10

\* The chain of a delegated ticket has more than one authentication, and the last one is that of
\* the login that its oldest ancestor was created for.
LEMMA ChainsEnd ==
    ASSUME TypeInv, TicketsInv, NEW i \in TgtIds
    PROVE  /\ tgt[i].parent # None => Len(Chained[i]) > 1
           /\ i < tgts => \E k \in Ancestors[i] :
                 k \in TgtIds /\ k < tgts /\ tgt[k].parent = None /\ tgt[k].user = Principal(i)
<1> DEFINE W == Users \cup Proxies \cup {None}
           Ends(k) == /\ Chained[k] \in Seq(W) /\ Len(Chained[k]) > 0
                      /\ \E l \in Ancestors[k] :
                            /\ l \in TgtIds /\ l <= k /\ tgt[l].parent = None
                            /\ tgt[l].user = Chained[k][Len(Chained[k])]
           S == {k \in TgtIds : Ends(k)}
<1>1. \A k \in TgtIds : tgt[k].user \in W
  BY DEF TypeInv, TicketsTypeOK, TgtRecord
<1>2. ASSUME NEW k \in TgtIds, tgt[k].parent = None
      PROVE  Ends(k)
  <2>1. Chained[k] = <<tgt[k].user>> /\ Ancestors[k] = {k}
    BY <1>2, ChainedOf, AncestorsOf
  <2>2. QED
    BY <1>1, <1>2, <2>1, ParentsComeFirst
<1>3. ASSUME NEW k \in TgtIds, NEW p \in TgtIds, tgt[k].parent = p, p # None, p < k, Ends(p)
      PROVE  Ends(k) /\ Len(Chained[k]) > 1
  <2>1. Chained[k] = <<tgt[k].user>> \o Chained[p] /\ Ancestors[k] = {k} \cup Ancestors[p]
    BY <1>3, ChainedOf, AncestorsOf
  <2>2. PICK s \in Seq(W) : s = Chained[p] /\ Len(s) > 0
    BY <1>3
  <2>3. PICK c : c = <<tgt[k].user>> \o s
    OBVIOUS
  <2>4. c \in Seq(W) /\ Len(c) > 1 /\ c[Len(c)] = s[Len(s)]
    BY <1>1, <2>2, <2>3
  <2>5. PICK l \in Ancestors[p] : /\ l \in TgtIds /\ l <= p /\ tgt[l].parent = None
                                  /\ tgt[l].user = s[Len(s)]
    BY <1>3, <2>2
  <2>6. l <= k
    BY <1>3, <2>5, ParentsComeFirst
  <2>7. QED
    BY <2>1, <2>2, <2>3, <2>4, <2>5, <2>6
<1>4. \A k \in TgtIds : k \in S
  <2>1. PICK parent : parent = [k \in TgtIds |-> tgt[k].parent]
    OBVIOUS
  <2>2. ParentsOf(TgtIds, parent, None)
    BY <2>1, ParentsComeFirst DEF ParentsOf
  <2>3. ASSUME NEW k \in TgtIds, parent[k] # None => parent[k] \in S
        PROVE  k \in S
    <3>1. CASE tgt[k].parent = None
      BY <1>2, <3>1
    <3>2. CASE tgt[k].parent # None
      <4>1. tgt[k].parent \in S /\ tgt[k].parent \in TgtIds /\ tgt[k].parent < k
        BY <2>1, <2>3, <3>2, ParentsComeFirst
      <4>2. QED
        BY <1>3, <3>2, <4>1
    <3>3. QED
      BY <3>1, <3>2
  <2> HIDE DEF S
  <2>4. QED
    BY <2>2, <2>3, ParentInduction
<1>5. tgt[i].parent # None => Len(Chained[i]) > 1
  BY <1>3, <1>4, ParentsComeFirst
<1>6. i < tgts => \E k \in Ancestors[i] :
         k \in TgtIds /\ k < tgts /\ tgt[k].parent = None /\ tgt[k].user = Principal(i)
  <2>1. PICK l \in Ancestors[i] : /\ l \in TgtIds /\ l <= i /\ tgt[l].parent = None
                                  /\ tgt[l].user = Chained[i][Len(Chained[i])]
    BY <1>4
  <2>2. i < tgts => l < tgts
    BY <2>1, ParentsComeFirst DEF TypeInv, TicketsTypeOK
  <2>3. QED
    BY <2>1, <2>2 DEF Principal
<1>7. QED
  BY <1>5, <1>6

\* A ticket whose hard window has passed expires everything that descends from it.
LEMMA OldExpires ==
    ASSUME TypeInv, TicketsInv, NEW i \in TgtIds, NEW k \in Ancestors[i], tgt[k].old
    PROVE  TgtExpired[i]
<1> DEFINE S == {l \in TgtIds : k \in Ancestors[l] => TgtExpired[l]}
<1>1. PICK parent : parent = [l \in TgtIds |-> tgt[l].parent]
  OBVIOUS
<1>2. ParentsOf(TgtIds, parent, None)
  BY <1>1, ParentsComeFirst DEF ParentsOf
<1>3. ASSUME NEW l \in TgtIds, parent[l] # None => parent[l] \in S
      PROVE  l \in S
  <2>1. CASE tgt[l].parent = None
    <3>1. Ancestors[l] = {l}
      BY <2>1, AncestorsOf
    <3>2. k = l => TgtExpired[l]
      BY TgtExpiredOf
    <3>3. QED
      BY <3>1, <3>2
  <2>2. CASE tgt[l].parent # None
    BY <1>1, <1>3, <2>2, AncestorsOf, TgtExpiredOf
  <2>3. QED
    BY <2>1, <2>2
<1> HIDE DEF S
<1>4. \A l \in TgtIds : l \in S
  BY <1>2, <1>3, ParentInduction
<1>5. QED
  BY <1>4 DEF S


-----------------------------------------------------------------------------
(* What a step does to the tickets, the registries and the assertions      *)

\* Of a ticket that exists only the use and the expiry change, and these only one way.
SameTgt(i) ==
    /\ tgt'[i].parent = tgt[i].parent /\ tgt'[i].via = tgt[i].via /\ tgt'[i].user = tgt[i].user
    /\ tgt[i].used => tgt'[i].used
    /\ tgt[i].old => tgt'[i].old

SameSt(j) ==
    /\ st'[j].tgt = st[j].tgt /\ st'[j].service = st[j].service
    /\ st'[j].fromNewLogin = st[j].fromNewLogin /\ st'[j].facts = st[j].facts

CreatesTgt ==
    \/ \E user \in Users : CreateTicketGrantingTicket(user)
    \/ \E t \in Threads, proxy \in Proxies : DelegateGrants(t, proxy)

StepKind ==
    /\ CreatesTgt \/ (/\ tgts' = tgts /\ tgtRegistry' \subseteq tgtRegistry
                      /\ \A i \in TgtIds : SameTgt(i))
    /\ (\E t \in Threads : GrantCreates(t)) \/ (sts' = sts /\ \A j \in StIds : SameSt(j))
    /\ (\E t \in Threads : GrantStores(t)) \/ stRegistry' \subseteq stRegistry
    /\ (\E t \in Threads : ValidateUses(t)) \/ assertions' = assertions

\* Every step is of one kind or another.
LEMMA StepKinds ==
    ASSUME TypeInv, [Next]_vars
    PROVE  StepKind
<1> USE CasAssumption, ActorsAreThreadsOrCleaner
<1>1. /\ (\A i \in TgtIds : tgt' = tgt => SameTgt(i))
      /\ (\A j \in StIds : st' = st => SameSt(j))
  BY DEF SameTgt, SameSt
<1>2. \A i \in TgtIds : tgt[i] \in TgtRecord
  BY DEF TypeInv, TicketsTypeOK
<1>3. \A j \in StIds : st[j] \in StRecord
  BY DEF TypeInv, TicketsTypeOK
<1>4. tgt = [i \in TgtIds |-> tgt[i]] /\ st = [j \in StIds |-> st[j]]
  BY DEF TypeInv, TicketsTypeOK
<1> USE DEF tickets, registries, others
<1>5. ASSUME NEW user \in Users, CreateTicketGrantingTicket(user)
      PROVE  StepKind
  BY <1>1, <1>5 DEF CreateTicketGrantingTicket, CreatesTgt, StepKind
<1>6. ASSUME NEW i \in TgtIds, GrantFindsExpired(i)
      PROVE  StepKind
  BY <1>1, <1>6 DEF GrantFindsExpired, StepKind
<1>7. ASSUME NEW t \in Threads, GrantCreates(t)
      PROVE  StepKind
  BY <1>1, <1>7 DEF GrantCreates, StepKind
<1>8. ASSUME NEW t \in Threads, GrantRecords(t)
      PROVE  StepKind
  <2>1. PICK services : tgt' = [tgt EXCEPT ![call[t].tgt].used = TRUE, ![call[t].tgt].idle = FALSE,
                                           ![call[t].tgt].services = services]
    BY <1>8 DEF GrantRecords
  <2>2. \A i \in TgtIds : i # call[t].tgt => tgt'[i] = tgt[i]
    BY <1>4, <2>1
  <2>3. call[t].tgt \in TgtIds
    BY <1>8 DEF GrantRecords, TypeInv, CallsInv
  <2>4. tgt'[call[t].tgt] = [tgt[call[t].tgt] EXCEPT !.used = TRUE, !.idle = FALSE, !.services = services]
    BY <1>4, <2>1, <2>3
  <2>5. SameTgt(call[t].tgt)
    BY <1>2, <2>3, <2>4 DEF SameTgt, TgtRecord
  <2>6. \A i \in TgtIds : SameTgt(i)
    BY <2>2, <2>5 DEF SameTgt
  <2>7. QED
    BY <1>1, <1>8, <2>6 DEF GrantRecords, StepKind
<1>9. ASSUME NEW t \in Threads, GrantStores(t)
      PROVE  StepKind
  BY <1>1, <1>9 DEF GrantStores, StepKind
<1>10. ASSUME NEW t \in Threads, ValidateUses(t)
       PROVE  StepKind
  <2>1. PICK k : k = call[t].st
    OBVIOUS
  <2>2. PICK n : n = st[k].countOfUses + 1
    OBVIOUS
  <2>3. st' = [st EXCEPT ![k] = [st[k] EXCEPT !.countOfUses = n, !.idle = FALSE]]
    BY <1>10, <2>1, <2>2 DEF ValidateUses
  <2>4. \A j \in StIds : j # k => st'[j] = st[j]
    BY <1>4, <2>3
  <2>5. k \in StIds => SameSt(k)
    <3>1. k \in StIds => st'[k] = [st[k] EXCEPT !.countOfUses = n, !.idle = FALSE]
      BY <1>4, <2>3
    <3>2. QED
      BY <1>3, <3>1 DEF SameSt, StRecord
  <2>6. \A j \in StIds : SameSt(j)
    BY <2>4, <2>5 DEF SameSt
  <2>7. QED
    BY <1>1, <1>10, <2>6 DEF ValidateUses, StepKind
<1>11. ASSUME NEW t \in Threads, NEW proxy \in Proxies, DelegateGrants(t, proxy)
       PROVE  StepKind
  <2>1. \A j \in StIds : st'[j] = st[j] \/ st'[j] = [st[j] EXCEPT !.grantedTicketAlready = TRUE]
    BY <1>4, <1>11 DEF DelegateGrants
  <2>2. \A j \in StIds : SameSt(j)
    <3>1. \A s \in StRecord :
             LET used == [s EXCEPT !.grantedTicketAlready = TRUE]
             IN  /\ used.tgt = s.tgt /\ used.service = s.service
                 /\ used.fromNewLogin = s.fromNewLogin /\ used.facts = s.facts
      BY DEF StRecord
    <3>2. QED
      BY <1>3, <2>1, <3>1, Zenon DEF SameSt
  <2>3. QED
    BY <1>11, <2>2 DEF DelegateGrants, CreatesTgt, StepKind
<1>12. ASSUME NEW i \in TgtIds, tgt' = [tgt EXCEPT ![i].expired = TRUE],
              UNCHANGED <<st, tgts, sts, registries, others>>
       PROVE  StepKind
  <2>1. \A k \in TgtIds : SameTgt(k)
    BY <1>2, <1>4, <1>12 DEF SameTgt, TgtRecord
  <2>2. QED
    BY <1>1, <1>12, <2>1 DEF StepKind
<1>13. ASSUME NEW i \in TgtIds, TgtTimesOut(i)
       PROVE  StepKind
  <2>1. CASE tgt' = [tgt EXCEPT ![i].idle = TRUE]
    <3>1. \A k \in TgtIds : SameTgt(k)
      BY <1>2, <1>4, <2>1 DEF SameTgt, TgtRecord
    <3>2. QED
      BY <1>1, <1>13, <3>1 DEF TgtTimesOut, StepKind
  <2>2. CASE tgt' = [tgt EXCEPT ![i].old = TRUE]
    <3>1. \A k \in TgtIds : SameTgt(k)
      BY <1>2, <1>4, <2>2 DEF SameTgt, TgtRecord
    <3>2. QED
      BY <1>1, <1>13, <3>1 DEF TgtTimesOut, StepKind
  <2>3. QED
    BY <1>13, <2>1, <2>2 DEF TgtTimesOut
<1>14. ASSUME NEW j \in StIds, StTimesOut(j)
       PROVE  StepKind
  <2>1. \A k \in StIds : SameSt(k)
    BY <1>3, <1>4, <1>14 DEF StTimesOut, SameSt, StRecord
  <2>2. QED
    BY <1>1, <1>14, <2>1 DEF StTimesOut, StepKind
<1>15. ASSUME UNCHANGED tickets, tgtRegistry' \subseteq tgtRegistry, stRegistry' \subseteq stRegistry,
              UNCHANGED assertions
       PROVE  StepKind
  BY <1>1, <1>15 DEF StepKind
<1>16. ASSUME NEW t \in Threads, Grant(t)
       PROVE  StepKind
  BY <1>7, <1>8, <1>9, <1>15, <1>16 DEF Grant, GrantBegins
<1>17. ASSUME NEW t \in Threads, Validate(t)
       PROVE  StepKind
  BY <1>10, <1>15, <1>17 DEF Validate, ValidateBegins, ValidateLocks, ValidateReturns
<1>18. ASSUME NEW t \in Threads, Delegate(t)
       PROVE  StepKind
  BY <1>11, <1>15, <1>18 DEF Delegate, DelegateBegins, DelegateChecks
<1>19. ASSUME NEW a \in Actors, LogOut(a)
       PROVE  StepKind
  BY <1>15, <1>19 DEF LogOut, EnumerationFails, LogOutOfService, LogOutEnds, DeletesTgt
<1>20. ASSUME NEW t \in Threads, NEW i \in TgtIds, DestroyBegins(t, i)
       PROVE  StepKind
  BY <1>12, <1>20 DEF DestroyBegins
<1>21. ASSUME Clean
       PROVE  StepKind
  <2>1. CASE CleanScans \/ CleanEnds
    BY <1>15, <2>1 DEF CleanScans, CleanEnds
  <2>2. CASE \E i \in TgtIds : CleanExpiresTgt(i)
    BY <1>12, <2>2 DEF CleanExpiresTgt
  <2>3. CASE \E j \in StIds : CleanDeletesSt(j)
    BY <1>15, <2>3 DEF CleanDeletesSt
  <2>4. QED
    BY <1>19, <1>21, <2>1, <2>2, <2>3 DEF Clean
<1>22. CASE UNCHANGED vars
  BY <1>15, <1>22 DEF vars
<1>23. QED
  BY <1>5, <1>6, <1>13, <1>14, <1>16, <1>17, <1>18, <1>19, <1>20, <1>21, <1>22 DEF Next

\* The place of a thread, and what it goes on with.
SameCall(t) ==
    /\ call'[t].pc = call[t].pc /\ call'[t].tgt = call[t].tgt /\ call'[t].st = call[t].st
    /\ call'[t].service = call[t].service /\ call'[t].facts = call[t].facts

Busy == {"grant_new", "grant_record", "grant_store", "validate_lock", "validate_use",
         "delegate_check", "delegate_grant"}

CallStep(t) ==
    \/ SameCall(t)
    \/ call[t].pc # "grant_record" /\ call'[t].pc \notin Busy
    \/ \E i \in TgtIds, service \in Services : GrantBegins(t, i, service)
    \/ GrantCreates(t)
    \/ GrantRecords(t)
    \/ \E j \in StIds, service \in Services : ValidateBegins(t, j, service)
    \/ ValidateLocks(t)
    \/ \E j \in StIds : DelegateBegins(t, j)
    \/ DelegateChecks(t)

\* A thread is where it was, or it has taken a step of its own.
LEMMA CallSteps ==
    ASSUME TypeInv, [Next]_vars, NEW u \in Threads
    PROVE  CallStep(u)
<1> USE CasAssumption, ActorsAreThreadsOrCleaner
<1>1. call[u] \in CallRecord /\ u \in Actors /\ u # Cleaner /\ call \in [Actors -> CallRecord]
  BY DEF TypeInv, TicketsTypeOK
<1>2. ASSUME call'[u] = call[u]
      PROVE  CallStep(u)
  BY <1>2 DEF CallStep, SameCall
<1>3. ASSUME NEW a \in Actors, a # u, NEW c, call' = [call EXCEPT ![a] = c]
      PROVE  CallStep(u)
  BY <1>1, <1>2, <1>3
<1>4. ASSUME NEW t \in Threads, Grant(t)
      PROVE  CallStep(u)
  <2>1. CASE t = u
    BY <1>1, <1>4, <2>1 DEF Grant, GrantStores, Return, NoCall, Busy, CallStep
  <2>2. CASE t # u
    BY <1>1, <1>2, <1>4, <2>2 DEF Grant, GrantBegins, GrantCreates, GrantRecords, GrantStores, Return
  <2>3. QED
    BY <2>1, <2>2
<1>5. ASSUME NEW t \in Threads, Validate(t)
      PROVE  CallStep(u)
  <2>1. CASE t = u
    <3>1. CASE ValidateUses(u)
      BY <1>1, <3>1 DEF ValidateUses, Finally, NoCall, Busy, CallStep, CallRecord
    <3>2. CASE ValidateReturns(u)
      BY <1>1, <3>2 DEF ValidateReturns, Return, NoCall, Busy, CallStep
    <3>3. QED
      BY <1>5, <2>1, <3>1, <3>2 DEF Validate, CallStep
  <2>2. CASE t # u
    BY <1>1, <1>2, <1>5, <2>2 DEF Validate, ValidateBegins, ValidateLocks, ValidateUses, ValidateReturns,
                                  Return
  <2>3. QED
    BY <2>1, <2>2
<1>6. ASSUME NEW t \in Threads, Delegate(t)
      PROVE  CallStep(u)
  <2>1. CASE t = u
    BY <1>1, <1>6, <2>1 DEF Delegate, DelegateGrants, Return, NoCall, Busy, CallStep
  <2>2. CASE t # u
    BY <1>1, <1>2, <1>6, <2>2 DEF Delegate, DelegateBegins, DelegateChecks, DelegateGrants, Return
  <2>3. QED
    BY <2>1, <2>2
<1>7. ASSUME NEW a \in Actors, LogOut(a)
      PROVE  CallStep(u)
  <2>1. CASE a = u
    <3>1. call[u].pc \in {"logout", "delete"}
      BY <1>7, <2>1 DEF LogOut, EnumerationFails, LogOutOfService, LogOutEnds, DeletesTgt
    <3>2. call' = [call EXCEPT ![u] = NoCall] => CallStep(u)
      BY <1>1, <3>1 DEF NoCall, Busy, CallStep
    <3>3. ASSUME NEW todo, call' = [call EXCEPT ![u].todo = todo]
          PROVE  CallStep(u)
      BY <1>1, <3>3 DEF CallRecord, CallStep, SameCall
    <3>4. call' = [call EXCEPT ![u].pc = "delete"] => CallStep(u)
      BY <1>1, <3>1 DEF CallRecord, Busy, CallStep
    <3>5. CASE DeletesTgt(u)
      BY <1>1, <3>2, <3>5 DEF DeletesTgt, Return
    <3>6. QED
      BY <1>1, <1>7, <2>1, <3>2, <3>3, <3>4, <3>5
      DEF LogOut, EnumerationFails, LogOutOfService, LogOutEnds, Throw, Return
  <2>2. CASE a # u
    <3>1. CASE DeletesTgt(a)
      BY <1>1, <1>2, <2>2, <3>1 DEF DeletesTgt, Return
    <3>2. QED
      BY <1>1, <1>2, <1>7, <2>2, <3>1
      DEF LogOut, EnumerationFails, LogOutOfService, LogOutEnds, Throw, Return
  <2>3. QED
    BY <2>1, <2>2
<1>8. ASSUME NEW t \in Threads, NEW i \in TgtIds, DestroyBegins(t, i)
      PROVE  CallStep(u)
  <2>1. CASE t = u
    BY <1>1, <1>8, <2>1 DEF DestroyBegins, NoCall, Busy, CallStep
  <2>2. CASE t # u
    BY <1>1, <1>2, <1>8, <2>2 DEF DestroyBegins
  <2>3. QED
    BY <2>1, <2>2
<1>9. ASSUME Clean
      PROVE  CallStep(u)
  BY <1>1, <1>2, <1>7, <1>9 DEF Clean, CleanScans, CleanExpiresTgt, CleanDeletesSt, CleanEnds, Return
<1>10. ASSUME UNCHANGED call
       PROVE  CallStep(u)
  BY <1>2, <1>10
<1>11. QED
  BY <1>4, <1>5, <1>6, <1>7, <1>8, <1>9, <1>10
  DEF Next, CreateTicketGrantingTicket, GrantFindsExpired, TgtTimesOut, StTimesOut, vars


-----------------------------------------------------------------------------
(* Tickets stay what they were created as                                  *)

\* No step takes a ticket away or makes it another's.
LEMMA TicketsKept ==
    ASSUME TypeInv, StepKind
    PROVE  /\ tgts <= tgts' /\ \A i \in TgtIds : i < tgts => SameTgt(i)
           /\ sts <= sts' /\ \A j \in StIds : j < sts => SameSt(j)
<1>1. tgts \in Nat /\ sts \in Nat
  BY CasAssumption DEF TypeInv, TicketsTypeOK
<1>2. tgt = [i \in TgtIds |-> tgt[i]] /\ st = [j \in StIds |-> st[j]]
  BY DEF TypeInv, TicketsTypeOK
<1>3. ASSUME CreatesTgt
      PROVE  tgts' = tgts + 1 /\ \A i \in TgtIds : i < tgts => tgt'[i] = tgt[i]
  <2>1. tgts < MaxTgts /\ tgts' = tgts + 1 /\ \E new : tgt' = [tgt EXCEPT ![tgts] = new]
    <3>1. ASSUME NEW user \in Users, CreateTicketGrantingTicket(user)
          PROVE  tgts < MaxTgts /\ tgts' = tgts + 1 /\ \E new : tgt' = [tgt EXCEPT ![tgts] = new]
      BY <3>1 DEF CreateTicketGrantingTicket
    <3>2. ASSUME NEW t \in Threads, NEW proxy \in Proxies, DelegateGrants(t, proxy)
          PROVE  tgts < MaxTgts /\ tgts' = tgts + 1 /\ \E new : tgt' = [tgt EXCEPT ![tgts] = new]
      BY <3>2 DEF DelegateGrants
    <3>3. QED
      BY <1>3, <3>1, <3>2 DEF CreatesTgt
  <2>2. \A i \in TgtIds : i < tgts => i # tgts
    BY CasAssumption DEF TgtIds
  <2>3. QED
    BY <1>2, <2>1, <2>2
<1>4. tgts <= tgts' /\ \A i \in TgtIds : i < tgts => SameTgt(i)
  BY <1>1, <1>3 DEF StepKind, SameTgt
<1>5. ASSUME NEW t \in Threads, GrantCreates(t)
      PROVE  sts' = sts + 1 /\ \A j \in StIds : j < sts => st'[j] = st[j]
  BY <1>1, <1>2, <1>5 DEF GrantCreates
<1>6. sts <= sts' /\ \A j \in StIds : j < sts => SameSt(j)
  BY <1>1, <1>5 DEF StepKind, SameSt
<1>7. QED
  BY <1>4, <1>6

\* What a grant begins with is in the registry; what it creates is numbered next.
LEMMA TicketsStep ==
    ASSUME TypeInv, TypeInv', TicketsInv, [Next]_vars
    PROVE  TicketsInv'
<1>1. StepKind /\ \A u \in Threads : CallStep(u)
  BY StepKinds, CallSteps
<1>2. /\ tgts <= tgts' /\ \A i \in TgtIds : i < tgts => SameTgt(i)
      /\ sts <= sts' /\ \A j \in StIds : j < sts => SameSt(j)
  BY <1>1, TicketsKept
<1>3. /\ tgts \in Nat /\ sts \in Nat /\ tgts' \in Nat /\ sts' \in Nat
      /\ TgtIds \subseteq Nat /\ StIds \subseteq Nat /\ None \notin TgtIds
      /\ tgt = [i \in TgtIds |-> tgt[i]] /\ st = [j \in StIds |-> st[j]]
  BY CasAssumption DEF TypeInv, TicketsTypeOK, TgtIds, StIds
<1>4. ASSUME NEW j \in StIds, j < sts
       PROVE  j < sts' /\ st'[j].tgt = st[j].tgt /\ (MayDelegate(j) => MayDelegate(j)')
  <2>1. j \in Nat
    BY <1>3
  <2>2. QED
    BY <1>2, <1>3, <1>4, <2>1 DEF SameSt, MayDelegate
<1>5. ASSUME NEW i \in TgtIds, tgt[i].parent # None,
              tgt'[i].parent = tgt[i].parent, tgt'[i].via = tgt[i].via
       PROVE  DelegatedVia(i, tgt[i].via)'
  <2>1. DelegatedVia(i, tgt[i].via)
    BY <1>5 DEF TicketsInv
  <2>2. QED
    BY <1>4, <1>5, <2>1 DEF DelegatedVia, MayDelegate
<1>6. ASSUME NEW i \in TgtIds
      PROVE  /\ tgt'[i].parent # None => i < tgts' /\ tgt'[i].parent < i /\ DelegatedVia(i, tgt[i].via)'
             /\ i < tgts' /\ tgt'[i].parent = None => tgt'[i].user \in Users
  <2>1. ASSUME NEW user \in Users, CreateTicketGrantingTicket(user)
        PROVE  /\ tgt'[i].parent # None => i < tgts' /\ tgt'[i].parent < i /\ DelegatedVia(i, tgt[i].via)'
               /\ i < tgts' /\ tgt'[i].parent = None => tgt'[i].user \in Users
    <3>1. /\ tgts' = tgts + 1
          /\ i # tgts => tgt'[i] = tgt[i]
          /\ i = tgts => tgt'[i].parent = None /\ tgt'[i].user = user
      BY <1>3, <2>1 DEF CreateTicketGrantingTicket, NewTgt
    <3>2. QED
      BY <1>3, <1>5, <3>1 DEF TicketsInv
  <2>2. ASSUME NEW t \in Threads, NEW proxy \in Proxies, DelegateGrants(t, proxy)
        PROVE  /\ tgt'[i].parent # None => i < tgts' /\ tgt'[i].parent < i /\ DelegatedVia(i, tgt[i].via)'
               /\ i < tgts' /\ tgt'[i].parent = None => tgt'[i].user \in Users
    <3>1. PICK j \in StIds : j = call[t].st /\ j < sts /\ MayDelegate(j)
      BY <2>2 DEF DelegateGrants, TypeInv, CallsInv, TicketsInv, Actors
    <3>2. st[j].tgt \in TgtIds /\ st[j].tgt < tgts
      BY <3>1 DEF TicketsInv
    <3>3. /\ tgts' = tgts + 1
          /\ i # tgts => tgt'[i] = tgt[i]
          /\ i = tgts => tgt'[i].parent = st[j].tgt /\ tgt'[i].via = j
      BY <1>3, <2>2, <3>1 DEF DelegateGrants, NewTgt
    <3>4. CASE i = tgts
      <4>1. tgt'[i].parent # None /\ i < tgts' /\ tgt'[i].parent < i
        BY <1>3, <3>2, <3>3, <3>4
      <4>2. DelegatedVia(i, tgt[i].via)'
        BY <1>4, <3>1, <3>3, <3>4 DEF DelegatedVia
      <4>3. QED
        BY <4>1, <4>2
    <3>5. CASE i # tgts
      BY <1>3, <1>5, <3>3, <3>5 DEF TicketsInv
    <3>6. QED
      BY <3>4, <3>5
  <2>3. CASE tgts' = tgts /\ \A k \in TgtIds : SameTgt(k)
    BY <1>5, <2>3 DEF TicketsInv, SameTgt
  <2>4. QED
    BY <1>1, <2>1, <2>2, <2>3 DEF StepKind, CreatesTgt
<1>7. ASSUME NEW j \in StIds, j < sts'
      PROVE  st'[j].tgt \in TgtIds /\ st'[j].tgt < tgts'
  <2>1. CASE j < sts
    BY <1>2, <1>3, <2>1 DEF TicketsInv, SameSt
  <2>2. CASE ~(j < sts)
    <3>1. PICK t \in Threads : GrantCreates(t)
      BY <1>1, <1>7, <2>2 DEF StepKind
    <3>2. call[t].tgt \in TgtIds /\ call[t].tgt < tgts
      BY <3>1 DEF GrantCreates, TypeInv, CallsInv, TicketsInv, Actors
    <3>3. sts' = sts + 1 /\ tgts' = tgts /\ st'[sts].tgt = call[t].tgt
      <4>1. sts \in StIds
        BY <1>3, <3>1, CasAssumption DEF GrantCreates, StIds
      <4>2. QED
        BY <1>3, <3>1, <4>1 DEF GrantCreates, NewSt
    <3>4. QED
      BY <1>3, <1>7, <2>2, <3>2, <3>3
  <2>3. QED
    BY <2>1, <2>2
<1>8. ASSUME NEW j \in StIds, st'[j].tgt # None
       PROVE  j < sts'
  <2>1. CASE sts' = sts /\ \A k \in StIds : SameSt(k)
    BY <1>3, <1>8, <2>1 DEF TicketsInv, SameSt
  <2>2. ASSUME NEW t \in Threads, GrantCreates(t)
        PROVE  j < sts'
    <3>1. sts' = sts + 1 /\ (j # sts => st'[j] = st[j])
      BY <1>3, <2>2 DEF GrantCreates
    <3>2. j # sts => j < sts
      BY <1>8, <3>1 DEF TicketsInv
    <3>3. j \in Nat
      BY <1>3
    <3>4. QED
      BY <1>3, <3>1, <3>2, <3>3
  <2>3. QED
    BY <1>1, <2>1, <2>2 DEF StepKind
<1>9. \A i \in tgtRegistry' : i < tgts'
  <2>1. CreatesTgt => tgtRegistry' = tgtRegistry \cup {tgts} /\ tgts' = tgts + 1
    BY DEF CreatesTgt, CreateTicketGrantingTicket, DelegateGrants
  <2>2. \A i \in tgtRegistry : i \in Nat /\ i < tgts
    BY <1>3 DEF TicketsInv, TypeInv, TicketsTypeOK
  <2>3. QED
    BY <1>1, <1>2, <1>3, <2>1, <2>2 DEF StepKind
<1>10. \A j \in stRegistry' : j < sts'
  <2>1. ASSUME NEW t \in Threads, GrantStores(t)
        PROVE  stRegistry' = stRegistry \cup {call[t].st} /\ call[t].st \in StIds /\ call[t].st < sts
    BY <2>1 DEF GrantStores, TypeInv, CallsInv, TicketsInv, Actors
  <2>2. \A j \in stRegistry : j \in Nat /\ j < sts
    BY <1>3 DEF TicketsInv, TypeInv, TicketsTypeOK
  <2>3. QED
    BY <1>1, <1>2, <1>3, <2>1, <2>2 DEF StepKind
<1>11. ASSUME NEW u \in Threads
      PROVE  /\ call'[u].pc \in {"grant_new", "grant_record"} => call'[u].tgt < tgts'
             /\ call'[u].pc \in Busy \ {"grant_new"} => call'[u].st < sts'
  <2>1. /\ call[u] \in CallRecord /\ u \in DOMAIN call
        /\ call[u].pc \in {"grant_new", "grant_record"} => call[u].tgt \in Nat /\ call[u].tgt < tgts
        /\ call[u].pc \in Busy \ {"grant_new"} => call[u].st \in Nat /\ call[u].st < sts
    BY <1>3 DEF TicketsInv, TypeInv, TicketsTypeOK, CallsInv, Actors, Busy
  <2>2. CASE SameCall(u)
    BY <1>2, <1>3, <2>1, <2>2 DEF SameCall
  <2>3. CASE call'[u].pc \notin Busy
    BY <2>3 DEF Busy
  <2>4. ASSUME NEW i \in TgtIds, NEW service \in Services, GrantBegins(u, i, service)
        PROVE  call'[u].pc = "grant_new" /\ call'[u].tgt < tgts'
    <3>1. i < tgts /\ tgts' = tgts
      BY <2>4 DEF GrantBegins, TicketsInv, tickets
    <3>2. call'[u].pc = "grant_new" /\ call'[u].tgt = i
      BY <2>1, <2>4 DEF GrantBegins, NoCall
    <3>3. QED
      BY <3>1, <3>2
  <2>5. CASE GrantCreates(u)
    <3>1. /\ call'[u].pc = "grant_record" /\ call'[u].st = sts /\ call'[u].tgt = call[u].tgt
          /\ sts' = sts + 1
      BY <2>1, <2>5 DEF GrantCreates, CallRecord
    <3>2. QED
      BY <1>2, <1>3, <2>1, <2>5, <3>1 DEF GrantCreates
  <2>6. CASE GrantRecords(u)
    BY <1>2, <1>3, <2>1, <2>6 DEF GrantRecords, CallRecord, Busy
  <2>7. ASSUME NEW j \in StIds, NEW service \in Services, ValidateBegins(u, j, service)
        PROVE  call'[u].pc = "validate_lock" /\ call'[u].st < sts'
    <3>1. j < sts /\ sts' = sts
      BY <2>7 DEF ValidateBegins, TicketsInv, tickets
    <3>2. call'[u].pc = "validate_lock" /\ call'[u].st = j
      BY <2>1, <2>7 DEF ValidateBegins, NoCall
    <3>3. QED
      BY <3>1, <3>2
  <2>8. CASE ValidateLocks(u)
    <3>1. call'[u].pc \in {"validate_finally", "validate_use"} /\ call'[u].st = call[u].st
      BY <2>8, AtTheLock DEF TypeInv, TicketsTypeOK
    <3>2. call[u].pc = "validate_lock" /\ sts' = sts
      BY <2>8 DEF ValidateLocks, tickets
    <3>3. QED
      BY <2>1, <3>1, <3>2 DEF Busy
  <2>9. ASSUME NEW j \in StIds, DelegateBegins(u, j)
        PROVE  call'[u].pc = "delegate_check" /\ call'[u].st < sts'
    <3>1. j < sts /\ sts' = sts
      BY <2>9 DEF DelegateBegins, TicketsInv, tickets
    <3>2. call'[u].pc = "delegate_check" /\ call'[u].st = j
      BY <2>1, <2>9 DEF DelegateBegins, NoCall
    <3>3. QED
      BY <3>1, <3>2
  <2>10. CASE DelegateChecks(u)
    BY <1>2, <1>3, <2>1, <2>10 DEF DelegateChecks, Return, NoCall, CallRecord, Busy
  <2>11. QED
    BY <1>1, <2>2, <2>3, <2>4, <2>5, <2>6, <2>7, <2>8, <2>9, <2>10 DEF CallStep
<1>12. ASSUME NEW u \in Threads, call'[u].pc \in {"delegate_check", "delegate_grant"}
       PROVE  MayDelegate(call[u].st)'
  <2>1. u \in DOMAIN call /\ call[u] \in CallRecord
    BY DEF TypeInv, TicketsTypeOK, Actors
  <2>2. ASSUME call[u].pc \in {"delegate_check", "delegate_grant"}, call'[u].st = call[u].st
        PROVE  MayDelegate(call[u].st)'
    <3>1. call[u].st \in StIds /\ call[u].st < sts /\ MayDelegate(call[u].st)
      BY <2>2 DEF TicketsInv, TypeInv, CallsInv, Actors
    <3>2. QED
      BY <1>4, <2>2, <3>1 DEF MayDelegate
  <2>3. CASE SameCall(u)
    BY <1>12, <2>2, <2>3 DEF SameCall
  <2>4. ASSUME NEW j \in StIds, DelegateBegins(u, j)
        PROVE  MayDelegate(call[u].st)'
    <3>1. call'[u].st = j /\ st' = st /\ MayDelegate(j)
      BY <2>1, <2>4 DEF DelegateBegins, NoCall, MayDelegate, tickets
    <3>2. QED
      BY <3>1 DEF MayDelegate
  <2>5. CASE DelegateChecks(u)
    <3>1. call[u].pc = "delegate_check" /\ call'[u].st = call[u].st
      BY <1>12, <2>1, <2>5 DEF DelegateChecks, Return, NoCall, CallRecord
    <3>2. QED
      BY <2>2, <3>1
  <2>6. CASE call'[u].pc \notin Busy
    BY <1>12, <2>6 DEF Busy
  <2>7. \A i \in TgtIds, service \in Services : ~GrantBegins(u, i, service)
    BY <1>12, <2>1 DEF GrantBegins, NoCall
  <2>8. ~GrantCreates(u)
    <3>1. GrantCreates(u) => call'[u].pc = "grant_record"
      BY <2>1 DEF GrantCreates, CallRecord
    <3>2. QED
      BY <1>12, <3>1
  <2>9. ~GrantRecords(u)
    <3>1. GrantRecords(u) => call' = [call EXCEPT ![u].pc = "grant_store"]
      BY DEF GrantRecords
    <3>2. GrantRecords(u) => call'[u].pc = "grant_store"
      BY <2>1, <3>1 DEF CallRecord
    <3>3. QED
      BY <1>12, <3>2
  <2>10. /\ \A j \in StIds, service \in Services : ~ValidateBegins(u, j, service)
        /\ ~ValidateLocks(u)
    <3>1. \A j \in StIds, service \in Services :
             ValidateBegins(u, j, service) => call'[u].pc = "validate_lock"
      BY <2>1 DEF ValidateBegins, NoCall
    <3>2. \A pc : [call[u] EXCEPT !.pc = pc].pc = pc
      BY <2>1 DEF CallRecord
    <3>3. ValidateLocks(u) => call'[u].pc \in {"validate_finally", "validate_use"}
      BY <2>1, <3>2 DEF ValidateLocks, Finally, NoCall
    <3>4. QED
      BY <1>12, <3>1, <3>3
  <2>11. QED
    BY <1>1, <1>12, <2>3, <2>4, <2>5, <2>6, <2>7, <2>10, <2>9, <2>8 DEF CallStep
<1>13. QED
  BY <1>6, <1>7, <1>9, <1>10, <1>11, <1>8, <1>12 DEF TicketsInv, Busy

\* The recursion of Ancestors holds before and after a step.
LEMMA AncestorsUnfold ==
    TypeInv /\ TicketsInv => \A l \in TgtIds :
        Ancestors[l] = IF tgt[l].parent = None THEN {l} ELSE {l} \cup Ancestors[tgt[l].parent]
BY AncestorsOf

\* The same after a step.
LEMMA AncestorsUnfoldNext ==
    TypeInv' /\ TicketsInv' => \A l \in TgtIds :
        Ancestors'[l] = IF tgt'[l].parent = None THEN {l} ELSE {l} \cup Ancestors'[tgt'[l].parent]
<1>1. (TypeInv /\ TicketsInv => \A l \in TgtIds :
        Ancestors[l] = IF tgt[l].parent = None THEN {l} ELSE {l} \cup Ancestors[tgt[l].parent])'
  BY AncestorsUnfold, PTL
<1>2. QED
  BY <1>1

\* The ancestors of a ticket are tickets.
LEMMA AncestorsBefore ==
    ASSUME TypeInv, TicketsInv, NEW i \in TgtIds
    PROVE  Ancestors[i] \subseteq TgtIds
<1> DEFINE S == {l \in TgtIds : Ancestors[l] \subseteq TgtIds}
<1>1. PICK parent : parent = [l \in TgtIds |-> tgt[l].parent]
  OBVIOUS
<1>2. ParentsOf(TgtIds, parent, None)
  BY <1>1, ParentsComeFirst DEF ParentsOf
<1>3. ASSUME NEW l \in TgtIds, parent[l] # None => parent[l] \in S
      PROVE  l \in S
  <2>1. CASE tgt[l].parent = None
    BY <2>1, AncestorsOf
  <2>2. CASE tgt[l].parent # None
    <3>1. tgt[l].parent \in TgtIds /\ Ancestors[tgt[l].parent] \subseteq TgtIds
      BY <1>1, <1>3, <2>2
    <3>2. Ancestors[l] = {l} \cup Ancestors[tgt[l].parent]
      BY <2>2, AncestorsOf
    <3>3. QED
      BY <3>1, <3>2
  <2>3. QED
    BY <2>1, <2>2
<1> HIDE DEF S
<1>4. \A l \in TgtIds : l \in S
  BY <1>2, <1>3, ParentInduction
<1>5. QED
  BY <1>4 DEF S

\* The ancestors of a ticket are no younger than it, and stay its ancestors.
LEMMA AncestorsStay ==
    ASSUME TypeInv, TypeInv', TicketsInv, TicketsInv', StepKind, NEW i \in TgtIds, i < tgts
    PROVE  Ancestors'[i] = Ancestors[i] /\ \A k \in Ancestors[i] : k \in TgtIds /\ k < tgts
<1> DEFINE S == {l \in TgtIds : l < tgts => /\ Ancestors'[l] = Ancestors[l]
                                            /\ \A k \in Ancestors[l] : k \in TgtIds /\ k < tgts}
<1>1. PICK parent : parent = [l \in TgtIds |-> tgt[l].parent]
  OBVIOUS
<1>2. ParentsOf(TgtIds, parent, None)
  BY <1>1, ParentsComeFirst DEF ParentsOf
<1>3. ASSUME NEW l \in TgtIds, parent[l] # None => parent[l] \in S
      PROVE  l \in S
  <2> SUFFICES ASSUME l < tgts
               PROVE  /\ Ancestors'[l] = Ancestors[l]
                      /\ \A k \in Ancestors[l] : k \in TgtIds /\ k < tgts
    OBVIOUS
  <2>1. tgt'[l].parent = tgt[l].parent
    BY TicketsKept DEF SameTgt
  <2>2. /\ Ancestors[l] = IF tgt[l].parent = None THEN {l} ELSE {l} \cup Ancestors[tgt[l].parent]
        /\ Ancestors'[l] = IF tgt[l].parent = None THEN {l} ELSE {l} \cup Ancestors'[tgt[l].parent]
    BY <2>1, AncestorsUnfold, AncestorsUnfoldNext
  <2>3. CASE tgt[l].parent = None
    BY <2>2, <2>3
  <2>4. CASE tgt[l].parent # None
    <3>1. tgt[l].parent \in S
      BY <1>1, <1>3, <2>4
    <3>2. tgt[l].parent < tgts
      <4>1. tgt[l].parent \in TgtIds /\ tgt[l].parent < l
        BY <2>4, ParentsComeFirst
      <4>2. TgtIds \subseteq Nat /\ tgts \in Nat
        BY CasAssumption DEF TgtIds, TypeInv, TicketsTypeOK
      <4>3. QED
        BY <4>1, <4>2
    <3>3. QED
      BY <2>2, <2>4, <3>1, <3>2
  <2>5. QED
    BY <2>3, <2>4
<1> HIDE DEF S
<1>4. \A l \in TgtIds : l \in S
  BY <1>2, <1>3, ParentInduction
<1>5. QED
  BY <1>4 DEF S


-----------------------------------------------------------------------------
(* Grants                                                                  *)

\* A thread gets to a place by the step that leads there.
LEMMA CallPlaces ==
    ASSUME TypeInv, NEW u \in Threads, CallStep(u), ~SameCall(u)
    PROVE  /\ call'[u].pc = "grant_new" =>
                 \E i \in TgtIds, service \in Services : GrantBegins(u, i, service)
           /\ call'[u].pc = "grant_record" => GrantCreates(u)
           /\ call'[u].pc = "validate_lock" =>
                 \E j \in StIds, service \in Services : ValidateBegins(u, j, service)
           /\ call'[u].pc = "validate_use" => ValidateLocks(u)
<1> USE ActorsAreThreadsOrCleaner
<1>1. u \in DOMAIN call /\ call[u] \in CallRecord
  BY DEF TypeInv, TicketsTypeOK
<1>2. ASSUME NEW i \in TgtIds, NEW service \in Services, GrantBegins(u, i, service)
      PROVE  call'[u].pc = "grant_new"
  BY <1>1, <1>2 DEF GrantBegins, NoCall
<1>3. CASE GrantCreates(u)
  <2>1. call'[u].pc = "grant_record"
    BY <1>1, <1>3 DEF GrantCreates, CallRecord
  <2>2. QED
    BY <1>3, <2>1
<1>4. CASE GrantRecords(u)
  <2>1. call'[u].pc = "grant_store"
    BY <1>1, <1>4 DEF GrantRecords, CallRecord
  <2>2. QED
    BY <2>1
<1>5. ASSUME NEW j \in StIds, NEW service \in Services, ValidateBegins(u, j, service)
      PROVE  call'[u].pc = "validate_lock"
  BY <1>1, <1>5 DEF ValidateBegins, NoCall
<1>6. CASE ValidateLocks(u)
  <2>1. call'[u].pc \in {"validate_finally", "validate_use"}
    BY <1>6, AtTheLock DEF TypeInv, TicketsTypeOK
  <2>2. QED
    BY <1>6, <2>1
<1>7. ASSUME NEW j \in StIds, DelegateBegins(u, j)
      PROVE  call'[u].pc = "delegate_check"
  BY <1>1, <1>7 DEF DelegateBegins, NoCall
<1>8. CASE DelegateChecks(u)
  <2>1. call'[u].pc \in {"idle", "delegate_grant"}
    BY <1>1, <1>8 DEF DelegateChecks, Return, NoCall, CallRecord
  <2>2. QED
    BY <2>1
<1>9. QED
  BY <1>2, <1>3, <1>4, <1>5, <1>6, <1>7, <1>8 DEF CallStep, Busy

\* A ST that was returned to its caller was created, and no grant is about to record it.
LEMMA GrantedIsRecorded ==
    ASSUME TypeInv, TicketsInv, GrantsInv, NEW i \in TgtIds, Granted(i)
    PROVE  tgt[i].used
<1>1. PICK j \in StIds : st[j].tgt = i /\ \A t \in Threads : ~(call[t].pc = "grant_record" /\ call[t].st = j)
  BY DEF Granted
<1>2. j < sts
  BY <1>1, CasAssumption DEF TicketsInv
<1>3. QED
  BY <1>1, <1>2 DEF GrantsInv

\* What a grant in progress goes on with is allowed, and what it knows of the TGT stays true.
LEMMA GrantingStep ==
    ASSUME TypeInv, TypeInv', TicketsInv, TicketsInv', GrantsInv, StepKind,
           NEW u \in Threads, CallStep(u), call'[u].pc = "grant_new"
    PROVE  /\ MayGrant(call[u].tgt, call[u].service)'
           /\ "used" \in call'[u].facts => tgt'[call'[u].tgt].used /\ call'[u].service \in SsoEnabled
<1> USE ActorsAreThreadsOrCleaner
<1>1. u \in DOMAIN call /\ call[u] \in CallRecord
  BY DEF TypeInv, TicketsTypeOK
<1>2. CASE SameCall(u)
  <2>1. call[u].pc = "grant_new" /\ call[u].tgt \in TgtIds /\ call[u].tgt < tgts
    BY <1>2 DEF SameCall, TypeInv, CallsInv, TicketsInv
  <2>2. SameTgt(call[u].tgt)
    BY <2>1, TicketsKept
  <2>3. QED
    BY <1>2, <2>1, <2>2 DEF SameCall, SameTgt, GrantsInv, MayGrant
<1>3. ASSUME NEW i \in TgtIds, NEW service \in Services, GrantBegins(u, i, service)
      PROVE  /\ MayGrant(call[u].tgt, call[u].service)'
             /\ "used" \in call'[u].facts => tgt'[call'[u].tgt].used /\ call'[u].service \in SsoEnabled
  <2>1. /\ call'[u].tgt = i /\ call'[u].service = service
        /\ call'[u].facts = {f \in {"used"} : Granted(i)} /\ tgt' = tgt
    BY <1>1, <1>3 DEF GrantBegins, NoCall, tickets
  <2>2. tgt[i].parent # None => Len(Chained[i]) > 1
    BY ChainsEnd
  <2>3. MayGrant(i, service)
    BY <1>3, <2>2 DEF GrantBegins, MayGrant
  <2>4. Granted(i) => tgt[i].used /\ service \in SsoEnabled
    BY <1>3, GrantedIsRecorded DEF GrantBegins
  <2>5. QED
    BY <2>1, <2>3, <2>4 DEF MayGrant
<1>4. QED
  BY <1>2, <1>3, CallPlaces

\* The ST that a grant is about to record is one of its TGT.
LEMMA RecordingStep ==
    ASSUME TypeInv, TypeInv', TicketsInv, TicketsInv', GrantsInv, StepKind,
           NEW u \in Threads, CallStep(u), call'[u].pc = "grant_record"
    PROVE  st'[call'[u].st].tgt = call'[u].tgt
<1> USE ActorsAreThreadsOrCleaner
<1>1. u \in DOMAIN call /\ call[u] \in CallRecord
  BY DEF TypeInv, TicketsTypeOK
<1>2. CASE SameCall(u)
  <2>1. call[u].pc = "grant_record" /\ call[u].st \in StIds /\ call[u].st < sts
    BY <1>2 DEF SameCall, TypeInv, CallsInv, TicketsInv
  <2>2. SameSt(call[u].st)
    BY <2>1, TicketsKept
  <2>3. QED
    BY <1>2, <2>1, <2>2 DEF SameCall, SameSt, GrantsInv
<1>3. CASE GrantCreates(u)
  <2>1. call'[u].st = sts /\ call'[u].tgt = call[u].tgt
    BY <1>1, <1>3 DEF GrantCreates, CallRecord
  <2>2. sts \in DOMAIN st
    BY <1>3, CasAssumption DEF GrantCreates, StIds, TypeInv, TicketsTypeOK
  <2>3. st'[sts].tgt = call[u].tgt
    BY <1>3, <2>2 DEF GrantCreates, NewSt
  <2>4. QED
    BY <2>1, <2>3
<1>4. QED
  BY <1>2, <1>3, CallPlaces

\* A grant of an ST either is still about to record it, or has counted the use of the TGT.
LEMMA RecordedStep ==
    ASSUME TypeInv, TypeInv', TicketsInv, TicketsInv', GrantsInv, StepKind, NEW j \in StIds, j < sts,
           NEW u \in Threads, CallStep(u), call[u].pc = "grant_record", call[u].st = j
    PROVE  tgt'[st[j].tgt].used \/ (call'[u].pc = "grant_record" /\ call'[u].st = j)
<1> USE ActorsAreThreadsOrCleaner
<1>1. call[u].tgt = st[j].tgt /\ call[u].tgt \in TgtIds
  BY DEF GrantsInv, TypeInv, CallsInv
<1>2. CASE SameCall(u)
  BY <1>2 DEF SameCall
<1>3. CASE GrantRecords(u)
  <2>1. PICK services : tgt' = [tgt EXCEPT ![call[u].tgt].used = TRUE, ![call[u].tgt].idle = FALSE,
                                           ![call[u].tgt].services = services]
    BY <1>3 DEF GrantRecords
  <2>2. PICK i \in TgtIds : i = call[u].tgt
    BY <1>1
  <2>3. tgt[i] \in TgtRecord /\ i \in DOMAIN tgt
    BY DEF TypeInv, TicketsTypeOK
  <2>4. tgt'[i] = [tgt[i] EXCEPT !.used = TRUE, !.idle = FALSE, !.services = services]
    BY <2>1, <2>2, <2>3
  <2>5. tgt'[i].used
    BY <2>3, <2>4 DEF TgtRecord
  <2>6. QED
    BY <1>1, <2>2, <2>5
<1>4. QED
  BY <1>2, <1>3
  DEF CallStep, GrantBegins, GrantCreates, ValidateBegins, ValidateLocks, DelegateBegins,
      DelegateChecks

\* What a step that creates an ST makes it of.
LEMMA StCreated ==
    ASSUME TypeInv, TypeInv', TicketsInv, StepKind, NEW j \in StIds, j < sts', ~(j < sts)
    PROVE  \E t \in Threads :
              /\ call[t].pc = "grant_new" /\ call[t].tgt \in TgtIds /\ tgt' = tgt
              /\ call'[t].pc = "grant_record" /\ call'[t].st = j
              /\ st'[j].tgt = call[t].tgt /\ st'[j].service = call[t].service
              /\ st'[j].fromNewLogin = ~tgt[call[t].tgt].used /\ st'[j].facts = call[t].facts
<1> USE ActorsAreThreadsOrCleaner
<1>1. PICK t \in Threads : GrantCreates(t)
  BY DEF StepKind
<1>2. sts \in Nat /\ j \in Nat /\ sts' = sts + 1
  BY <1>1, CasAssumption DEF GrantCreates, TypeInv, TicketsTypeOK, StIds
<1>3. j = sts
  BY <1>2
<1>4. j \in DOMAIN st /\ t \in DOMAIN call /\ call[t] \in CallRecord
  BY DEF TypeInv, TicketsTypeOK
<1>5. st'[j] = NewSt(call[t].tgt, call[t].service, ~tgt[call[t].tgt].used, call[t].facts)
  BY <1>1, <1>3, <1>4 DEF GrantCreates
<1>6. call'[t].pc = "grant_record" /\ call'[t].st = j
  BY <1>1, <1>3, <1>4 DEF GrantCreates, CallRecord
<1>7. call[t].pc = "grant_new" /\ tgt' = tgt /\ call[t].tgt \in TgtIds
  BY <1>1 DEF GrantCreates, TypeInv, CallsInv
<1>8. QED
  BY <1>5, <1>6, <1>7 DEF NewSt

\* Grants are allowed, and the use of the TGT is counted before the ST is returned.
LEMMA GrantsStep ==
    ASSUME TypeInv, TypeInv', TicketsInv, TicketsInv', GrantsInv, [Next]_vars
    PROVE  GrantsInv'
<1>1. StepKind /\ \A u \in Threads : CallStep(u)
  BY StepKinds, CallSteps
<1>2. ASSUME NEW u \in Threads, call'[u].pc = "grant_new"
      PROVE  /\ MayGrant(call[u].tgt, call[u].service)'
             /\ "used" \in call'[u].facts => tgt'[call'[u].tgt].used /\ call'[u].service \in SsoEnabled
  BY <1>1, <1>2, GrantingStep
<1>3. ASSUME NEW u \in Threads, call'[u].pc = "grant_record"
      PROVE  st'[call'[u].st].tgt = call'[u].tgt
  BY <1>1, <1>3, RecordingStep
<1>4. ASSUME NEW j \in StIds, j < sts'
      PROVE  /\ MayGrant(st[j].tgt, st[j].service)'
             /\ \/ tgt'[st'[j].tgt].used
                \/ \E t \in Threads : call'[t].pc = "grant_record" /\ call'[t].st = j
  <2>1. CASE j < sts
    <3>1. SameSt(j) /\ SameTgt(st[j].tgt)
      BY <1>1, <2>1, TicketsKept DEF TicketsInv
    <3>2. MayGrant(st[j].tgt, st[j].service)
      BY <2>1 DEF GrantsInv
    <3>3. MayGrant(st[j].tgt, st[j].service)'
      BY <3>1, <3>2 DEF MayGrant, SameSt, SameTgt
    <3>4. CASE tgt[st[j].tgt].used
      BY <3>1, <3>3, <3>4 DEF SameSt, SameTgt
    <3>5. CASE ~tgt[st[j].tgt].used
      <4>1. PICK t \in Threads : call[t].pc = "grant_record" /\ call[t].st = j
        BY <2>1, <3>5 DEF GrantsInv
      <4>2. tgt'[st[j].tgt].used \/ (call'[t].pc = "grant_record" /\ call'[t].st = j)
        BY <1>1, <2>1, <4>1, RecordedStep
      <4>3. QED
        BY <3>1, <3>3, <4>2 DEF SameSt
    <3>6. QED
      BY <3>4, <3>5
  <2>2. CASE ~(j < sts)
    <3>1. PICK t \in Threads :
             /\ call[t].pc = "grant_new" /\ call[t].tgt \in TgtIds /\ tgt' = tgt
             /\ call'[t].pc = "grant_record" /\ call'[t].st = j
             /\ st'[j].tgt = call[t].tgt /\ st'[j].service = call[t].service
      BY <1>1, <1>4, <2>2, StCreated
    <3>2. MayGrant(call[t].tgt, call[t].service)
      BY <3>1 DEF GrantsInv
    <3>3. QED
      BY <3>1, <3>2 DEF MayGrant
  <2>3. QED
    BY <2>1, <2>2
<1>5. QED
  BY <1>2, <1>3, <1>4 DEF GrantsInv

\* A new ST says of its TGT what the grant in progress knew of it.
LEMMA SsoStep ==
    ASSUME TypeInv, TypeInv', TicketsInv, GrantsInv, SsoIsVisible, [Next]_vars
    PROVE  SsoIsVisible'
<1>1. StepKind
  BY StepKinds
<1>2. ASSUME NEW j \in StIds, j < sts', "used" \in st'[j].facts
      PROVE  ~st'[j].fromNewLogin /\ st'[j].service \in SsoEnabled
  <2>1. CASE j < sts
    BY <1>1, <1>2, <2>1, TicketsKept DEF SsoIsVisible, SameSt
  <2>2. CASE ~(j < sts)
    <3>1. PICK t \in Threads :
             /\ call[t].pc = "grant_new" /\ call[t].tgt \in TgtIds
             /\ st'[j].service = call[t].service
             /\ st'[j].fromNewLogin = ~tgt[call[t].tgt].used /\ st'[j].facts = call[t].facts
      BY <1>1, <1>2, <2>2, StCreated
    <3>2. "used" \in call[t].facts => tgt[call[t].tgt].used /\ call[t].service \in SsoEnabled
      BY <3>1 DEF GrantsInv
    <3>3. QED
      BY <1>2, <3>1, <3>2
  <2>3. QED
    BY <2>1, <2>2
<1>3. QED
  BY <1>2 DEF SsoIsVisible


-----------------------------------------------------------------------------
(* Validations                                                             *)

\* A hard window that has passed stays passed, of whatever ticket the chain goes through.
LEMMA OldStays ==
    ASSUME TypeInv, TypeInv', TicketsInv, TicketsInv', StepKind, NEW i \in TgtIds, i < tgts,
           NEW k \in Ancestors[i], tgt[k].old
    PROVE  k \in Ancestors'[i] /\ tgt'[k].old
<1>1. Ancestors'[i] = Ancestors[i] /\ k \in TgtIds /\ k < tgts
  BY AncestorsStay
<1>2. SameTgt(k)
  BY <1>1, TicketsKept
<1>3. QED
  BY <1>1, <1>2 DEF SameTgt

\* A validation on its way to the lock knows of the hard window what is still true.
LEMMA WaitingStep ==
    ASSUME TypeInv, TypeInv', TicketsInv, TicketsInv', ValidationsInv, StepKind,
           NEW u \in Threads, CallStep(u), call'[u].pc = "validate_lock"
    PROVE  /\ call'[u].service \in Enabled
           /\ "old" \in call'[u].facts => \E k \in Ancestors'[st'[call'[u].st].tgt] : tgt'[k].old
<1> USE ActorsAreThreadsOrCleaner
<1>1. u \in DOMAIN call
  BY DEF TypeInv, TicketsTypeOK
<1>2. CASE SameCall(u)
  <2>1. call[u].pc = "validate_lock" /\ call[u].st \in StIds /\ call[u].st < sts
    BY <1>2 DEF SameCall, TypeInv, CallsInv, TicketsInv
  <2>2. SameSt(call[u].st) /\ st[call[u].st].tgt \in TgtIds /\ st[call[u].st].tgt < tgts
    BY <2>1, TicketsKept DEF TicketsInv
  <2>3. call[u].service \in Enabled
    BY <2>1 DEF ValidationsInv
  <2>4. ASSUME "old" \in call[u].facts
        PROVE  \E k \in Ancestors'[st[call[u].st].tgt] : tgt'[k].old
    <3>1. PICK k \in Ancestors[st[call[u].st].tgt] : tgt[k].old
      BY <2>1, <2>4 DEF ValidationsInv
    <3>2. QED
      BY <2>2, <3>1, OldStays
  <2>5. QED
    BY <1>2, <2>2, <2>3, <2>4 DEF SameCall, SameSt
<1>3. ASSUME NEW j \in StIds, NEW service \in Services, ValidateBegins(u, j, service)
      PROVE  /\ call'[u].service \in Enabled
             /\ "old" \in call'[u].facts => \E k \in Ancestors'[st'[call'[u].st].tgt] : tgt'[k].old
  <2>1. /\ call'[u].st = j /\ call'[u].service = service /\ call'[u].facts = HistoryOf(st[j].tgt)
        /\ service \in Enabled /\ st' = st
    BY <1>1, <1>3 DEF ValidateBegins, NoCall, tickets
  <2>2. st[j].tgt \in TgtIds /\ st[j].tgt < tgts
    BY <1>3 DEF ValidateBegins, TicketsInv
  <2>3. ASSUME "old" \in HistoryOf(st[j].tgt)
        PROVE  \E k \in Ancestors'[st[j].tgt] : tgt'[k].old
    <3>1. PICK k \in Ancestors[st[j].tgt] : tgt[k].old
      BY <2>3 DEF HistoryOf
    <3>2. QED
      BY <2>2, <3>1, OldStays
  <2>4. QED
    BY <2>1, <2>3
<1>4. QED
  BY <1>2, <1>3, CallPlaces

\* A validation that knows that the hard window has passed does not get into the lock.
LEMMA UsingStep ==
    ASSUME TypeInv, TypeInv', TicketsInv, ValidationsInv,
           NEW u \in Threads, CallStep(u), call'[u].pc = "validate_use"
    PROVE  call'[u].service \in Enabled /\ "old" \notin call'[u].facts
<1> USE ActorsAreThreadsOrCleaner
<1>1. u \in DOMAIN call /\ call[u] \in CallRecord
  BY DEF TypeInv, TicketsTypeOK
<1>2. CASE SameCall(u)
  BY <1>2 DEF SameCall, ValidationsInv
<1>3. CASE ValidateLocks(u)
  <2>1. call[u].pc = "validate_lock" /\ call[u].st \in StIds /\ call[u].st < sts
    BY <1>3 DEF ValidateLocks, TypeInv, CallsInv, TicketsInv
  <2>2. call'[u].service = call[u].service /\ call'[u].facts = call[u].facts
    BY <1>3, AtTheLock DEF TypeInv, TicketsTypeOK
  <2>3. ~StExpired(call[u].st)
    BY <1>3, AtTheLock DEF TypeInv, TicketsTypeOK
  <2>4. st[call[u].st].tgt \in TgtIds
    BY <2>1 DEF TicketsInv
  <2>5. \A k \in Ancestors[st[call[u].st].tgt] : ~tgt[k].old
    BY <2>3, <2>4, OldExpires DEF StExpired
  <2>6. QED
    BY <2>1, <2>2, <2>5 DEF ValidationsInv
<1>4. QED
  BY <1>2, <1>3, CallPlaces

\* What a validation knows of the hard window of the login is true, and keeps it out.
LEMMA ValidationsStep ==
    ASSUME TypeInv, TypeInv', TicketsInv, TicketsInv', ValidationsInv, [Next]_vars
    PROVE  ValidationsInv'
<1>1. StepKind /\ \A u \in Threads : CallStep(u)
  BY StepKinds, CallSteps
<1>2. ASSUME NEW u \in Threads, call'[u].pc = "validate_lock"
      PROVE  /\ call'[u].service \in Enabled
             /\ "old" \in call'[u].facts => \E k \in Ancestors'[st'[call'[u].st].tgt] : tgt'[k].old
  BY <1>1, <1>2, WaitingStep
<1>3. ASSUME NEW u \in Threads, call'[u].pc = "validate_use"
      PROVE  call'[u].service \in Enabled /\ "old" \notin call'[u].facts
  BY <1>1, <1>3, UsingStep
<1>4. QED
  BY <1>2, <1>3 DEF ValidationsInv

-----------------------------------------------------------------------------
(* Assertions                                                              *)

\* What is asserted of a ticket, and of the tickets it descends from.
TrueAssertion(x) ==
    /\ x \in AssertionRecord /\ x.st < sts
    /\ x.service = st[x.st].service /\ x.service \in Enabled
    /\ \E i \in Ancestors[st[x.st].tgt] : tgt[i].parent = None /\ tgt[i].user = x.user
    /\ x.user \in Users
    /\ tgt[st[x.st].tgt].parent # None => x.service \in AllowedToProxy
    /\ \A k \in Ancestors[st[x.st].tgt] : tgt[k].parent # None =>
          st[tgt[k].via].tgt = tgt[k].parent /\ st[tgt[k].via].service \in AllowedToProxy
    /\ "old" \notin x.facts

\* An assertion that is true stays true.
LEMMA TrueStays ==
    ASSUME TypeInv, TypeInv', TicketsInv, TicketsInv', StepKind, NEW x, TrueAssertion(x)
    PROVE  TrueAssertion(x)'
<1>1. x.st \in StIds /\ x.st < sts
  BY DEF TrueAssertion, AssertionRecord
<1>2. /\ SameSt(x.st) /\ sts <= sts' /\ sts \in Nat /\ sts' \in Nat /\ x.st \in Nat
      /\ st[x.st].tgt \in TgtIds /\ st[x.st].tgt < tgts
  BY <1>1, TicketsKept, CasAssumption DEF TicketsInv, TypeInv, TicketsTypeOK, StIds
<1>3. PICK i \in Ancestors[st[x.st].tgt] : tgt[i].parent = None /\ tgt[i].user = x.user
  BY DEF TrueAssertion
<1>4. Ancestors'[st[x.st].tgt] = Ancestors[st[x.st].tgt] /\ i \in TgtIds /\ i < tgts
  BY <1>2, AncestorsStay
<1>5. SameTgt(i) /\ SameTgt(st[x.st].tgt)
  BY <1>2, <1>4, TicketsKept
<1>6. x.st < sts'
  BY <1>1, <1>2
<1>7. i \in Ancestors'[st'[x.st].tgt] /\ tgt'[i].parent = None /\ tgt'[i].user = x.user
  BY <1>2, <1>3, <1>4, <1>5 DEF SameSt, SameTgt
<1>8. x.service = st'[x.st].service /\ x.service \in Enabled
  BY <1>2 DEF SameSt, TrueAssertion
<1>9. tgt'[st'[x.st].tgt].parent # None => x.service \in AllowedToProxy
  BY <1>2, <1>5 DEF SameSt, SameTgt, TrueAssertion
<1>10. ASSUME NEW k \in Ancestors'[st'[x.st].tgt], tgt'[k].parent # None
       PROVE  st'[tgt'[k].via].tgt = tgt'[k].parent /\ st'[tgt'[k].via].service \in AllowedToProxy
  <2>1. k \in Ancestors[st[x.st].tgt] /\ k \in TgtIds /\ SameTgt(k)
    BY <1>2, <1>10, AncestorsStay, TicketsKept DEF SameSt
  <2>2. DelegatedVia(k, tgt[k].via)
    BY <1>10, <2>1 DEF SameTgt, TicketsInv
  <2>3. SameSt(tgt[k].via)
    BY <2>2, TicketsKept DEF DelegatedVia
  <2>4. QED
    BY <2>1, <2>2, <2>3 DEF SameTgt, SameSt, DelegatedVia, MayDelegate
<1>11. QED
  BY <1>6, <1>7, <1>8, <1>9, <1>10 DEF TrueAssertion

\* A validation that is inside the lock asserts what is true.
LEMMA TrueWhenMade ==
    ASSUME TypeInv, TicketsInv, GrantsInv, ValidationsInv, NEW t \in Threads,
           call[t].pc = "validate_use", call[t].service = st[call[t].st].service,
           NEW x, x = [st |-> call[t].st, service |-> call[t].service,
                       user |-> Principal(st[call[t].st].tgt), facts |-> call[t].facts]
    PROVE  TrueAssertion(x)
<1> USE ActorsAreThreadsOrCleaner
<1>1. PICK j \in StIds : j = call[t].st /\ j < sts
  BY DEF TypeInv, CallsInv, TicketsInv
<1>2. PICK i \in TgtIds : i = st[j].tgt /\ i < tgts
  BY <1>1 DEF TicketsInv
<1>3. PICK k \in Ancestors[i] : k \in TgtIds /\ k < tgts /\ tgt[k].parent = None
                                /\ tgt[k].user = Principal(i)
  BY <1>2, ChainsEnd
<1>4. Principal(i) \in Users
  BY <1>3 DEF TicketsInv
<1>5. call[t].service \in Enabled /\ "old" \notin call[t].facts /\ call[t].facts \in SUBSET Facts
  BY DEF ValidationsInv, TypeInv, TicketsTypeOK, CallRecord
<1>6. tgt[i].parent # None => call[t].service \in AllowedToProxy
  BY <1>1, <1>2 DEF GrantsInv, MayGrant
<1>7. /\ x.st = j /\ x.service = call[t].service /\ x.user = Principal(i) /\ x.facts = call[t].facts
      /\ x \in AssertionRecord
  BY <1>1, <1>2, <1>4, <1>5, CasAssumption DEF AssertionRecord
<1>8. \A l \in Ancestors[i] : tgt[l].parent # None =>
         st[tgt[l].via].tgt = tgt[l].parent /\ st[tgt[l].via].service \in AllowedToProxy
  BY <1>2, AncestorsBefore DEF TicketsInv, DelegatedVia, MayDelegate
<1>9. QED
  BY <1>1, <1>2, <1>3, <1>4, <1>5, <1>6, <1>7, <1>8 DEF TrueAssertion

\* The history of assertions is one of true assertions.
LEMMA AssertionsStep ==
    ASSUME TypeInv, TypeInv', TicketsInv, TicketsInv', GrantsInv, ValidationsInv, [Next]_vars,
           \A x \in assertions : TrueAssertion(x)
    PROVE  (\A x \in assertions : TrueAssertion(x))'
<1>1. StepKind
  BY StepKinds
<1>2. \A x \in assertions : TrueAssertion(x)'
  BY <1>1, TrueStays
<1>3. ASSUME NEW t \in Threads, ValidateUses(t)
      PROVE  \A x \in assertions' : TrueAssertion(x)'
  <2>1. PICK x : x = [st |-> call[t].st, service |-> call[t].service,
                      user |-> Principal(st[call[t].st].tgt), facts |-> call[t].facts]
    OBVIOUS
  <2>2. call[t].pc = "validate_use" /\ (call[t].service = st[call[t].st].service \/ assertions' = assertions)
    BY <1>3 DEF ValidateUses
  <2>3. assertions' \subseteq assertions \cup {x}
    BY <1>3, <2>1 DEF ValidateUses
  <2>4. call[t].service = st[call[t].st].service => TrueAssertion(x)
    BY <2>1, <2>2, TrueWhenMade
  <2>5. call[t].service = st[call[t].st].service => TrueAssertion(x)'
    BY <1>1, <2>4, TrueStays
  <2>6. QED
    BY <1>2, <2>2, <2>3, <2>5
<1>4. QED
  BY <1>1, <1>2, <1>3 DEF StepKind


-----------------------------------------------------------------------------
(* The invariant                                                           *)

\* The assertions are true just when the invariant says so.
LEMMA AssertionsAllTrue ==
    (\A x \in assertions : TrueAssertion(x)) <=> (assertions \subseteq AssertionRecord /\ AssertionsInv)
<1>1. ASSUME NEW x, x.st < sts, x \in AssertionRecord
      PROVE  TrueAssertion(x) <=> /\ "old" \notin x.facts
                                  /\ x.service = st[x.st].service /\ x.service \in Enabled
                                  /\ \E k \in Ancestors[st[x.st].tgt] : tgt[k].parent = None /\ tgt[k].user = x.user
                                  /\ x.user \in Users
                                  /\ tgt[st[x.st].tgt].parent # None => x.service \in AllowedToProxy
                                  /\ \A k \in Ancestors[st[x.st].tgt] : tgt[k].parent # None =>
                                        /\ st[tgt[k].via].tgt = tgt[k].parent
                                        /\ st[tgt[k].via].service \in AllowedToProxy
  BY <1>1, Zenon DEF TrueAssertion
<1>2. \A x : TrueAssertion(x) => x \in AssertionRecord /\ x.st < sts
  BY DEF TrueAssertion
<1>3. QED
  BY <1>1, <1>2 DEF AssertionsInv, AssertionsAreTrue, HardTimeoutIsFinal

\* The same after a step.
LEMMA AssertionsAllTrueNext ==
    (\A x \in assertions : TrueAssertion(x))' => (assertions \subseteq AssertionRecord /\ AssertionsInv)'
<1>1. ((\A x \in assertions : TrueAssertion(x))
            => (assertions \subseteq AssertionRecord /\ AssertionsInv))'
  BY AssertionsAllTrue, PTL
<1>2. QED
  BY <1>1

\* Nothing has been created yet.
LEMMA CasInit == Init => CasInv
<1> SUFFICES ASSUME Init
             PROVE  CasInv
  OBVIOUS
<1> USE ActorsAreThreadsOrCleaner, CasAssumption
<1>1. TypeInv
  BY TypesAtFirst
<1>2. /\ \A i \in TgtIds : tgt[i].parent = None /\ ~(i < tgts)
      /\ \A j \in StIds : st[j].tgt = None /\ ~(j < sts)
      /\ \A t \in Threads : call[t].pc = "idle"
      /\ tgtRegistry = {} /\ stRegistry = {} /\ assertions = {}
  BY DEF Init, NewTgt, NewSt, NoCall, TgtIds, StIds
<1>3. TicketsInv
  BY <1>2 DEF TicketsInv
<1>4. GrantsInv /\ SsoIsVisible
  BY <1>2 DEF GrantsInv, SsoIsVisible
<1>5. ValidationsInv
  BY <1>2 DEF ValidationsInv
<1>6. AssertionsInv /\ assertions \subseteq AssertionRecord
  BY <1>2 DEF AssertionsInv, AssertionsAreTrue, HardTimeoutIsFinal
<1>7. QED
  BY <1>1, <1>3, <1>4, <1>5, <1>6 DEF CasInv, TypeInv, TypeOK

\* Every step keeps the invariant.
LEMMA CasStep ==
    ASSUME CasInv, TypeInv', [Next]_vars
    PROVE  CasInv'
<1>1. TypeInv /\ TicketsInv /\ GrantsInv /\ ValidationsInv /\ SsoIsVisible
      /\ \A x \in assertions : TrueAssertion(x)
  BY AssertionsAllTrue DEF CasInv, TypeOK, TypeInv
<1>2. TicketsInv'
  BY <1>1, TicketsStep
<1>3. GrantsInv' /\ ValidationsInv' /\ SsoIsVisible'
  BY <1>1, <1>2, GrantsStep, ValidationsStep, SsoStep
<1>4. (\A x \in assertions : TrueAssertion(x))'
  BY <1>1, <1>2, AssertionsStep
<1>5. (assertions \subseteq AssertionRecord /\ AssertionsInv)'
  BY <1>4, AssertionsAllTrueNext
<1>6. QED
  BY <1>2, <1>3, <1>5 DEF CasInv, TypeOK, TypeInv

\* The invariant holds of every reachable state.
LEMMA CasInvariant == Spec => []CasInv
<1>1. TypeInv /\ TypeInv' /\ CasInv /\ [Next]_vars => CasInv'
  BY CasStep
<1>2. QED
  BY <1>1, CasInit, TicketsTyped, PTL DEF Spec

-----------------------------------------------------------------------------
\* Every reachable state is well typed, the assertions with it: the principal that a chain of
\* any number of delegations ends in is one who logged in or a proxy.
THEOREM CasTypeCorrect == Spec => []TypeOK
<1>1. CasInv => TypeOK
  BY DEF CasInv
<1>2. QED
  BY <1>1, CasInvariant, PTL

\* Only a call that began before any service ticket of the TGT had been returned can get a
\* ticket marked as from a new login, or one for a service without single sign-on:
\* grantServiceTicket counts the use of the TGT before it returns the ticket.
THEOREM SsoVisible == Spec => []SsoIsVisible
<1>1. CasInv => SsoIsVisible
  BY DEF CasInv
<1>2. QED
  BY <1>1, CasInvariant, PTL

\* An assertion that validateServiceTicket returns names a user who logged in and whose TGT the
\* service ticket descends from, over any number of delegations, each made with a ticket of the TGT
\* above it for a service that is allowed to proxy; it goes to the enabled service the ticket was
\* granted for, which is allowed to proxy too if there was a delegation.
THEOREM AssertionsTrue == Spec => []AssertionsAreTrue
<1>1. CasInv => AssertionsAreTrue
  BY DEF CasInv, AssertionsInv
<1>2. QED
  BY <1>1, CasInvariant, PTL

\* No assertion is made for a request that began after the hard window of the TGT of the ticket,
\* or of one that it was delegated from, had passed: isExpired asks every ticket of the chain.
THEOREM HardTimeoutFinal == Spec => []HardTimeoutIsFinal
<1>1. CasInv => HardTimeoutIsFinal
  BY DEF CasInv, AssertionsInv
<1>2. QED
  BY <1>1, CasInvariant, PTL
=============================================================================
