--------------------------- MODULE CasTicketProofs ---------------------------
(***************************************************************************)
(* Proofs about CasTicket: its type invariant, that a punched ticket is    *)
(* gone for good, and that strings are unique while no increment is lost.  *)
(***************************************************************************)
EXTENDS CasTicket, TLAPS

\* The initial state is well typed.
LEMMA TypeInit == Init => TypeOK
<1> USE ConstantsAssumption
<1> SUFFICES ASSUME Init
             PROVE  TypeOK
  OBVIOUS
<1> USE DEF Init
<1>1. nCounter \in 0 .. CounterSize - 1 /\ issues \in 0 .. MaxIssues
  BY DEF ConstantsAssumption
<1>2. restarts \in 0 .. MaxRestarts /\ increments \in Nat
  BY DEF ConstantsAssumption
<1>3. cache \in [TicketString -> CasTicketObject \cup {Null}]
  OBVIOUS
<1>4. ticket \in [Threads -> CasTicketObject \cup {Null}]
  OBVIOUS
<1>5. strTicket \in [Threads -> TicketString \cup {Null}]
  OBVIOUS
<1>6. pc \in [Threads -> {"idle", "issue_write", "issue_add", "punch_remove"}]
  OBVIOUS
<1>7. uses \in [Ids -> Nat]
  OBVIOUS
<1>8. QED
  BY <1>1, <1>2, <1>3, <1>4, <1>5, <1>6, <1>7 DEF TypeOK

\* Every step of the tickets keeps the state well typed.
LEMMA TypeStep == TypeOK /\ [Next]_vars => TypeOK'
<1> USE ConstantsAssumption
<1> SUFFICES ASSUME TypeOK, [Next]_vars
             PROVE  TypeOK'
  OBVIOUS
<1> USE DEF TypeOK
<1>1. ASSUME NEW t \in Threads, NEW user \in Users, NEW service \in Services,
             IssueReads(t, user, service)
      PROVE  TypeOK'
  <2>1. PICK c \in CasTicketObject : ticket' = [ticket EXCEPT ![t] = c] /\ c # Null
    <3>1. issues \in Ids
      BY <1>1 DEF IssueReads, Ids
    <3>2. [id |-> issues, _strUserName |-> user, _strService |-> service] \in CasTicketObject
      BY <3>1 DEF CasTicketObject
    <3>3. ticket' = [ticket EXCEPT ![t] =
                       [id |-> issues, _strUserName |-> user, _strService |-> service]]
      BY <1>1 DEF IssueReads
    <3> HIDE DEF TypeOK
    <3>4. QED
      BY <3>2, <3>3
  <2>2. PICK str \in TicketString : strTicket' = [strTicket EXCEPT ![t] = str] /\ str # Null
    <3>1. Incremented(nCounter) \in 0 .. CounterSize - 1
      BY DEF Incremented
    <3>2. PICK millisecond \in Milliseconds :
             strTicket' = [strTicket EXCEPT ![t] = [n |-> Incremented(nCounter), token |-> millisecond]]
      BY <1>1 DEF IssueReads
    <3>3. [n |-> Incremented(nCounter), token |-> millisecond] \in TicketString
      BY <3>1 DEF TicketString
    <3> HIDE DEF TypeOK
    <3>4. QED
      BY <3>2, <3>3
  <2>3. issues' \in 0 .. MaxIssues
    BY <1>1 DEF IssueReads
  <2>4. /\ pc' = [pc EXCEPT ![t] = "issue_write"]
        /\ UNCHANGED <<nCounter, cache, issued, uses, increments, lost, restarts>>
    BY <1>1 DEF IssueReads
  <2>5. QED
    BY <2>1, <2>2, <2>3, <2>4
<1>2. ASSUME NEW t \in Threads, IssueWrites(t)
      PROVE  TypeOK'
  BY <1>2 DEF IssueWrites, Incremented, TicketString
<1>3. ASSUME NEW t \in Threads, IssueAdds(t)
      PROVE  TypeOK'
  BY <1>3 DEF IssueAdds, StorageAdd
<1>4. ASSUME NEW t \in Threads, NEW str \in TicketString, PunchGets(t, str)
      PROVE  TypeOK'
  BY <1>4 DEF PunchGets, history
<1>5. ASSUME NEW t \in Threads, PunchRemoves(t)
      PROVE  TypeOK'
  BY <1>5 DEF PunchRemoves, StorageRemove, CasTicketObject
<1>6. ASSUME NEW str \in TicketString, Evict(str)
      PROVE  TypeOK'
  BY <1>6 DEF Evict, StorageRemove, calls, history
<1>7. ASSUME Restart
      PROVE  TypeOK'
  BY <1>7 DEF Restart
<1>8. CASE UNCHANGED vars
  BY <1>8 DEF vars, calls, history
<1>9. QED
  BY <1>1, <1>2, <1>3, <1>4, <1>5, <1>6, <1>7, <1>8 DEF Next, PunchMisses

\* Every reachable state is well typed, and a thread inside a call holds a ticket and a
\* string.
THEOREM TypeCorrect == Spec => []TypeOK
BY TypeInit, TypeStep, PTL DEF Spec
-----------------------------------------------------------------------------
\* No ticket object is anywhere at first.
LEMMA PunchInit == Init => PunchInv
BY ConstantsAssumption DEF Init, PunchInv, Issuing, Punching

\* No step of the tickets puts a ticket object in two places.
LEMMA PunchStep == TypeOK /\ TypeOK' /\ PunchInv /\ [Next]_vars => PunchInv'
<1> SUFFICES ASSUME TypeOK, TypeOK', PunchInv, [Next]_vars
             PROVE  PunchInv'
  OBVIOUS
<1> USE DEF TypeOK, PunchInv, Issuing, Punching
<1>1. ASSUME NEW t \in Threads, NEW user \in Users, NEW service \in Services,
             IssueReads(t, user, service)
      PROVE  PunchInv'
  BY <1>1 DEF IssueReads, CasTicketObject, Ids
<1>2. ASSUME NEW t \in Threads, IssueWrites(t)
      PROVE  PunchInv'
  BY <1>2 DEF IssueWrites
<1>3. ASSUME NEW t \in Threads, IssueAdds(t)
      PROVE  PunchInv'
  BY <1>3 DEF IssueAdds, StorageAdd
<1>4. ASSUME NEW t \in Threads, NEW str \in TicketString, PunchGets(t, str)
      PROVE  PunchInv'
  BY <1>4 DEF PunchGets, history
<1>5. ASSUME NEW t \in Threads, PunchRemoves(t)
      PROVE  PunchInv'
  BY <1>5 DEF PunchRemoves, StorageRemove, CasTicketObject, Ids
<1>6. ASSUME NEW str \in TicketString, Evict(str)
      PROVE  PunchInv'
  BY <1>6 DEF Evict, StorageRemove, calls, history
<1>7. ASSUME Restart
      PROVE  PunchInv'
  BY <1>7 DEF Restart
<1>8. CASE UNCHANGED vars
  BY <1>8 DEF vars, calls, history
<1>9. QED
  BY <1>1, <1>2, <1>3, <1>4, <1>5, <1>6, <1>7, <1>8 DEF Next, PunchMisses

\* The invariant behind PunchedTicketIsGone: a ticket object is never in two places.
LEMMA PunchInvariant == Spec => []PunchInv
BY PunchInit, PunchStep, TypeCorrect, PTL DEF Spec

\* CheckAndPunch: once a call has returned a ticket, no later call can find it.
THEOREM PunchedIsGone == Spec => []PunchedTicketIsGone
<1>1. PunchInv => PunchedTicketIsGone
  BY DEF PunchInv, PunchedTicketIsGone
<1>2. QED
  BY <1>1, PunchInvariant, PTL

-----------------------------------------------------------------------------
\* The counter has handed out nothing at first.
LEMMA CounterInit == Init => CounterInv
BY ConstantsAssumption DEF Init, CounterInv

\* No step of the tickets hands out a value of an undisturbed counter twice.
LEMMA CounterStep ==
    TypeOK /\ TypeOK' /\ CounterInv /\ [Next]_vars => CounterInv'
<1> SUFFICES ASSUME TypeOK, TypeOK', CounterInv, [Next]_vars
             PROVE  CounterInv'
  OBVIOUS
<1> USE DEF TypeOK, CounterInv, Undisturbed
<1>1. ASSUME NEW t \in Threads, NEW user \in Users, NEW service \in Services,
             IssueReads(t, user, service)
      PROVE  CounterInv'
  BY <1>1 DEF IssueReads
<1>2. ASSUME NEW t \in Threads, IssueWrites(t)
      PROVE  CounterInv'
  <2> SUFFICES ASSUME Undisturbed'
               PROVE  CounterInv'
    OBVIOUS
  <2>1. /\ Undisturbed
        /\ increments < CounterSize
        /\ increments' = increments + 1
    BY <1>2, ConstantsAssumption DEF IssueWrites
  <2>2. strTicket[t].n = Incremented(increments) /\ strTicket' = strTicket
    BY <1>2, <2>1 DEF IssueWrites
  <2>3. Position(strTicket[t].n) = increments'
    BY <2>1, <2>2, ConstantsAssumption DEF Position, Incremented
  <2>4. nCounter' = strTicket[t].n /\ pc' = [pc EXCEPT ![t] = "issue_add"] /\ issued' = issued
    BY <1>2 DEF IssueWrites
  <2>5. increments' < CounterSize => nCounter' = increments'
    BY <2>1, <2>2, <2>4, ConstantsAssumption DEF Incremented
  <2>6. \A u \in Threads : pc[u] = "issue_add" => strTicket[u].n # strTicket[t].n
    BY <2>1, <2>3 DEF Position
  <2>7. \A p \in issued : p[2].n # strTicket[t].n
    BY <2>1, <2>3 DEF Position
  <2>8. \A u \in Threads : pc'[u] = "issue_add" => Position(strTicket'[u].n) <= increments'
    <3> SUFFICES ASSUME NEW u \in Threads, pc'[u] = "issue_add"
                 PROVE  Position(strTicket[u].n) <= increments'
      BY <2>2
    <3>1. CASE u = t
      BY <3>1, <2>1, <2>3
    <3>2. CASE u # t
      <4>1. pc[u] = "issue_add" /\ strTicket[u].n \in Nat
        BY <3>2, <2>4, ConstantsAssumption DEF TicketString
      <4>2. Position(strTicket[u].n) <= increments
        BY <4>1, <2>1
      <4>3. Position(strTicket[u].n) \in Nat
        BY <4>1, ConstantsAssumption DEF Position
      <4>4. QED
        BY <4>2, <4>3, <2>1
    <3>3. QED
      BY <3>1, <3>2
  <2>9. \A p \in issued' : Position(p[2].n) <= increments'
    BY <2>1, <2>4, ConstantsAssumption DEF Position, TicketString
  <2>10. QED
    BY <2>1, <2>2, <2>4, <2>5, <2>6, <2>7, <2>8, <2>9 DEF Position
<1>3. ASSUME NEW t \in Threads, IssueAdds(t)
      PROVE  CounterInv'
  BY <1>3 DEF IssueAdds
<1>4. ASSUME NEW t \in Threads, NEW str \in TicketString, PunchGets(t, str)
      PROVE  CounterInv'
  BY <1>4 DEF PunchGets, history
<1>5. ASSUME NEW t \in Threads, PunchRemoves(t)
      PROVE  CounterInv'
  BY <1>5 DEF PunchRemoves
<1>6. ASSUME NEW str \in TicketString, Evict(str)
      PROVE  CounterInv'
  BY <1>6 DEF Evict, calls, history
<1>7. ASSUME Restart
      PROVE  CounterInv'
  BY <1>7 DEF Restart
<1>8. CASE UNCHANGED vars
  BY <1>8 DEF vars, calls, history
<1>9. QED
  BY <1>1, <1>2, <1>3, <1>4, <1>5, <1>6, <1>7, <1>8 DEF Next, PunchMisses

\* The invariant behind StringsAreUnique: the counter counts the increments.
LEMMA CounterInvariant == Spec => []CounterInv
BY CounterInit, CounterStep, TypeCorrect, PTL DEF Spec

\* Issue: strings are unique unless an increment was lost, the counter wrapped or the
\* application restarted, for any number of threads and any size of the counter.
THEOREM UniqueStrings == Spec => []StringsAreUnique
<1>1. CounterInv => StringsAreUnique
  BY DEF CounterInv, StringsAreUnique, Undisturbed
<1>2. QED
  BY <1>1, CounterInvariant, PTL

=============================================================================
