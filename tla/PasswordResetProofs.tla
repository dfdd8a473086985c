------------------------- MODULE PasswordResetProofs -------------------------
(***************************************************************************)
(* Proofs about PasswordReset: how many messages a user can get, and when  *)
(* the code or the token that she was given works.                         *)
(***************************************************************************)
EXTENDS PasswordReset, FiniteSetTheorems, TLAPS

\* A thread that serves no request has no locals.
LEMMA IdleIsCall ==
    /\ Idle \in Call
    /\ Idle.at = "idle" /\ Idle.user = Null /\ Idle.token = Null
BY ResetAssumption DEF Idle, Call

\* Thread t goes on as d; the others stay where they are.
LEMMA Moves ==
    ASSUME TypeOK, NEW t \in Threads, NEW d \in Call, call' = [call EXCEPT ![t] = d],
           d.at = "idle" <=> d.user = Null
    PROVE  /\ call' \in [Threads -> Call] /\ call'[t] = d
           /\ \A s \in Threads \ {t} : call'[s] = call[s]
           /\ \A s \in Threads : call'[s].at = "idle" <=> call'[s].user = Null
<1>1. /\ call' \in [Threads -> Call] /\ call'[t] = d
      /\ \A s \in Threads \ {t} : call'[s] = call[s]
  BY DEF TypeOK
<1>2. \A s \in Threads : call'[s].at = "idle" <=> call'[s].user = Null
  BY <1>1 DEF TypeOK
<1>3. QED
  BY <1>1, <1>2

\* Whoever begins a request begins it with these locals.
LEMMA BeginsWith ==
    /\ \A at \in {"sms_store", "reset_token"}, u \in Users, code \in Code, count \in Nat :
          [Idle EXCEPT !.at = at, !.user = u, !.code = code, !.count = count] \in Call
    /\ \A u \in Users : [Idle EXCEPT !.user = u] \in Call
    /\ \A u \in Users : [Idle EXCEPT !.at = "email_clear", !.user = u] \in Call
BY IdleIsCall DEF Call

\* A request goes to its next place with the locals it has.
LEMMA GoesOn ==
    ASSUME NEW c \in Call, c.user # Null, NEW d,
           NEW at \in {"sms_send", "mail_write", "reset_write", "reset_clear", "reset_count"}, d = [c EXCEPT !.at = at]
    PROVE  /\ d \in Call /\ (d.at = "idle" <=> d.user = Null)
           /\ d.at = at /\ d.user = c.user /\ d.code = c.code /\ d.count = c.count /\ d.token = c.token
BY DEF Call

\* The calls that hold the token of u are told that it is spent; the others stay.
LEMMA OvertakenCalls ==
    ASSUME TypeOK, NEW u
    PROVE  /\ Overtaken(u) \in [Threads -> Call]
           /\ \A s \in Threads :
                 /\ Overtaken(u)[s].at = call[s].at /\ Overtaken(u)[s].user = call[s].user
                 /\ Overtaken(u)[s].token = call[s].token
                 /\ \/ /\ call[s].at = "reset_apply" /\ call[s].user = u
                       /\ Overtaken(u)[s].overtaken
                    \/ /\ call[s].at # "reset_apply" \/ call[s].user # u
                       /\ Overtaken(u)[s] = call[s]
<1> SUFFICES ASSUME NEW s \in Threads
             PROVE  /\ Overtaken(u)[s] \in Call
                    /\ Overtaken(u)[s].at = call[s].at /\ Overtaken(u)[s].user = call[s].user
                    /\ Overtaken(u)[s].token = call[s].token
                    /\ \/ /\ call[s].at = "reset_apply" /\ call[s].user = u
                          /\ Overtaken(u)[s].overtaken
                       \/ /\ call[s].at # "reset_apply" \/ call[s].user # u
                          /\ Overtaken(u)[s] = call[s]
  BY DEF Overtaken
<1>1. call[s] \in Call
  BY DEF TypeOK
<1>2. CASE call[s].user = u /\ call[s].at = "reset_apply"
  <2>1. Overtaken(u)[s] = [call[s] EXCEPT !.overtaken = TRUE]
    BY <1>2 DEF Overtaken
  <2>2. QED
    BY <1>1, <1>2, <2>1 DEF Call
<1>3. CASE ~(call[s].user = u /\ call[s].at = "reset_apply")
  <2>1. Overtaken(u)[s] = call[s]
    BY <1>3 DEF Overtaken
  <2>2. QED
    BY <1>1, <1>3, <2>1
<1>4. QED
  BY <1>2, <1>3

\* What is left of the types when a token is spent.
LEMMA OvertakenTypes ==
    ASSUME TypeOK, NEW u \in Users, call' \in [Threads -> Call],
           \A s \in Threads : call'[s].at = "idle" <=> call'[s].user = Null,
           membership' = [membership EXCEPT ![u] = Null],
           UNCHANGED <<profile, codes, tokens, mailed, histories>>
    PROVE  TypeOK'
<1>1. membership' \in [Users -> Token \cup {Null}]
  BY DEF TypeOK
<1>2. QED
  BY <1>1 DEF TypeOK, histories

\* A request that is in progress is for a user.
LEMMA InProgress ==
    ASSUME TypeOK, NEW t \in Threads, call[t].at # "idle"
    PROVE  call[t] \in Call /\ call[t].user # Null /\ call[t].user \in Users
<1>1. call[t] \in Call /\ call[t].user # Null
  BY DEF TypeOK
<1>2. QED
  BY <1>1 DEF Call

\* How many requests are about to store a code can be counted, and only falls when none joins.
LEMMA StoringCounts ==
    ASSUME NEW u
    PROVE  /\ Cardinality(Threads) \in Nat
           /\ Cardinality(Storing(u)) \in Nat /\ Cardinality(Storing(u)') \in Nat
           /\ Cardinality(Storing(u)') <= Cardinality(Threads)
           /\ Storing(u)' \subseteq Storing(u)
                 => Cardinality(Storing(u)') <= Cardinality(Storing(u))
           /\ \A t \in Storing(u) : Storing(u)' \subseteq Storing(u) \ {t}
                 => Cardinality(Storing(u)') <= Cardinality(Storing(u)) - 1
<1>1. IsFiniteSet(Threads)
  BY ResetAssumption
<1>2. Storing(u) \subseteq Threads /\ Storing(u)' \subseteq Threads
  BY DEF Storing
<1>3. IsFiniteSet(Storing(u)) /\ IsFiniteSet(Storing(u)')
      /\ Cardinality(Storing(u)') <= Cardinality(Threads)
  BY <1>1, <1>2, FS_Subset
<1>4. /\ Cardinality(Threads) \in Nat
      /\ Cardinality(Storing(u)) \in Nat /\ Cardinality(Storing(u)') \in Nat
  BY <1>1, <1>3, FS_CardinalityType
<1>5. Storing(u)' \subseteq Storing(u) => Cardinality(Storing(u)') <= Cardinality(Storing(u))
  BY <1>3, FS_Subset
<1>6. ASSUME NEW t \in Storing(u), Storing(u)' \subseteq Storing(u) \ {t}
      PROVE  Cardinality(Storing(u)') <= Cardinality(Storing(u)) - 1
  <2>1. /\ IsFiniteSet(Storing(u) \ {t})
        /\ Cardinality(Storing(u) \ {t}) = Cardinality(Storing(u)) - 1
    BY <1>3, FS_RemoveElement
  <2>2. QED
    BY <1>6, <2>1, FS_Subset
<1>7. QED
  BY <1>3, <1>4, <1>5, <1>6

-----------------------------------------------------------------------------
(* What a step keeps when it leaves alone what a part is about             *)

\* What the messages of a user depend on.
MessageParts ==
    SpacedInv /\ OnePrepares /\ LimitInv /\ MessageInv /\ MessagesAreLimited /\ LastMessageWorks

\* What the resets of a user depend on.
TokenParts == HoldsToken /\ ResetFailsOnlyWhenOvertaken

\* Nothing changes for messages while none is checked, stored or sent: a request that was
\* about to may have ended, and is known to have failed when it was about to send.
LEMMA MessagesKept ==
    ASSUME ResetInv, UNCHANGED <<profile, delivered, minute, hour, overlapped>>,
           failed \subseteq failed',
           \A t \in Threads : call'[t].at \in {"sms_store", "sms_send"} => call'[t] = call[t],
           \A t \in Threads :
              call[t].at = "sms_send" => call'[t] = call[t] \/ call[t].user \in failed'
    PROVE  MessageParts'
<1> USE DEF ResetInv
<1>1. SpacedInv'
  <2>1. ASSUME NEW u \in Users
        PROVE  minute[u] + Cardinality(Storing(u)') <= Cardinality(Threads)
    <3>1. Storing(u)' \subseteq Storing(u)
      BY DEF Storing
    <3>2. minute[u] \in Nat /\ minute[u] + Cardinality(Storing(u)) <= Cardinality(Threads)
      BY DEF TypeOK, SpacedInv
    <3>3. QED
      BY <3>1, <3>2, StoringCounts
  <2>2. QED
    BY <2>1 DEF SpacedInv
<1>2. OnePrepares'
  BY DEF OnePrepares
<1>3. LimitInv' /\ MessageInv'
  BY DEF LimitInv, MessageInv
<1>4. MessagesAreLimited'
  BY DEF MessagesAreLimited
<1>5. LastMessageWorks'
  <2>1. ASSUME NEW u \in Users, u \notin overlapped', u \notin failed', NEW t \in Threads,
               \A s \in Threads : ~(call'[s].user = u /\ call'[s].at = "sms_send")
        PROVE  ~(call[t].user = u /\ call[t].at = "sms_send")
    BY <2>1
  <2>2. QED
    BY <2>1 DEF LastMessageWorks
<1>6. QED
  BY <1>1, <1>2, <1>3, <1>4, <1>5 DEF MessageParts

\* Nothing changes for resets while no token is made up or spent and no request begins to hold
\* one or to look for one.
LEMMA TokensKept ==
    ASSUME ResetInv, UNCHANGED <<membership, crossed>>,
           \A t \in Threads : call'[t].at \in {"reset_apply", "mail_send"} \cup Writing =>
                                 call'[t] = call[t]
    PROVE  TokenParts'
BY DEF ResetInv, TokenParts, HoldsToken, ResetFailsOnlyWhenOvertaken

\* The invariant is its types and these two.
LEMMA ResetParts ==
    ASSUME TypeOK', MessageParts', TokenParts'
    PROVE  ResetInv'
BY DEF MessageParts, TokenParts, ResetInv

-----------------------------------------------------------------------------
(* A message to the telephone                                              *)

\* GetPassWordByPhone reads the profile: the last code is a minute old, and the limit is not
\* reached or the last code is an hour old.
LEMMA SmsChecksKeeps ==
    ASSUME ResetInv, NEW t \in Threads, NEW u \in Phones, SmsChecks(t, u)
    PROVE  ResetInv'
<1> USE DEF ResetInv
<1>1. /\ u \in Users /\ profile[u] \in Profile /\ profile[u].count \in Nat
      /\ codes + 1 \in Code /\ codes + 1 \in 0..MaxCodes
  BY ResetAssumption DEF SmsChecks, TypeOK, Profile, Code
<1>2. PICK d \in Call : d = [Idle EXCEPT !.at = "sms_store", !.user = u,
                                        !.code = codes + 1, !.count = profile[u].count]
  BY <1>1, BeginsWith
<1>3. /\ d.at = "sms_store" /\ d.user = u /\ d.code = codes + 1 /\ d.count = profile[u].count
      /\ d \in Call /\ (d.at = "idle" <=> d.user = Null)
  BY <1>1, <1>2, IdleIsCall, ResetAssumption DEF Call
<1>4. /\ call[t] = Idle /\ call' = [call EXCEPT ![t] = d] /\ codes' = codes + 1
      /\ UNCHANGED <<profile, membership, tokens, mailed, delivered, minute, hour, failed, crossed>>
      /\ ~TooFrequent(profile[u])
      /\ overlapped' = IF Preparing(u) THEN overlapped \cup {u} ELSE overlapped
  BY <1>2 DEF SmsChecks
<1>5. /\ call' \in [Threads -> Call] /\ call'[t] = d
      /\ \A s \in Threads \ {t} : call'[s] = call[s]
      /\ \A s \in Threads : call'[s].at = "idle" <=> call'[s].user = Null
  BY <1>3, <1>4, Moves
<1>6. TypeOK'
  BY <1>1, <1>4, <1>5 DEF TypeOK
<1>7. TokenParts'
  BY <1>3, <1>4, <1>5, TokensKept DEF Writing
<1>8. SpacedInv'
  <2>1. ASSUME NEW v \in Users
        PROVE  minute[v] + Cardinality(Storing(v)') <= Cardinality(Threads)
    <3>1. minute[v] \in Nat /\ minute[v] + Cardinality(Storing(v)) <= Cardinality(Threads)
      BY DEF TypeOK, SpacedInv
    <3>2. CASE v = u
      <4>1. minute[v] = 0
        BY <1>1, <1>4, <3>2 DEF SpacedInv, TooFrequent
      <4>2. QED
        BY <4>1, StoringCounts
    <3>3. CASE v # u
      <4>1. Storing(v)' \subseteq Storing(v)
        BY <1>3, <1>5, <3>3 DEF Storing
      <4>2. QED
        BY <3>1, <4>1, StoringCounts
    <3>4. QED
      BY <3>2, <3>3
  <2>2. QED
    BY <1>4, <2>1 DEF SpacedInv
<1>9. OnePrepares'
  <2>1. ASSUME NEW v \in Users, v \notin overlapped', NEW one \in Threads, NEW other \in Threads,
               call'[one].user = v, call'[one].at \in {"sms_store", "sms_send"},
               call'[other].user = v, call'[other].at \in {"sms_store", "sms_send"}
        PROVE  one = other
    <3>1. v \notin overlapped /\ (v = u => ~Preparing(u))
      BY <1>4, <2>1
    <3>2. CASE one = t \/ other = t
      BY <1>3, <1>5, <2>1, <3>1, <3>2 DEF Preparing
    <3>3. CASE one # t /\ other # t
      BY <1>5, <2>1, <3>1, <3>3 DEF OnePrepares
    <3>4. QED
      BY <3>2, <3>3
  <2>2. QED
    BY <2>1 DEF OnePrepares
<1>10. LimitInv'
  <2>1. ASSUME u \notin overlapped
        PROVE  hour[u] <= profile[u].count /\ hour[u] < ResendLimit
    <3>1. hour[u] <= profile[u].count /\ hour[u] \in Nat
      BY <1>1, <2>1 DEF LimitInv, TypeOK
    <3>2. profile[u].count < ResendLimit \/ profile[u].age \notin {"minute", "hour"}
      BY <1>1, <1>4, ResetAssumption DEF TooFrequent
    <3>3. CASE profile[u].count < ResendLimit
      BY <1>1, <3>1, <3>3, ResetAssumption
    <3>4. CASE profile[u].age \notin {"minute", "hour"}
      BY <1>1, <3>1, <3>4, ResetAssumption DEF LimitInv
    <3>5. QED
      BY <3>2, <3>3, <3>4
  <2>2. overlapped \subseteq overlapped'
    BY <1>4
  <2>3. QED
    BY <1>3, <1>4, <1>5, <2>1, <2>2 DEF LimitInv
<1>11. overlapped \subseteq overlapped'
  BY <1>4
<1>12. MessageInv' /\ MessagesAreLimited'
  BY <1>3, <1>4, <1>5, <1>11 DEF MessageInv, MessagesAreLimited
<1>13. LastMessageWorks'
  <2>1. ASSUME NEW v \in Users, NEW s \in Threads, call[s].user = v /\ call[s].at = "sms_send"
        PROVE  call'[s].user = v /\ call'[s].at = "sms_send"
    BY <1>4, <1>5, <2>1, IdleIsCall
  <2>2. QED
    BY <1>4, <1>11, <2>1 DEF LastMessageWorks
<1>14. QED
  BY <1>6, <1>7, <1>8, <1>9, <1>10, <1>12, <1>13, ResetParts DEF MessageParts

\* CreatePhonePasswordResetToken writes what may have been read before: it is one request less
\* that is about to, and, unless two overlapped, the only one.
LEMMA SmsStoresKeeps ==
    ASSUME ResetInv, NEW t \in Threads, SmsStores(t)
    PROVE  ResetInv'
<1> USE DEF ResetInv
<1> DEFINE u == call[t].user
           code == call[t].code
<1>1. call[t] \in Call /\ call[t].at = "sms_store" /\ call[t].user # Null /\ u \in Users
      /\ code \in Code \cup {Null} /\ call[t].count \in Nat
  <2>1. call[t] \in Call /\ call[t].at = "sms_store"
    BY DEF TypeOK, SmsStores
  <2>2. call[t].user # Null
    BY <2>1 DEF TypeOK
  <2>3. QED
    BY <2>1, <2>2 DEF Call
<1>2. profile[u] \in Profile /\ profile[u].count \in Nat
  BY <1>1 DEF TypeOK, Profile
<1>3. PICK count \in {call[t].count, profile[u].count} :
         profile' = [profile EXCEPT ![u] = [code |-> code, age |-> "minute", count |-> count + 1]]
  BY DEF SmsStores, StoredCode, Counted
<1>4. count \in Nat
  BY <1>1, <1>2
<1>5. PICK p \in Profile : /\ profile' = [profile EXCEPT ![u] = p]
                           /\ p.code = code /\ p.age = "minute" /\ p.count = count + 1
  <2>1. [code |-> code, age |-> "minute", count |-> count + 1] \in Profile
    BY <1>1, <1>4 DEF Profile, Age
  <2>2. QED
    BY <1>3, <2>1
<1>6. PICK d : d = [call[t] EXCEPT !.at = "sms_send"]
  OBVIOUS
<1>7. /\ d \in Call /\ (d.at = "idle" <=> d.user = Null)
      /\ d.at = "sms_send" /\ d.user = u /\ d.code = code /\ d.count = call[t].count
  BY <1>1, <1>6, GoesOn
<1>8. /\ call' = [call EXCEPT ![t] = d]
      /\ minute' = [minute EXCEPT ![u] = @ + 1]
      /\ hour' = [hour EXCEPT ![u] = @ + 1]
      /\ UNCHANGED <<membership, codes, tokens, mailed, delivered, failed, overlapped, crossed>>
  BY <1>6 DEF SmsStores
<1>9. /\ call' \in [Threads -> Call] /\ call'[t] = d
      /\ \A s \in Threads \ {t} : call'[s] = call[s]
      /\ \A s \in Threads : call'[s].at = "idle" <=> call'[s].user = Null
  BY <1>7, <1>8, Moves
<1>10. /\ profile' \in [Users -> Profile] /\ profile'[u] = p
       /\ \A v \in Users \ {u} : profile'[v] = profile[v]
  BY <1>1, <1>5 DEF TypeOK
<1>11. \A v \in Users, s \in Threads : v # u /\ call[s].user = v /\ call[s].at = "sms_send"
          => call'[s].user = v /\ call'[s].at = "sms_send"
  BY <1>1, <1>9
<1>12. /\ minute' \in [Users -> Nat] /\ minute'[u] = minute[u] + 1 /\ minute[u] \in Nat
       /\ \A v \in Users \ {u} : minute'[v] = minute[v] /\ minute[v] \in Nat
  BY <1>1, <1>8 DEF TypeOK
<1>13. /\ hour' \in [Users -> Nat] /\ hour'[u] = hour[u] + 1 /\ hour[u] \in Nat
       /\ \A v \in Users \ {u} : hour'[v] = hour[v]
  BY <1>1, <1>8 DEF TypeOK
<1>14. TypeOK'
  BY <1>8, <1>9, <1>10, <1>12, <1>13 DEF TypeOK
<1>15. TokenParts'
  BY <1>7, <1>8, <1>9, TokensKept DEF Writing
<1>16. SpacedInv'
  <2>1. ASSUME NEW v \in Users
        PROVE  minute'[v] + Cardinality(Storing(v)') <= Cardinality(Threads)
    <3>1. minute[v] + Cardinality(Storing(v)) <= Cardinality(Threads)
      BY DEF SpacedInv
    <3>2. CASE v = u
      <4>1. t \in Storing(v) /\ Storing(v)' \subseteq Storing(v) \ {t}
        BY <1>1, <1>7, <1>9, <3>2 DEF Storing
      <4>2. Cardinality(Storing(v)') <= Cardinality(Storing(v)) - 1
        BY <4>1, StoringCounts
      <4>3. minute'[v] = minute[v] + 1 /\ minute[v] \in Nat
        BY <1>12, <3>2
      <4>4. QED
        BY <3>1, <4>2, <4>3, StoringCounts
    <3>3. CASE v # u
      <4>1. Storing(v)' \subseteq Storing(v)
        BY <1>7, <1>9, <3>3 DEF Storing
      <4>2. minute'[v] = minute[v] /\ minute[v] \in Nat
        BY <1>12, <3>3
      <4>3. QED
        BY <3>1, <4>1, <4>2, StoringCounts
    <3>4. QED
      BY <3>2, <3>3
  <2>2. ASSUME NEW v \in Users, profile'[v].age # "minute"
        PROVE  minute'[v] = 0
    BY <1>5, <1>10, <1>12, <2>2 DEF SpacedInv
  <2>3. QED
    BY <2>1, <2>2 DEF SpacedInv
<1>17. OnePrepares'
  BY <1>1, <1>7, <1>8, <1>9 DEF OnePrepares
<1>18. \A s \in Threads \ {t} :
          u \notin overlapped /\ call[s].at \in {"sms_store", "sms_send"} => call[s].user # u
  BY <1>1 DEF OnePrepares
<1>19. \A s \in Threads : call[s].at \in {"sms_store", "sms_send"} => call[s].user \in Users
  <2>1. ASSUME NEW s \in Threads, call[s].at \in {"sms_store", "sms_send"}
        PROVE  call[s].user \in Users
    <3>1. call[s] \in Call /\ call[s].user # Null
      BY <2>1 DEF TypeOK
    <3>2. QED
      BY <3>1 DEF Call
  <2>2. QED
    BY <2>1
<1>20. u \notin overlapped =>
          /\ hour[u] <= profile[u].count /\ hour[u] <= call[t].count /\ hour[u] < ResendLimit
  BY <1>1 DEF LimitInv
<1>21. LimitInv'
  <2>1. \A v \in Users : profile'[v].age \notin {"minute", "hour"} => hour'[v] = 0
    BY <1>5, <1>10, <1>13 DEF LimitInv
  <2>2. ASSUME NEW v \in Users, v \notin overlapped
        PROVE  hour'[v] <= profile'[v].count
    <3>1. CASE v = u
      <4>1. hour[u] <= count
        BY <1>20, <2>2, <3>1
      <4>2. QED
        BY <1>4, <1>5, <1>10, <1>13, <3>1, <4>1
    <3>2. CASE v # u
      BY <1>10, <1>13, <2>2, <3>2 DEF LimitInv
    <3>3. QED
      BY <3>1, <3>2
  <2>3. ASSUME NEW s \in Threads, call'[s].at = "sms_store", call'[s].user \notin overlapped
        PROVE  hour'[call'[s].user] <= call'[s].count /\ hour'[call'[s].user] < ResendLimit
    <3>1. s # t /\ call'[s] = call[s]
      BY <1>7, <1>9, <2>3
    <3>2. call[s].user \in Users \ {u}
      BY <1>18, <1>19, <2>3, <3>1
    <3>3. QED
      BY <1>13, <2>3, <3>1, <3>2 DEF LimitInv
  <2>4. QED
    BY <1>8, <2>1, <2>2, <2>3 DEF LimitInv
<1>22. MessagesAreLimited'
  <2>1. u \notin overlapped => hour[u] + 1 <= ResendLimit
    BY <1>13, <1>20, ResetAssumption
  <2>2. QED
    BY <1>8, <1>13, <2>1 DEF MessagesAreLimited
<1>23. MessageInv'
  <2>1. ASSUME NEW s \in Threads, call'[s].at = "sms_send", call'[s].user \notin overlapped
        PROVE  profile'[call'[s].user].code = call'[s].code
    <3>1. CASE s = t
      BY <1>5, <1>7, <1>9, <1>10, <3>1
    <3>2. CASE s # t
      <4>1. call'[s] = call[s] /\ call[s].user \in Users \ {u}
        BY <1>9, <1>18, <1>19, <2>1, <3>2
      <4>2. QED
        BY <1>10, <2>1, <4>1 DEF MessageInv
    <3>3. QED
      BY <3>1, <3>2
  <2>2. QED
    BY <1>8, <2>1 DEF MessageInv
<1>24. LastMessageWorks'
  <2>1. ASSUME NEW v \in Users, v \notin overlapped \cup failed,
               \A s \in Threads : ~(call'[s].user = v /\ call'[s].at = "sms_send")
        PROVE  profile'[v].code = delivered[v]
    <3>1. v # u
      BY <1>7, <1>9, <2>1
    <3>2. \A s \in Threads : ~(call[s].user = v /\ call[s].at = "sms_send")
      BY <1>11, <2>1, <3>1
    <3>3. QED
      BY <1>10, <2>1, <3>1, <3>2 DEF LastMessageWorks
  <2>2. QED
    BY <1>8, <2>1 DEF LastMessageWorks
<1>25. QED
  BY <1>14, <1>15, <1>16, <1>17, <1>21, <1>22, <1>23, <1>24, ResetParts DEF MessageParts

\* SendSMS: the code that reaches the user is the one that was stored.
LEMMA SmsSendsKeeps ==
    ASSUME ResetInv, NEW t \in Threads, SmsSends(t)
    PROVE  ResetInv'
<1> USE DEF ResetInv
<1> DEFINE u == call[t].user
<1>1. call[t] \in Call /\ call[t].at = "sms_send" /\ u \in Users /\ call[t].code \in Code \cup {Null}
  <2>1. call[t] \in Call /\ call[t].at = "sms_send"
    BY DEF TypeOK, SmsSends
  <2>2. call[t].user # Null
    BY <2>1 DEF TypeOK
  <2>3. QED
    BY <2>1, <2>2 DEF Call
<1>2. /\ delivered' = [delivered EXCEPT ![u] = call[t].code]
      /\ failed' = failed \ {u}
      /\ call' = [call EXCEPT ![t] = Idle]
      /\ UNCHANGED <<profile, membership, codes, tokens, mailed, minute, hour, overlapped, crossed>>
  BY DEF SmsSends, Return
<1>3. /\ call' \in [Threads -> Call] /\ call'[t] = Idle
      /\ \A s \in Threads \ {t} : call'[s] = call[s]
      /\ \A s \in Threads : call'[s].at = "idle" <=> call'[s].user = Null
  BY <1>2, Moves, IdleIsCall
<1>4. TypeOK'
  BY <1>1, <1>2, <1>3 DEF TypeOK
<1>5. TokenParts'
  BY <1>2, <1>3, IdleIsCall, TokensKept DEF Writing
<1>6. SpacedInv'
  <2>1. ASSUME NEW v \in Users
        PROVE  minute[v] + Cardinality(Storing(v)') <= Cardinality(Threads)
    <3>1. Storing(v)' \subseteq Storing(v)
      BY <1>3, IdleIsCall DEF Storing
    <3>2. minute[v] \in Nat /\ minute[v] + Cardinality(Storing(v)) <= Cardinality(Threads)
      BY DEF TypeOK, SpacedInv
    <3>3. QED
      BY <3>1, <3>2, StoringCounts
  <2>2. QED
    BY <1>2, <2>1 DEF SpacedInv
<1>7. OnePrepares'
  BY <1>2, <1>3, IdleIsCall DEF OnePrepares
<1>8. LimitInv' /\ MessageInv' /\ MessagesAreLimited'
  BY <1>2, <1>3, IdleIsCall DEF LimitInv, MessageInv, MessagesAreLimited
<1>9. LastMessageWorks'
  <2>1. ASSUME NEW v \in Users, v \notin overlapped \cup failed',
               \A s \in Threads : ~(call'[s].user = v /\ call'[s].at = "sms_send")
        PROVE  profile[v].code = delivered'[v]
    <3>1. CASE v = u
      BY <1>1, <1>2, <2>1, <3>1 DEF MessageInv, TypeOK
    <3>2. CASE v # u
      <4>1. \A s \in Threads : ~(call[s].user = v /\ call[s].at = "sms_send")
        BY <1>3, <2>1, <3>2
      <4>2. delivered'[v] = delivered[v] /\ v \notin failed
        BY <1>2, <2>1, <3>2 DEF TypeOK
      <4>3. QED
        BY <2>1, <4>1, <4>2 DEF LastMessageWorks
    <3>3. QED
      BY <3>1, <3>2
  <2>2. QED
    BY <1>2, <2>1 DEF LastMessageWorks
<1>10. QED
  BY <1>4, <1>5, <1>6, <1>7, <1>8, <1>9, ResetParts DEF MessageParts

\* A request that fails leaves what it has written, and is known to have failed when it was
\* about to send.
LEMMA FailsKeeps ==
    ASSUME ResetInv, NEW t \in Threads, Fails(t)
    PROVE  ResetInv'
<1>1. /\ call' = [call EXCEPT ![t] = Idle] /\ call[t].at # "idle"
      /\ failed' = IF call[t].at = "sms_send" THEN failed \cup {call[t].user} ELSE failed
      /\ UNCHANGED <<profile, membership, codes, tokens, mailed, delivered, minute, hour,
                     overlapped, crossed>>
  BY DEF Fails, Return
<1>2. /\ call' \in [Threads -> Call] /\ call'[t] = Idle
      /\ \A s \in Threads \ {t} : call'[s] = call[s]
      /\ \A s \in Threads : call'[s].at = "idle" <=> call'[s].user = Null
  BY <1>1, Moves, IdleIsCall DEF ResetInv
<1>3. call[t].user \in Users
  BY <1>1, InProgress DEF ResetInv
<1>4. TypeOK'
  BY <1>1, <1>2, <1>3 DEF TypeOK, ResetInv
<1>5. MessageParts'
  BY <1>1, <1>2, IdleIsCall, MessagesKept
<1>6. TokenParts'
  BY <1>1, <1>2, IdleIsCall, TokensKept DEF Writing
<1>7. QED
  BY <1>4, <1>5, <1>6, ResetParts

-----------------------------------------------------------------------------
(* Reset tokens                                                            *)

\* A token is spent or expires: the calls that hold it know, and no other call is for its user.
LEMMA TokenIsSpent ==
    ASSUME ResetInv, NEW u \in Users, membership' = [membership EXCEPT ![u] = Null],
           UNCHANGED crossed,
           \A t \in Threads :
              call'[t].at \in {"reset_apply", "mail_send"} \cup Writing =>
                 call'[t] = Overtaken(u)[t]
    PROVE  TokenParts'
<1>1. /\ \A v \in Users \ {u} : membership'[v] = membership[v]
      /\ membership'[u] = Null
  BY DEF ResetInv, TypeOK
<1>2. ASSUME NEW t \in Threads, call'[t].at \in {"reset_apply", "mail_send"} \cup Writing
      PROVE  /\ call'[t].at = call[t].at /\ call'[t].token = call[t].token
             /\ call'[t].user = call[t].user /\ call[t].user \in Users
             /\ call'[t].at = "reset_apply" /\ ~call'[t].overtaken =>
                   call'[t] = call[t] /\ call[t].user # u
  <2>1. /\ call'[t].at = call[t].at /\ call'[t].token = call[t].token
        /\ call'[t].user = call[t].user
        /\ call'[t].at = "reset_apply" /\ ~call'[t].overtaken =>
              call'[t] = call[t] /\ call[t].user # u
    BY <1>2, OvertakenCalls DEF ResetInv
  <2>2. QED
    BY <1>2, <2>1, InProgress DEF ResetInv, Writing
<1>3. HoldsToken'
  BY <1>1, <1>2 DEF ResetInv, HoldsToken
<1>4. ResetFailsOnlyWhenOvertaken'
  BY <1>1, <1>2 DEF ResetInv, ResetFailsOnlyWhenOvertaken
<1>5. QED
  BY <1>3, <1>4 DEF TokenParts

\* GeneratePasswordResetToken finds a valid token, which the request then holds, or none.
LEMMA TokenIsRead ==
    ASSUME ResetInv, NEW t \in Threads, NEW u \in Users, UNCHANGED <<membership, crossed>>,
           \A s \in Threads \ {t} : call'[s] = call[s],
           call'[t].user = u,
           \/ /\ call'[t].at \in {"reset_apply", "mail_send"}
              /\ membership[u] # Null /\ call'[t].token = membership[u]
           \/ call'[t].at \in Writing /\ membership[u] = Null
    PROVE  TokenParts'
<1>1. membership[u] # Null => membership[u] \in Token
  BY DEF ResetInv, TypeOK
<1>2. HoldsToken'
  <2>1. ASSUME NEW s \in Threads
        PROVE  /\ call'[s].at \in {"reset_apply", "mail_send"} => call'[s].token \in Token
               /\ call'[s].at \in Writing /\ call'[s].user \notin crossed
                     => membership[call'[s].user] = Null
    <3>1. CASE s = t
      BY <1>1, <3>1 DEF Writing
    <3>2. CASE s # t
      BY <3>2 DEF ResetInv, HoldsToken
    <3>3. QED
      BY <3>1, <3>2
  <2>2. QED
    BY <2>1 DEF HoldsToken
<1>3. ResetFailsOnlyWhenOvertaken'
  BY DEF ResetInv, ResetFailsOnlyWhenOvertaken, Writing
<1>4. QED
  BY <1>2, <1>3 DEF TokenParts

\* .. and writes a new one over whatever the row has by now: unless another request of the user
\* is about to do the same, no request holds the one that goes.
LEMMA TokenIsWritten ==
    ASSUME ResetInv, NEW t \in Threads, NEW u \in Users, NEW token \in Token,
           call[t].at \in Writing, call[t].user = u,
           membership' = [membership EXCEPT ![u] = token],
           crossed' = IF \E s \in Threads \ {t} : call[s].user = u /\ call[s].at \in Writing
                      THEN crossed \cup {u} ELSE crossed,
           \A s \in Threads \ {t} : call'[s] = call[s],
           call'[t].user = u, call'[t].token = token,
           call'[t].at \in {"reset_apply", "mail_send"}
    PROVE  TokenParts'
<1>1. /\ membership'[u] = token
      /\ \A v \in Users \ {u} : membership'[v] = membership[v]
  BY DEF ResetInv, TypeOK
<1>2. crossed \subseteq crossed'
  OBVIOUS
<1>3. \A s \in Threads : call[s].at \in {"reset_apply", "mail_send"} \cup Writing =>
         call[s].user \in Users
  BY InProgress DEF ResetInv, Writing
<1>4. HoldsToken'
  <2>1. ASSUME NEW s \in Threads
        PROVE  /\ call'[s].at \in {"reset_apply", "mail_send"} => call'[s].token \in Token
               /\ call'[s].at \in Writing /\ call'[s].user \notin crossed'
                     => membership'[call'[s].user] = Null
    <3>1. CASE s = t
      BY <3>1 DEF Writing
    <3>2. CASE s # t
      <4>1. call'[s].at \in Writing /\ call'[s].user \notin crossed' => call[s].user # u
        BY <3>2
      <4>2. QED
        BY <1>1, <1>2, <1>3, <3>2, <4>1 DEF ResetInv, HoldsToken
    <3>3. QED
      BY <3>1, <3>2
  <2>2. QED
    BY <2>1 DEF HoldsToken
<1>5. ResetFailsOnlyWhenOvertaken'
  <2>1. ASSUME NEW s \in Threads, call'[s].at = "reset_apply", ~call'[s].overtaken,
               call'[s].user \notin crossed'
        PROVE  membership'[call'[s].user] = call'[s].token
    <3>1. CASE s = t
      BY <1>1, <3>1
    <3>2. CASE s # t
      <4>1. /\ call'[s] = call[s] /\ call[s].user \notin crossed
            /\ membership[call[s].user] = call[s].token /\ call[s].token \in Token
        BY <1>2, <2>1, <3>2 DEF ResetInv, ResetFailsOnlyWhenOvertaken, HoldsToken
      <4>2. call[s].user # u
        BY <4>1, ResetAssumption DEF ResetInv, HoldsToken, Token
      <4>3. QED
        BY <1>1, <1>3, <2>1, <4>1, <4>2
    <3>3. QED
      BY <3>1, <3>2
  <2>2. QED
    BY <2>1 DEF ResetFailsOnlyWhenOvertaken
<1>6. QED
  BY <1>4, <1>5 DEF TokenParts

\* ReadsToken: the request goes on with what it has found.
LEMMA ReadsTokenKeeps ==
    ASSUME ResetInv, NEW t \in Threads, NEW u \in Users, NEW c \in Call, c.user = u,
           call[t].at # "sms_send", NEW found \in {"reset_apply", "mail_send"},
           NEW missing \in Writing, ReadsToken(t, u, found, missing, c)
    PROVE  ResetInv'
<1> USE DEF ResetInv
<1>1. UNCHANGED <<profile, membership, codes, tokens, mailed, histories>>
  BY DEF ReadsToken
<1>2. PICK d \in Call : /\ call' = [call EXCEPT ![t] = d] /\ d.user = u
                        /\ \/ d.at = found /\ membership[u] # Null /\ d.token = membership[u]
                           \/ d.at = missing /\ membership[u] = Null
  <2>1. CASE membership[u] # Null
    <3>1. PICK d : d = [c EXCEPT !.at = found, !.token = membership[u]]
      OBVIOUS
    <3>2. membership[u] \in Token \cup {Null}
      BY DEF TypeOK
    <3>3. d \in Call /\ d.at = found /\ d.user = u /\ d.token = membership[u]
      BY <3>1, <3>2 DEF Call
    <3>4. QED
      BY <2>1, <3>1, <3>3 DEF ReadsToken
  <2>2. CASE membership[u] = Null
    <3>1. PICK d : d = [c EXCEPT !.at = missing]
      OBVIOUS
    <3>2. d \in Call /\ d.at = missing /\ d.user = u
      BY <3>1 DEF Call, Writing
    <3>3. QED
      BY <2>2, <3>1, <3>2 DEF ReadsToken
  <2>3. QED
    BY <2>1, <2>2
<1>3. d.at \notin {"idle", "sms_store", "sms_send"} /\ d.user # Null
  BY <1>2, ResetAssumption DEF Writing
<1>4. /\ call' \in [Threads -> Call] /\ call'[t] = d
      /\ \A s \in Threads \ {t} : call'[s] = call[s]
      /\ \A s \in Threads : call'[s].at = "idle" <=> call'[s].user = Null
  BY <1>2, <1>3, Moves
<1>5. TypeOK'
  BY <1>1, <1>4 DEF TypeOK, histories
<1>6. MessageParts'
  BY <1>1, <1>3, <1>4, MessagesKept DEF histories
<1>7. TokenParts'
  BY <1>1, <1>2, <1>4, TokenIsRead DEF histories
<1>8. QED
  BY <1>5, <1>6, <1>7, ResetParts

\* WritesToken: the request goes on with a token that nobody had.
LEMMA WritesTokenKeeps ==
    ASSUME ResetInv, NEW t \in Threads, call[t].at \in Writing,
           NEW next \in {"reset_apply", "mail_send"}, WritesToken(t, next)
    PROVE  ResetInv'
<1> USE DEF ResetInv
<1> DEFINE u == call[t].user
<1>1. call[t] \in Call /\ u # Null /\ u \in Users /\ call[t].at \notin {"idle", "sms_send"}
  BY InProgress DEF Writing
<1>2. PICK token \in Token : token = tokens + 1
  BY ResetAssumption DEF WritesToken, TypeOK, Token
<1>3. PICK d : d = [call[t] EXCEPT !.at = next, !.token = token]
  OBVIOUS
<1>4. /\ d \in Call /\ d.at = next /\ d.user = u /\ d.token = token
      /\ (d.at = "idle" <=> d.user = Null)
  BY <1>1, <1>3 DEF Call
<1>5. /\ call' = [call EXCEPT ![t] = d] /\ tokens' = token
      /\ membership' = [membership EXCEPT ![u] = token]
      /\ crossed' = IF \E s \in Threads \ {t} : call[s].user = u /\ call[s].at \in Writing
                    THEN crossed \cup {u} ELSE crossed
      /\ UNCHANGED <<profile, codes, mailed, delivered, minute, hour, failed, overlapped>>
  BY <1>2, <1>3 DEF WritesToken
<1>6. /\ call' \in [Threads -> Call] /\ call'[t] = d
      /\ \A s \in Threads \ {t} : call'[s] = call[s]
      /\ \A s \in Threads : call'[s].at = "idle" <=> call'[s].user = Null
  BY <1>4, <1>5, Moves
<1>7. TypeOK'
  <2>1. tokens' \in 0..MaxTokens
    BY <1>5, ResetAssumption DEF Token
  <2>2. membership' \in [Users -> Token \cup {Null}] /\ crossed' \subseteq Users
    BY <1>1, <1>5 DEF TypeOK
  <2>3. QED
    BY <1>5, <1>6, <2>1, <2>2 DEF TypeOK
<1>8. MessageParts'
  BY <1>1, <1>4, <1>5, <1>6, MessagesKept
<1>9. TokenParts'
  BY <1>1, <1>4, <1>5, <1>6, TokenIsWritten
<1>10. QED
  BY <1>7, <1>8, <1>9, ResetParts

\* ClearsToken: the row of the user has no token any more.
LEMMA ClearsTokenKeeps ==
    ASSUME ResetInv, NEW t \in Threads, call[t].at \notin {"idle", "sms_send"},
           NEW d \in Call, d.at = "idle" <=> d.user = Null, d.at \in {"idle", "reset_count"},
           ClearsToken(t, d)
    PROVE  ResetInv'
<1> USE DEF ResetInv
<1> DEFINE u == call[t].user
<1>1. u \in Users
  BY InProgress
<1>2. /\ membership' = [membership EXCEPT ![u] = Null]
      /\ call' = [Overtaken(u) EXCEPT ![t] = d]
      /\ UNCHANGED <<profile, codes, tokens, mailed, histories>>
  BY DEF ClearsToken
<1>3. /\ call' \in [Threads -> Call] /\ call'[t] = d
      /\ \A s \in Threads \ {t} : call'[s] = Overtaken(u)[s]
  BY <1>2, OvertakenCalls
<1>4. \A s \in Threads : call'[s].at = "idle" <=> call'[s].user = Null
  BY <1>3, OvertakenCalls DEF TypeOK
<1>5. TypeOK'
  BY <1>1, <1>2, <1>3, <1>4, OvertakenTypes
<1>6. MessageParts'
  BY <1>2, <1>3, OvertakenCalls, MessagesKept DEF histories
<1>7. TokenParts'
  BY <1>1, <1>2, <1>3, TokenIsSpent DEF histories, Writing
<1>8. QED
  BY <1>5, <1>6, <1>7, ResetParts

\* The day of a token is over.
LEMMA TokenExpiresKeeps ==
    ASSUME ResetInv, NEW u \in Users, TokenExpires(u)
    PROVE  ResetInv'
<1> USE DEF ResetInv
<1>1. /\ membership' = [membership EXCEPT ![u] = Null] /\ call' = Overtaken(u)
      /\ UNCHANGED <<profile, codes, tokens, mailed, histories>>
  BY DEF TokenExpires
<1>2. /\ call' \in [Threads -> Call]
      /\ \A s \in Threads : call'[s].at = "idle" <=> call'[s].user = Null
  BY <1>1, OvertakenCalls DEF TypeOK
<1>3. TypeOK'
  BY <1>1, <1>2, OvertakenTypes
<1>4. TokenParts'
  BY <1>1, TokenIsSpent DEF histories
<1>5. MessageParts'
  BY <1>1, OvertakenCalls, MessagesKept DEF histories
<1>6. QED
  BY <1>3, <1>4, <1>5, ResetParts

\* ResetPasswordByEmailToken finds the row that has the token.
LEMMA EmailBeginsKeeps ==
    ASSUME ResetInv, NEW t \in Threads, NEW token \in Token, EmailBegins(t, token)
    PROVE  ResetInv'
<1> USE DEF ResetInv
<1>1. PICK u \in Users :
         /\ call[t] = Idle
         /\ call' = [call EXCEPT ![t] = [Idle EXCEPT !.at = "email_clear", !.user = u]]
         /\ UNCHANGED <<profile, membership, codes, tokens, mailed, histories>>
  BY DEF EmailBegins
<1>2. PICK d \in Call : d = [Idle EXCEPT !.at = "email_clear", !.user = u]
  BY BeginsWith
<1>3. d.at = "email_clear" /\ d.user = u /\ (d.at = "idle" <=> d.user = Null)
  BY <1>2, IdleIsCall, ResetAssumption DEF Call
<1>4. /\ call' \in [Threads -> Call] /\ call'[t] = d
      /\ \A s \in Threads \ {t} : call'[s] = call[s]
      /\ \A s \in Threads : call'[s].at = "idle" <=> call'[s].user = Null
  BY <1>1, <1>2, <1>3, Moves
<1>5. TypeOK'
  BY <1>1, <1>4 DEF TypeOK, histories
<1>6. MessageParts'
  BY <1>1, <1>3, <1>4, IdleIsCall, MessagesKept DEF histories
<1>7. TokenParts'
  BY <1>1, <1>3, <1>4, TokensKept DEF histories, Writing
<1>8. QED
  BY <1>5, <1>6, <1>7, ResetParts

\* GetPassWordByEmail mails the token that the request holds.
LEMMA MailSendsKeeps ==
    ASSUME ResetInv, NEW t \in Threads, MailSends(t)
    PROVE  ResetInv'
<1> USE DEF ResetInv
<1>1. /\ call[t].at = "mail_send" /\ mailed' = mailed \cup {call[t].token}
      /\ call' = [call EXCEPT ![t] = Idle]
      /\ UNCHANGED <<profile, membership, codes, tokens, histories>>
  BY DEF MailSends, Return
<1>2. /\ call' \in [Threads -> Call] /\ call'[t] = Idle
      /\ \A s \in Threads \ {t} : call'[s] = call[s]
      /\ \A s \in Threads : call'[s].at = "idle" <=> call'[s].user = Null
  BY <1>1, Moves, IdleIsCall
<1>3. TypeOK'
  BY <1>1, <1>2 DEF TypeOK, HoldsToken, histories
<1>4. MessageParts'
  BY <1>1, <1>2, IdleIsCall, MessagesKept DEF histories
<1>5. TokenParts'
  BY <1>1, <1>2, IdleIsCall, TokensKept DEF histories, Writing
<1>6. QED
  BY <1>3, <1>4, <1>5, ResetParts

\* .. which is the one that a reset in progress holds, or one that it writes itself; and
\* ResetPasswordByEmailToken spends what the row has.
LEMMA MailKeeps ==
    ASSUME ResetInv, NEW t \in Threads,
           (\E u \in Users : MailBegins(t, u)) \/ MailWrites(t) \/ EmailClears(t)
    PROVE  ResetInv'
<1>1. ASSUME NEW u \in Users, MailBegins(t, u)
      PROVE  ResetInv'
  <2>1. PICK c \in Call : c = [Idle EXCEPT !.user = u]
    BY BeginsWith
  <2>2. c.user = u /\ call[t].at = "idle"
    BY <1>1, <2>1, IdleIsCall DEF MailBegins, Call
  <2>3. ReadsToken(t, u, "mail_send", "mail_write", c)
    BY <1>1, <2>1 DEF MailBegins
  <2>4. QED
    BY <2>2, <2>3, ReadsTokenKeeps DEF Writing
<1>2. CASE MailWrites(t)
  BY <1>2, WritesTokenKeeps DEF MailWrites, Writing
<1>3. CASE EmailClears(t)
  BY <1>3, ClearsTokenKeeps, IdleIsCall DEF EmailClears
<1>4. QED
  BY <1>1, <1>2, <1>3

-----------------------------------------------------------------------------
(* A reset with a code                                                     *)

\* ResetPasswordByPhoneToken compares the code; one that is wrong changes nothing.
LEMMA ResetChecksKeeps ==
    ASSUME ResetInv, NEW t \in Threads, NEW u \in Users, NEW code \in Code, ResetChecks(t, u, code)
    PROVE  ResetInv'
<1> USE DEF ResetInv
<1>1. call[t] = Idle /\ UNCHANGED <<profile, membership, codes, tokens, mailed, histories>>
  BY DEF ResetChecks
<1>2. CASE UNCHANGED call
  <2>1. TypeOK'
    BY <1>1, <1>2 DEF TypeOK, histories
  <2>2. MessageParts' /\ TokenParts'
    BY <1>1, <1>2, MessagesKept, TokensKept DEF histories
  <2>3. QED
    BY <2>1, <2>2, ResetParts
<1>3. CASE CodeIsGood(u, code)
  <2>1. profile[u].count \in Nat
    BY DEF TypeOK, Profile
  <2>2. PICK d \in Call : d = [Idle EXCEPT !.at = "reset_token", !.user = u,
                                          !.code = code, !.count = profile[u].count]
    BY <2>1, BeginsWith
  <2>3. d.at = "reset_token" /\ (d.at = "idle" <=> d.user = Null)
    BY <2>2, IdleIsCall, ResetAssumption DEF Call
  <2>4. call' = [call EXCEPT ![t] = d]
    BY <1>3, <2>2 DEF ResetChecks
  <2>5. /\ call' \in [Threads -> Call] /\ call'[t] = d
        /\ \A s \in Threads \ {t} : call'[s] = call[s]
        /\ \A s \in Threads : call'[s].at = "idle" <=> call'[s].user = Null
    BY <2>3, <2>4, Moves
  <2>6. TypeOK'
    BY <1>1, <2>5 DEF TypeOK, histories
  <2>7. MessageParts'
    BY <1>1, <2>3, <2>5, IdleIsCall, MessagesKept DEF histories
  <2>8. TokenParts'
    BY <1>1, <2>3, <2>5, TokensKept DEF histories, Writing
  <2>9. QED
    BY <2>6, <2>7, <2>8, ResetParts
<1>4. QED
  BY <1>2, <1>3 DEF ResetChecks

\* GeneratePasswordResetToken, in its two statements, and the last one of WebSecurity.ResetPassword.
LEMMA ResetTokensKeep ==
    ASSUME ResetInv, NEW t \in Threads, ResetGenerates(t) \/ ResetWrites(t) \/ ResetClears(t)
    PROVE  ResetInv'
<1> USE DEF ResetInv
<1>1. CASE ResetGenerates(t)
  <2>1. /\ call[t].at = "reset_token"
        /\ ReadsToken(t, call[t].user, "reset_apply", "reset_write", call[t])
    BY <1>1 DEF ResetGenerates
  <2>2. call[t] \in Call /\ call[t].user \in Users
    BY <2>1, InProgress
  <2>3. QED
    BY <2>1, <2>2, ReadsTokenKeeps DEF Writing
<1>2. CASE ResetWrites(t)
  BY <1>2, WritesTokenKeeps DEF ResetWrites, Writing
<1>3. CASE ResetClears(t)
  <2>1. PICK d : d = [call[t] EXCEPT !.at = "reset_count"]
    OBVIOUS
  <2>2. call[t].at = "reset_clear" /\ ClearsToken(t, d)
    BY <1>3, <2>1 DEF ResetClears
  <2>3. call[t] \in Call /\ call[t].user # Null
    BY <2>2, InProgress
  <2>4. d \in Call /\ (d.at = "idle" <=> d.user = Null) /\ d.at = "reset_count"
    BY <2>1, <2>3, GoesOn
  <2>5. QED
    BY <2>2, <2>4, ClearsTokenKeeps
<1>4. QED
  BY <1>1, <1>2, <1>3

\* WebSecurity.ResetPassword looks for the row that has the token; the request fails when it is gone.
LEMMA ResetAppliesKeeps ==
    ASSUME ResetInv, NEW t \in Threads, ResetApplies(t)
    PROVE  ResetInv'
<1> USE DEF ResetInv
<1>1. /\ call[t].at = "reset_apply"
      /\ UNCHANGED <<profile, membership, codes, tokens, mailed, histories>>
  BY DEF ResetApplies
<1>2. call[t] \in Call /\ call[t].user # Null
  BY <1>1, InProgress
<1>3. PICK d \in Call : /\ call' = [call EXCEPT ![t] = d] /\ (d.at = "idle" <=> d.user = Null)
                        /\ d.at \in {"idle", "reset_clear"}
  <2>1. CASE membership[call[t].user] = call[t].token
    <3>1. PICK d : d = [call[t] EXCEPT !.at = "reset_clear"]
      OBVIOUS
    <3>2. d \in Call /\ (d.at = "idle" <=> d.user = Null) /\ d.at = "reset_clear"
      BY <1>2, <3>1, GoesOn
    <3>3. QED
      BY <2>1, <3>1, <3>2 DEF ResetApplies
  <2>2. CASE membership[call[t].user] # call[t].token
    BY <2>2, IdleIsCall DEF ResetApplies, Return
  <2>3. QED
    BY <2>1, <2>2
<1>4. /\ call' \in [Threads -> Call] /\ call'[t] = d
      /\ \A s \in Threads \ {t} : call'[s] = call[s]
      /\ \A s \in Threads : call'[s].at = "idle" <=> call'[s].user = Null
  BY <1>3, Moves
<1>5. TypeOK'
  BY <1>1, <1>4 DEF TypeOK, histories
<1>6. MessageParts'
  BY <1>1, <1>3, <1>4, MessagesKept DEF histories
<1>7. TokenParts'
  BY <1>1, <1>3, <1>4, TokensKept DEF histories, Writing
<1>8. QED
  BY <1>5, <1>6, <1>7, ResetParts

\* ResetTokenCount: the messages are counted from zero again, or, when the column did not
\* look changed, go on being counted.
LEMMA ResetCountsKeeps ==
    ASSUME ResetInv, NEW t \in Threads, ResetCounts(t)
    PROVE  ResetInv'
<1> USE DEF ResetInv
<1> DEFINE u == call[t].user
<1>1. u \in Users /\ profile[u] \in Profile
  <2>1. call[t] \in Call /\ call[t].at = "reset_count"
    BY DEF TypeOK, ResetCounts
  <2>2. call[t].user # Null
    BY <2>1 DEF TypeOK
  <2>3. u \in Users
    BY <2>1, <2>2 DEF Call
  <2>4. QED
    BY <2>3 DEF TypeOK
<1>2. /\ call' = [call EXCEPT ![t] = Idle] /\ call[t].at = "reset_count"
      /\ UNCHANGED <<membership, codes, tokens, mailed, delivered, minute, failed, overlapped,
                     crossed>>
  BY DEF ResetCounts, Return
<1>3. /\ call' \in [Threads -> Call] /\ call'[t] = Idle
      /\ \A s \in Threads \ {t} : call'[s] = call[s]
      /\ \A s \in Threads : call'[s].at = "idle" <=> call'[s].user = Null
  BY <1>2, Moves, IdleIsCall
<1>4. TokenParts'
  BY <1>2, <1>3, IdleIsCall, TokensKept DEF Writing
<1>5. CASE UNCHANGED <<profile, hour>>
  <2>1. TypeOK'
    BY <1>2, <1>3, <1>5 DEF TypeOK
  <2>2. QED
    BY <1>2, <1>3, <1>4, <1>5, <2>1, IdleIsCall, MessagesKept, ResetParts
<1>6. CASE profile' = [profile EXCEPT ![u].count = 0] /\ hour' = [hour EXCEPT ![u] = 0]
  <2>1. PICK p \in Profile : p = [profile[u] EXCEPT !.count = 0]
    BY <1>1 DEF Profile
  <2>2. p.code = profile[u].code /\ p.age = profile[u].age /\ p.count = 0
    BY <1>1, <2>1 DEF Profile
  <2>3. profile' = [profile EXCEPT ![u] = p]
    BY <1>6, <2>1
  <2>4. /\ profile' \in [Users -> Profile] /\ profile'[u] = p
        /\ \A v \in Users \ {u} : profile'[v] = profile[v]
    BY <1>1, <2>3 DEF TypeOK
  <2>5. /\ hour' \in [Users -> Nat] /\ hour'[u] = 0
        /\ \A v \in Users \ {u} : hour'[v] = hour[v]
    BY <1>1, <1>6 DEF TypeOK
  <2>6. TypeOK'
    BY <1>2, <1>3, <2>4, <2>5 DEF TypeOK
  <2>7. SpacedInv'
    <3>1. ASSUME NEW v \in Users
          PROVE  minute[v] + Cardinality(Storing(v)') <= Cardinality(Threads)
      <4>1. Storing(v)' \subseteq Storing(v)
        BY <1>3, IdleIsCall DEF Storing
      <4>2. minute[v] \in Nat /\ minute[v] + Cardinality(Storing(v)) <= Cardinality(Threads)
        BY DEF TypeOK, SpacedInv
      <4>3. QED
        BY <4>1, <4>2, StoringCounts
    <3>2. \A v \in Users : profile'[v].age = profile[v].age
      BY <2>2, <2>4
    <3>3. QED
      BY <1>2, <3>1, <3>2 DEF SpacedInv
  <2>8. OnePrepares'
    BY <1>2, <1>3, IdleIsCall DEF OnePrepares
  <2>9. \A s \in Threads : call[s].at \in {"sms_store", "sms_send"} =>
           call[s].user \in Users /\ call[s].count \in Nat
    <3>1. ASSUME NEW s \in Threads, call[s].at \in {"sms_store", "sms_send"}
          PROVE  call[s].user \in Users /\ call[s].count \in Nat
      <4>1. call[s] \in Call /\ call[s].user # Null
        BY <3>1 DEF TypeOK
      <4>2. QED
        BY <4>1 DEF Call
    <3>2. QED
      BY <3>1
  <2>10. LimitInv'
    <3>1. ASSUME NEW v \in Users
          PROVE  /\ profile'[v].age \notin {"minute", "hour"} => hour'[v] = 0
                 /\ v \notin overlapped => hour'[v] <= profile'[v].count
      BY <2>2, <2>4, <2>5 DEF LimitInv
    <3>2. ASSUME NEW s \in Threads, call'[s].at = "sms_store", call'[s].user \notin overlapped
          PROVE  hour'[call'[s].user] <= call'[s].count /\ hour'[call'[s].user] < ResendLimit
      <4>1. call'[s] = call[s] /\ call[s].user \in Users /\ call[s].count \in Nat
        BY <1>3, <2>9, <3>2, IdleIsCall
      <4>2. CASE call[s].user = u
        BY <2>5, <4>1, <4>2, ResetAssumption
      <4>3. CASE call[s].user # u
        BY <2>5, <3>2, <4>1, <4>3 DEF LimitInv
      <4>4. QED
        BY <4>2, <4>3
    <3>3. QED
      BY <1>2, <3>1, <3>2 DEF LimitInv
  <2>11. MessageInv'
    BY <1>2, <1>3, <2>2, <2>4, <2>9, IdleIsCall DEF MessageInv
  <2>12. MessagesAreLimited'
    BY <1>2, <2>5, ResetAssumption DEF MessagesAreLimited
  <2>13. LastMessageWorks'
    <3>1. \A s \in Threads : call[s].at = "sms_send" => call'[s] = call[s]
      BY <1>2, <1>3
    <3>2. \A v \in Users : profile'[v].code = profile[v].code
      BY <2>2, <2>4
    <3>3. QED
      BY <1>2, <3>1, <3>2 DEF LastMessageWorks
  <2>14. QED
    BY <1>4, <2>6, <2>7, <2>8, <2>10, <2>11, <2>12, <2>13, ResetParts DEF MessageParts
<1>7. QED
  BY <1>5, <1>6 DEF ResetCounts

-----------------------------------------------------------------------------
\* The clock: a minute without a code begins the minute anew, an hour the hour.
LEMMA TimePassesKeeps ==
    ASSUME ResetInv, NEW u \in Users, TimePasses(u)
    PROVE  ResetInv'
<1> USE DEF ResetInv
<1>1. /\ profile[u] \in Profile /\ profile[u].age \in {"minute", "hour", "day"}
      /\ profile' = [profile EXCEPT ![u].age = Older[profile[u].age]]
      /\ minute' = [minute EXCEPT ![u] = 0]
      /\ hour' = [hour EXCEPT ![u] = IF profile[u].age = "hour" THEN 0 ELSE @]
      /\ UNCHANGED <<membership, call, codes, tokens, mailed, delivered, failed, overlapped,
                     crossed>>
  BY DEF TimePasses, Older, TypeOK
<1>2. /\ profile[u].age = "minute" => Older[profile[u].age] = "hour"
      /\ profile[u].age = "hour" => Older[profile[u].age] = "day"
      /\ profile[u].age = "day" => Older[profile[u].age] = "expired"
  BY DEF Older
<1>3. PICK age \in Age : age = Older[profile[u].age]
  BY <1>1, <1>2 DEF Age
<1>4. PICK p \in Profile : p = [profile[u] EXCEPT !.age = age]
  BY <1>1 DEF Profile
<1>5. p.code = profile[u].code /\ p.age = age /\ p.count = profile[u].count
  BY <1>1, <1>4 DEF Profile
<1>6. /\ profile' \in [Users -> Profile] /\ profile'[u] = p
      /\ \A v \in Users \ {u} : profile'[v] = profile[v]
  BY <1>1, <1>3, <1>4 DEF TypeOK
<1>7. /\ minute' \in [Users -> Nat] /\ minute'[u] = 0
      /\ \A v \in Users \ {u} : minute'[v] = minute[v]
  BY <1>1 DEF TypeOK
<1>8. /\ hour' \in [Users -> Nat] /\ hour[u] \in Nat
      /\ hour'[u] = IF profile[u].age = "hour" THEN 0 ELSE hour[u]
      /\ \A v \in Users \ {u} : hour'[v] = hour[v]
  BY <1>1 DEF TypeOK
<1>9. TypeOK'
  BY <1>1, <1>6, <1>7, <1>8 DEF TypeOK
<1>10. TokenParts'
  BY <1>1, TokensKept
<1>11. SpacedInv'
  <2>1. ASSUME NEW v \in Users
        PROVE  /\ profile'[v].age # "minute" => minute'[v] = 0
               /\ minute'[v] + Cardinality(Storing(v)') <= Cardinality(Threads)
    <3>1. Storing(v)' = Storing(v)
      BY <1>1 DEF Storing
    <3>2. CASE v = u
      BY <1>7, <3>2, StoringCounts
    <3>3. CASE v # u
      BY <1>6, <1>7, <3>1, <3>3 DEF SpacedInv
    <3>4. QED
      BY <3>2, <3>3
  <2>2. QED
    BY <2>1 DEF SpacedInv
<1>12. OnePrepares'
  BY <1>1 DEF OnePrepares
<1>13. \A v \in Users : /\ profile'[v].code = profile[v].code
                        /\ profile'[v].count = profile[v].count
                        /\ hour'[v] = hour[v] \/ hour'[v] = 0
                        /\ hour[v] \in Nat /\ profile[v].count \in Nat
  BY <1>5, <1>6, <1>8 DEF TypeOK, Profile
<1>14. \A t \in Threads : call[t].at \in {"sms_store", "sms_send"} =>
          call[t].user \in Users /\ call[t].count \in Nat
  <2>1. ASSUME NEW t \in Threads, call[t].at \in {"sms_store", "sms_send"}
        PROVE  call[t].user \in Users /\ call[t].count \in Nat
    <3>1. call[t] \in Call /\ call[t].user # Null
      BY <2>1 DEF TypeOK
    <3>2. QED
      BY <3>1 DEF Call
  <2>2. QED
    BY <2>1
<1>15. LimitInv'
  <2>1. ASSUME NEW v \in Users
        PROVE  /\ profile'[v].age \notin {"minute", "hour"} => hour'[v] = 0
               /\ v \notin overlapped => hour'[v] <= profile'[v].count
    <3>1. v \notin overlapped => hour'[v] <= profile'[v].count
      BY <1>13 DEF LimitInv
    <3>2. CASE v = u
      <4>1. profile'[v].age \notin {"minute", "hour"} => hour'[v] = 0
        BY <1>1, <1>2, <1>3, <1>5, <1>6, <1>8, <3>2 DEF LimitInv
      <4>2. QED
        BY <3>1, <4>1
    <3>3. CASE v # u
      BY <1>6, <1>8, <3>1, <3>3 DEF LimitInv
    <3>4. QED
      BY <3>2, <3>3
  <2>2. ASSUME NEW t \in Threads, call[t].at = "sms_store", call[t].user \notin overlapped
        PROVE  hour'[call[t].user] <= call[t].count /\ hour'[call[t].user] < ResendLimit
    BY <1>13, <1>14, <2>2, ResetAssumption DEF LimitInv
  <2>3. QED
    BY <1>1, <2>1, <2>2 DEF LimitInv
<1>16. MessageInv'
  BY <1>1, <1>13, <1>14 DEF MessageInv
<1>17. MessagesAreLimited' /\ LastMessageWorks'
  BY <1>1, <1>13, ResetAssumption DEF MessagesAreLimited, LastMessageWorks
<1>18. QED
  BY <1>9, <1>10, <1>11, <1>12, <1>15, <1>16, <1>17, ResetParts DEF MessageParts

-----------------------------------------------------------------------------
(* The invariant and what follows from it                                  *)

\* Before the first request nobody has a code or a token.
LEMMA ResetInit == Init => ResetInv
<1> SUFFICES ASSUME Init
             PROVE  ResetInv
  OBVIOUS
<1>1. TypeOK
  BY IdleIsCall, ResetAssumption DEF Init, TypeOK, Profile, Age
<1>2. SpacedInv
  <2>1. ASSUME NEW u \in Users
        PROVE  minute[u] + Cardinality(Storing(u)) <= Cardinality(Threads)
    <3>1. Storing(u) = {}
      BY IdleIsCall DEF Init, Storing
    <3>2. Cardinality(Storing(u)) = 0
      BY <3>1, FS_EmptySet
    <3>3. Cardinality(Threads) \in Nat
      BY ResetAssumption, FS_CardinalityType
    <3>4. QED
      BY <3>2, <3>3 DEF Init
  <2>2. QED
    BY <2>1 DEF Init, SpacedInv
<1>3. OnePrepares /\ LimitInv /\ MessageInv /\ HoldsToken
  BY IdleIsCall DEF Init, OnePrepares, LimitInv, MessageInv, HoldsToken, Writing
<1>4. MessagesAreLimited /\ LastMessageWorks /\ ResetFailsOnlyWhenOvertaken
  BY IdleIsCall, ResetAssumption
     DEF Init, MessagesAreLimited, LastMessageWorks, ResetFailsOnlyWhenOvertaken
<1>5. QED
  BY <1>1, <1>2, <1>3, <1>4 DEF ResetInv

\* Each step of each request, and of time, keeps the invariant.
LEMMA ResetStep == ResetInv /\ [Next]_vars => ResetInv'
<1> SUFFICES ASSUME ResetInv, [Next]_vars
             PROVE  ResetInv'
  OBVIOUS
<1>1. CASE UNCHANGED vars
  <2>1. TypeOK'
    BY <1>1 DEF vars, histories, ResetInv, TypeOK
  <2>2. QED
    BY <1>1, <2>1, MessagesKept, TokensKept, ResetParts DEF vars, histories
<1>2. ASSUME NEW t \in Threads, NEW u \in Phones, SmsChecks(t, u)
      PROVE  ResetInv'
  BY <1>2, SmsChecksKeeps
<1>3. ASSUME NEW t \in Threads, SmsStores(t)
      PROVE  ResetInv'
  BY <1>3, SmsStoresKeeps
<1>4. ASSUME NEW t \in Threads, SmsSends(t)
      PROVE  ResetInv'
  BY <1>4, SmsSendsKeeps
<1>5. ASSUME NEW t \in Threads, Fails(t)
      PROVE  ResetInv'
  BY <1>5, FailsKeeps
<1>6. ASSUME NEW t \in Threads, NEW u \in Users, NEW code \in Code, ResetChecks(t, u, code)
      PROVE  ResetInv'
  BY <1>6, ResetChecksKeeps
<1>7. ASSUME NEW t \in Threads, ResetGenerates(t) \/ ResetWrites(t) \/ ResetClears(t)
      PROVE  ResetInv'
  BY <1>7, ResetTokensKeep
<1>8. ASSUME NEW t \in Threads, ResetApplies(t)
      PROVE  ResetInv'
  BY <1>8, ResetAppliesKeeps
<1>9. ASSUME NEW t \in Threads, ResetCounts(t)
      PROVE  ResetInv'
  BY <1>9, ResetCountsKeeps
<1>10. ASSUME NEW t \in Threads,
              (\E u \in Users : MailBegins(t, u)) \/ MailWrites(t) \/ EmailClears(t)
       PROVE  ResetInv'
  BY <1>10, MailKeeps
<1>11. ASSUME NEW t \in Threads, MailSends(t)
       PROVE  ResetInv'
  BY <1>11, MailSendsKeeps
<1>12. ASSUME NEW t \in Threads, NEW token \in Token, EmailBegins(t, token)
       PROVE  ResetInv'
  BY <1>12, EmailBeginsKeeps
<1>13. ASSUME NEW u \in Users, TokenExpires(u) \/ TimePasses(u)
       PROVE  ResetInv'
  BY <1>13, TokenExpiresKeeps, TimePassesKeeps
<1>14. QED
  BY <1>1, <1>2, <1>3, <1>4, <1>5, <1>6, <1>7, <1>8, <1>9, <1>10, <1>11, <1>12, <1>13 DEF Next

\* The invariant holds for every number of requests and users and for every limit.
LEMMA ResetInvariant == Spec => []ResetInv
BY ResetInit, ResetStep, PTL DEF Spec

\* Every profile and every request is of its type.
THEOREM ResetTypeCorrect == Spec => []TypeOK
<1>1. ResetInv => TypeOK
  BY DEF ResetInv
<1>2. QED
  BY <1>1, ResetInvariant, PTL

\* GetPassWordByPhone: within a minute of each other a user gets no more codes than requests
\* can be in progress.  Each one that was stored is a request that is past its check, and no
\* request passes the check before the minute is over.
THEOREM MessagesSpaced == Spec => []MessagesAreSpaced
<1>1. ResetInv => MessagesAreSpaced
  <2> SUFFICES ASSUME ResetInv, NEW u \in Users
               PROVE  minute[u] <= Cardinality(Threads)
    BY DEF MessagesAreSpaced
  <2>1. minute[u] \in Nat /\ minute[u] + Cardinality(Storing(u)) <= Cardinality(Threads)
    BY DEF ResetInv, TypeOK, SpacedInv
  <2>2. QED
    BY <2>1, StoringCounts
<1>2. QED
  BY <1>1, ResetInvariant, PTL

\* The limit of messages is kept while no two are prepared for a user at once: the count in
\* the profile, and the one a request has read, never fall behind.
THEOREM MessagesLimited == Spec => []MessagesAreLimited
<1>1. ResetInv => MessagesAreLimited
  BY DEF ResetInv
<1>2. QED
  BY <1>1, ResetInvariant, PTL

\* The code in the last message that reached a user is the one in the profile, while no two
\* messages are prepared for her at once, and unless a later code was stored and its message
\* failed or is about to be sent.
THEOREM LastMessageIsGood == Spec => []LastMessageWorks
<1>1. ResetInv => LastMessageWorks
  BY DEF ResetInv
<1>2. QED
  BY <1>1, ResetInvariant, PTL

\* ResetPasswordByPhoneToken: while no two requests of a user make up a token at once, a reset
\* fails after its code was found right only when its token was spent or expired.  The provider
\* may read and write at different times: whoever is about to write found no token, so nobody
\* holds the one that goes.
THEOREM ResetsAreOvertaken == Spec => []ResetFailsOnlyWhenOvertaken
<1>1. ResetInv => ResetFailsOnlyWhenOvertaken
  BY DEF ResetInv
<1>2. QED
  BY <1>1, ResetInvariant, PTL
=============================================================================
