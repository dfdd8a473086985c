---------------------------- MODULE PasswordReset ----------------------------
(***************************************************************************)
(* Forgotten passwords: UserService.GetPassWord sends a code to the        *)
(* telephone or a link to the mailbox of a user, and                       *)
(* ResetPasswordByPhoneToken and ResetPasswordByEmailToken set a new       *)
(* password for it.  Messages to a telephone are throttled by the time of  *)
(* the last one and their number, two columns of UserProfile that are read *)
(* in one step and written in another, on any number of threads.           *)
(*                                                                         *)
(* The membership provider, which is not part of the repository, is taken  *)
(* to read a row in one statement and to update it in another, outside of  *)
(* any transaction.                                                        *)
(*                                                                         *)
(* Codes and links are numbered in the order in which they were made up.   *)
(* Time is the age of the last code: under a minute, under an hour, under  *)
(* the 1440 minutes after which it expires, or more.                       *)
(***************************************************************************)
EXTENDS Integers, FiniteSets

CONSTANTS
    Threads,
    Users,        \* the users whose account is confirmed and whose name is an e-mail address
    Phones,       \* those of them with a telephone number
    ResendLimit,  \* the messages after which an hour has to pass; 5 in the code
    MaxCodes,     \* bound: codes ever made up
    MaxTokens,    \* bound: reset tokens ever made up
    Null

ASSUME ResetAssumption ==
    /\ Threads # {} /\ IsFiniteSet(Threads)
    /\ Phones \subseteq Users
    /\ ResendLimit \in Nat \ {0} /\ MaxCodes \in Nat /\ MaxTokens \in Nat
    /\ Null \notin Nat \cup Users

Code == 1..MaxCodes
Token == 1..MaxTokens

Age == {"none", "minute", "hour", "day", "expired"}

\* Three columns of UserProfile that are written together, and PhonePasswordResendCount.
Profile == [code : Code \cup {Null}, age : Age, count : Nat]

Call == [at : {"idle", "sms_store", "sms_send", "mail_write", "mail_send", "email_clear",
               "reset_token", "reset_write", "reset_apply", "reset_clear", "reset_count"},
         user : Users \cup {Null}, code : Code \cup {Null}, count : Nat,
         token : Token \cup {Null}, overtaken : BOOLEAN]

VARIABLES
    profile,    \* UserProfile, by user
    membership, \* PasswordVerificationToken of webpages_Membership, by user
    call,       \* the call each thread is in, with its locals
    codes,      \* codes made up so far
    tokens,     \* reset tokens made up so far
    mailed,     \* reset tokens that a mail has taken to the user
    delivered,  \* history: the code of the last message that reached the user
    minute,     \* history: codes stored for the user since a minute without one
    hour,       \* history: codes stored since an hour without one, or since a reset
    failed,     \* history: users whose last code was stored and its message failed
    overlapped, \* history: users for whom two messages were prepared at once
    crossed     \* history: users for whom two new tokens were made up at once

histories == <<delivered, minute, hour, failed, overlapped, crossed>>

vars == <<profile, membership, call, codes, tokens, mailed, histories>>

Idle == [at |-> "idle", user |-> Null, code |-> Null, count |-> 0, token |-> Null,
         overtaken |-> FALSE]

Init ==
    /\ profile = [u \in Users |-> [code |-> Null, age |-> "none", count |-> 0]]
    /\ membership = [u \in Users |-> Null]
    /\ call = [t \in Threads |-> Idle]
    /\ codes = 0
    /\ tokens = 0
    /\ mailed = {}
    /\ delivered = [u \in Users |-> Null]
    /\ minute = [u \in Users |-> 0]
    /\ hour = [u \in Users |-> 0]
    /\ failed = {}
    /\ overlapped = {}
    /\ crossed = {}

Return(t) == call' = [call EXCEPT ![t] = Idle]

-----------------------------------------------------------------------------
(* A message to the telephone: GetPassWordByPhone                          *)

\* Mutant: one message too many.
TooFrequent_OneMore(p) ==
    p.age = "minute" \/ (p.count > ResendLimit /\ p.age = "hour")

\* Mutant: the minute between two messages is not asked for.
TooFrequent_NoMinute(p) == p.count >= ResendLimit /\ p.age \in {"minute", "hour"}

\* A message was sent less than a minute ago, or the limit is reached and the last one was
\* sent less than an hour ago.
TooFrequent(p) ==
    p.age = "minute" \/ (p.count >= ResendLimit /\ p.age = "hour")

Preparing(u) == \E t \in Threads : call[t].user = u /\ call[t].at \in {"sms_store", "sms_send"}

\* The profile is read and the code made up; a request that is refused changes nothing.
SmsChecks(t, u) ==
    /\ call[t] = Idle
    /\ codes < MaxCodes
    /\ ~TooFrequent(profile[u])
    /\ codes' = codes + 1
    /\ call' = [call EXCEPT ![t] = [Idle EXCEPT !.at = "sms_store", !.user = u,
                                    !.code = codes + 1, !.count = profile[u].count]]
    /\ overlapped' = IF Preparing(u) THEN overlapped \cup {u} ELSE overlapped
    /\ UNCHANGED <<profile, membership, tokens, mailed, delivered, minute, hour, failed, crossed>>

\* Mutant: a code is only stored by its first request.
StoredCode_Keeps(p, code) == IF p.code = Null THEN code ELSE p.code

StoredCode(p, code) == code

\* Mutant: the message is not counted.
Counted_Not(p, count) == count

\* The count of one more.  The time of the last message is overwritten before it is compared
\* with an hour ago, so the count is never set to zero here.
Counted(p, count) == count + 1

\* CreatePhonePasswordResetToken.  FindOne may return the object that the request has read
\* before or a fresh one, so the count is that of either moment.
SmsStores(t) ==
    LET u == call[t].user IN
    /\ call[t].at = "sms_store"
    /\ \E count \in {call[t].count, profile[u].count} :
          profile' = [profile EXCEPT ![u] = [code |-> StoredCode(profile[u], call[t].code),
                                             age |-> "minute",
                                             count |-> Counted(profile[u], count)]]
    /\ call' = [call EXCEPT ![t].at = "sms_send"]
    /\ minute' = [minute EXCEPT ![u] = @ + 1]
    /\ hour' = [hour EXCEPT ![u] = @ + 1]
    /\ UNCHANGED <<membership, codes, tokens, mailed, delivered, failed, overlapped, crossed>>

SmsSends(t) ==
    LET u == call[t].user IN
    /\ call[t].at = "sms_send"
    /\ delivered' = [delivered EXCEPT ![u] = call[t].code]
    /\ failed' = failed \ {u}
    /\ Return(t)
    /\ UNCHANGED <<profile, membership, codes, tokens, mailed, minute, hour, overlapped, crossed>>

\* A message or a save fails: SendSMS or SendValidateMail returns false, or an exception ends the
\* request.  What was stored stays.
Fails(t) ==
    /\ call[t].at # "idle"
    /\ failed' = IF call[t].at = "sms_send" THEN failed \cup {call[t].user} ELSE failed
    /\ Return(t)
    /\ UNCHANGED <<profile, membership, codes, tokens, mailed, delivered, minute, hour, overlapped,
                   crossed>>

-----------------------------------------------------------------------------
(* Reset tokens of the membership provider                                 *)

Writing == {"mail_write", "reset_write"}

\* GeneratePasswordResetToken reads the token that is still valid ..
ReadsToken(t, u, found, missing, c) ==
    /\ call' = [call EXCEPT ![t] = IF membership[u] # Null
                                   THEN [c EXCEPT !.at = found, !.token = membership[u]]
                                   ELSE [c EXCEPT !.at = missing]]
    /\ UNCHANGED <<profile, membership, codes, tokens, mailed, histories>>

\* .. and when there was none writes a new one, over what another has written since.
WritesToken(t, next) ==
    LET u == call[t].user IN
    /\ tokens < MaxTokens
    /\ tokens' = tokens + 1
    /\ membership' = [membership EXCEPT ![u] = tokens + 1]
    /\ call' = [call EXCEPT ![t].at = next, ![t].token = tokens + 1]
    /\ crossed' = IF \E s \in Threads \ {t} : call[s].user = u /\ call[s].at \in Writing
                  THEN crossed \cup {u} ELSE crossed
    /\ UNCHANGED <<profile, codes, mailed, delivered, minute, hour, failed, overlapped>>

\* The calls of the other threads that hold the token of u, which is spent or expired.
Overtaken(u) ==
    [s \in Threads |-> IF call[s].user = u /\ call[s].at = "reset_apply"
                       THEN [call[s] EXCEPT !.overtaken = TRUE] ELSE call[s]]

\* Tokens expire after a day.
TokenExpires(u) ==
    /\ membership[u] # Null
    /\ membership' = [membership EXCEPT ![u] = Null]
    /\ call' = Overtaken(u)
    /\ UNCHANGED <<profile, codes, tokens, mailed, histories>>

\* The last statement of WebSecurity.ResetPassword: the row of u loses its token, whichever it has.
ClearsToken(t, calls) ==
    /\ membership' = [membership EXCEPT ![call[t].user] = Null]
    /\ call' = [Overtaken(call[t].user) EXCEPT ![t] = calls]
    /\ UNCHANGED <<profile, codes, tokens, mailed, histories>>

-----------------------------------------------------------------------------
(* A mail with a link: GetPassWordByEmail and ResetPasswordByEmailToken    *)

\* Mutant: no token is made up for a user who has none.
MailBegins_NoToken(t, u) ==
    /\ call[t] = Idle
    /\ ReadsToken(t, u, "mail_send", "mail_send", [Idle EXCEPT !.user = u])

MailBegins(t, u) ==
    /\ call[t] = Idle
    /\ ReadsToken(t, u, "mail_send", "mail_write", [Idle EXCEPT !.user = u])

MailWrites(t) == call[t].at = "mail_write" /\ WritesToken(t, "mail_send")

\* A mail that fails leaves the token behind.
MailSends(t) ==
    /\ call[t].at = "mail_send"
    /\ mailed' = mailed \cup {call[t].token}
    /\ Return(t)
    /\ UNCHANGED <<profile, membership, codes, tokens, histories>>

\* WebSecurity.ResetPassword with the link of a mail: the row that has the token is looked for,
\* its password set and its token cleared.
EmailBegins(t, token) ==
    \E u \in Users :
        /\ call[t] = Idle
        /\ token \in mailed /\ membership[u] = token
        /\ call' = [call EXCEPT ![t] = [Idle EXCEPT !.at = "email_clear", !.user = u]]
        /\ UNCHANGED <<profile, membership, codes, tokens, mailed, histories>>

EmailClears(t) == call[t].at = "email_clear" /\ ClearsToken(t, Idle)

-----------------------------------------------------------------------------
(* ResetPasswordByPhoneToken                                               *)

CodeIsGood(u, code) == profile[u].code = code /\ profile[u].age # "expired"

\* The code is compared and its time looked at; it stays in the profile.  A wrong or expired
\* code is refused, and that of a user who has none is a null reference: nothing changes.
ResetChecks(t, u, code) ==
    /\ call[t] = Idle
    /\ IF CodeIsGood(u, code)
       THEN call' = [call EXCEPT ![t] = [Idle EXCEPT !.at = "reset_token", !.user = u,
                                                     !.code = code, !.count = profile[u].count]]
       ELSE UNCHANGED call
    /\ UNCHANGED <<profile, membership, codes, tokens, mailed, histories>>

\* Mutant: every reset makes up a token of its own.
ResetGenerates_Anew(t) ==
    /\ call[t].at = "reset_token"
    /\ call' = [call EXCEPT ![t].at = "reset_write"]
    /\ UNCHANGED <<profile, membership, codes, tokens, mailed, histories>>

ResetGenerates(t) ==
    /\ call[t].at = "reset_token"
    /\ ReadsToken(t, call[t].user, "reset_apply", "reset_write", call[t])

ResetWrites(t) == call[t].at = "reset_write" /\ WritesToken(t, "reset_apply")

\* WebSecurity.ResetPassword looks for the token, and a request whose token is gone fails.
ResetApplies(t) ==
    /\ call[t].at = "reset_apply"
    /\ IF membership[call[t].user] = call[t].token
       THEN call' = [call EXCEPT ![t].at = "reset_clear"]
       ELSE Return(t)
    /\ UNCHANGED <<profile, membership, codes, tokens, mailed, histories>>

ResetClears(t) ==
    /\ call[t].at = "reset_clear"
    /\ ClearsToken(t, [call[t] EXCEPT !.at = "reset_count"])

\* ResetTokenCount.  A column is only written when it differs from what the request read
\* first, so a count that was zero then may stay as it has become since.
ResetCounts(t) ==
    LET u == call[t].user IN
    /\ call[t].at = "reset_count"
    /\ \/ /\ profile' = [profile EXCEPT ![u].count = 0]
          /\ hour' = [hour EXCEPT ![u] = 0]
       \/ call[t].count = 0 /\ UNCHANGED <<profile, hour>>
    /\ Return(t)
    /\ UNCHANGED <<membership, codes, tokens, mailed, delivered, minute, failed, overlapped, crossed>>

-----------------------------------------------------------------------------
Older == [minute |-> "hour", hour |-> "day", day |-> "expired"]

\* A minute, an hour or a day has passed since the last code.
TimePasses(u) ==
    LET age == profile[u].age IN
    /\ age \in DOMAIN Older
    /\ profile' = [profile EXCEPT ![u].age = Older[age]]
    /\ minute' = [minute EXCEPT ![u] = 0]
    /\ hour' = [hour EXCEPT ![u] = IF age = "hour" THEN 0 ELSE @]
    /\ UNCHANGED <<membership, call, codes, tokens, mailed, delivered, failed, overlapped, crossed>>

Next ==
    \/ \E t \in Threads :
          \/ \E u \in Phones : SmsChecks(t, u)
          \/ SmsStores(t)
          \/ SmsSends(t)
          \/ Fails(t)
          \/ \E u \in Users : MailBegins(t, u)
          \/ MailWrites(t)
          \/ MailSends(t)
          \/ \E token \in Token : EmailBegins(t, token)
          \/ EmailClears(t)
          \/ \E u \in Users, code \in Code : ResetChecks(t, u, code)
          \/ ResetGenerates(t)
          \/ ResetWrites(t)
          \/ ResetApplies(t)
          \/ ResetClears(t)
          \/ ResetCounts(t)
    \/ \E u \in Users : TokenExpires(u) \/ TimePasses(u)

Spec == Init /\ [][Next]_vars

-----------------------------------------------------------------------------
TypeOK ==
    /\ profile \in [Users -> Profile]
    /\ membership \in [Users -> Token \cup {Null}]
    /\ call \in [Threads -> Call]
    /\ \A t \in Threads : call[t].at = "idle" <=> call[t].user = Null
    /\ codes \in 0..MaxCodes /\ tokens \in 0..MaxTokens
    /\ mailed \subseteq Token
    /\ delivered \in [Users -> Code \cup {Null}]
    /\ minute \in [Users -> Nat] /\ hour \in [Users -> Nat]
    /\ failed \subseteq Users /\ overlapped \subseteq Users /\ crossed \subseteq Users

\* However requests overlap, a user gets no more codes within a minute of each other than
\* requests can be in progress: whoever looks after the first was stored is refused.
MessagesAreSpaced == \A u \in Users : minute[u] <= Cardinality(Threads)

\* While no two messages are prepared for a user at once, no more than ResendLimit codes
\* are stored for her without an hour, or a reset, in between.
MessagesAreLimited == \A u \in Users \ overlapped : hour[u] <= ResendLimit

\* While no two messages are prepared for a user at once, the code that the reset compares with is
\* the one in the last message that reached her: unless a later code was stored and its message
\* failed, or is about to be sent, which takes the earlier code with it.
LastMessageWorks ==
    \A u \in Users \ (overlapped \cup failed) :
        (\A t \in Threads : ~(call[t].user = u /\ call[t].at = "sms_send")) =>
            profile[u].code = delivered[u]

\* A reset whose code was right only fails when another reset of the same user was done, or a day
\* had passed, since it had its token: until then it holds the user's valid token.  Two requests
\* that found none and both made up a new one are the exception: one writes over the other's.
ResetFailsOnlyWhenOvertaken ==
    \A t \in Threads :
        (call[t].at = "reset_apply" /\ ~call[t].overtaken /\ call[t].user \notin crossed)
            => membership[call[t].user] = call[t].token

-----------------------------------------------------------------------------
(* The inductive invariants behind these properties                        *)

\* The requests that have passed the check for u and have not stored their code.
Storing(u) == {t \in Threads : call[t].user = u /\ call[t].at = "sms_store"}

\* Every code of this minute was stored by a request that is no longer about to store one, and
\* no request joins them while the minute lasts.
SpacedInv ==
    \A u \in Users :
        /\ profile[u].age # "minute" => minute[u] = 0
        /\ minute[u] + Cardinality(Storing(u)) <= Cardinality(Threads)

\* One request at a time prepares a message for a user that is not overlapped.
OnePrepares ==
    \A u \in Users \ overlapped, t, other \in Threads :
        (/\ call[t].user = u /\ call[t].at \in {"sms_store", "sms_send"}
         /\ call[other].user = u /\ call[other].at \in {"sms_store", "sms_send"}) => t = other

\* The count never falls behind the codes it counts, neither in the profile nor in what a
\* request has read of it, and who has passed the check has one message left.
LimitInv ==
    /\ \A u \in Users : profile[u].age \notin {"minute", "hour"} => hour[u] = 0
    /\ \A u \in Users \ overlapped : hour[u] <= profile[u].count
    /\ \A t \in Threads : call[t].at = "sms_store" /\ call[t].user \notin overlapped =>
          hour[call[t].user] <= call[t].count /\ hour[call[t].user] < ResendLimit

\* What a request is about to send is what it has stored.
MessageInv ==
    \A t \in Threads : call[t].at = "sms_send" /\ call[t].user \notin overlapped =>
        profile[call[t].user].code = call[t].code

\* A request that holds a token holds a real one, and one that is about to write a new token
\* replaces none.
HoldsToken ==
    \A t \in Threads :
        /\ call[t].at \in {"reset_apply", "mail_send"} => call[t].token \in Token
        /\ call[t].at \in Writing /\ call[t].user \notin crossed => membership[call[t].user] = Null

ResetInv ==
    /\ TypeOK /\ SpacedInv /\ OnePrepares /\ LimitInv /\ MessageInv /\ HoldsToken
    /\ MessagesAreLimited /\ LastMessageWorks /\ ResetFailsOnlyWhenOvertaken
=============================================================================
