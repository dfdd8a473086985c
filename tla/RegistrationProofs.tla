------------------------- MODULE RegistrationProofs -------------------------
(***************************************************************************)
(* Proofs about Registration: what a user may lack, and whom she may share *)
(* her name or her nick with, however requests overlap and fail.           *)
(***************************************************************************)
EXTENDS Registration, TLAPS

\* A row is added to a table: the others keep their place.
LEMMA AppendRow ==
    ASSUME NEW S, NEW rows \in Seq(S), NEW row \in S, NEW after, after = Append(rows, row)
    PROVE  /\ after \in Seq(S) /\ Len(after) = Len(rows) + 1
           /\ Len(rows) + 1 \notin DOMAIN rows
           /\ DOMAIN after = DOMAIN rows \cup {Len(rows) + 1}
           /\ after[Len(rows) + 1] = row
           /\ \A id \in DOMAIN rows : after[id] = rows[id]
OBVIOUS

\* A row is changed: the others keep their place and their values.
LEMMA ChangeRow ==
    ASSUME NEW S, NEW rows \in Seq(S), NEW id \in DOMAIN rows, NEW row \in S, NEW after,
           after = [rows EXCEPT ![id] = row]
    PROVE  /\ after \in Seq(S) /\ Len(after) = Len(rows)
           /\ DOMAIN after = DOMAIN rows
           /\ after[id] = row
           /\ \A other \in DOMAIN rows \ {id} : after[other] = rows[other]
OBVIOUS

\* The fields of a user that the requests write, one at a time.
LEMMA UserFields ==
    ASSUME NEW u \in User
    PROVE  /\ [u EXCEPT !.uid = TRUE] \in User
           /\ [u EXCEPT !.emailConfirmed = TRUE] \in User
           /\ \A account \in {"unconfirmed", "confirmed", "password_set"} :
                 [u EXCEPT !.account = account] \in User
           /\ \A nick \in Nicks : [u EXCEPT !.nick = nick] \in User
<1>1. [u EXCEPT !.uid = TRUE] \in User
  BY DEF User
<1>2. [u EXCEPT !.emailConfirmed = TRUE] \in User
  BY DEF User
<1>3. \A account \in {"unconfirmed", "confirmed", "password_set"} :
         [u EXCEPT !.account = account] \in User
  BY DEF User
<1>4. \A nick \in Nicks : [u EXCEPT !.nick = nick] \in User
  BY DEF User
<1>5. QED
  BY <1>1, <1>2, <1>3, <1>4

Places == {"idle", "nick_check", "create", "row", "account", "uid_find", "uid_insert", "mail",
           "confirm", "confirm_email", "ext_add", "ext_account", "unlink", "nick_save"}

\* A request goes to another place, remembers another row, or lets its external account go.
LEMMA CallFields ==
    ASSUME NEW c \in Call, NEW at \in Places
    PROVE  /\ [c EXCEPT !.at = at] \in Call
           /\ \A id \in 0..MaxUsers : [c EXCEPT !.at = at, !.id = id] \in Call
           /\ \A id \in 0..MaxUsers : [c EXCEPT !.at = at, !.found = id] \in Call
           /\ [c EXCEPT !.at = at, !.external = Null] \in Call
<1>1. [c EXCEPT !.at = at] \in Call
  BY DEF Call, Places
<1>2. ASSUME NEW id \in 0..MaxUsers
      PROVE  [c EXCEPT !.at = at, !.id = id] \in Call /\ [c EXCEPT !.at = at, !.found = id] \in Call
  BY DEF Call, Places
<1>3. [c EXCEPT !.at = at, !.external = Null] \in Call
  BY DEF Call, Places
<1>4. QED
  BY <1>1, <1>2, <1>3

\* The locals a request begins with.
LEMMA BeginFields ==
    ASSUME NEW at \in Places
    PROVE  /\ \A name \in Names, nick \in Nicks :
                 [Idle EXCEPT !.at = at, !.name = name, !.nick = nick] \in Call
           /\ \A name \in Names, a \in ExternalAccounts :
                 [Idle EXCEPT !.at = at, !.name = name, !.external = a] \in Call
           /\ \A nick \in Nicks, id \in 0..MaxUsers :
                 [Idle EXCEPT !.at = at, !.nick = nick, !.id = id] \in Call
<1>1. Idle \in Call /\ Idle = [at |-> "idle", name |-> Null, nick |-> Null, external |-> Null,
                             id |-> 0, found |-> 0]
  BY RegistrationAssumption DEF Call, Idle
<1>2. ASSUME NEW name \in Names, NEW nick \in Nicks
      PROVE  [Idle EXCEPT !.at = at, !.name = name, !.nick = nick] \in Call
  BY <1>1 DEF Call, Places
<1>3. ASSUME NEW name \in Names, NEW a \in ExternalAccounts
      PROVE  [Idle EXCEPT !.at = at, !.name = name, !.external = a] \in Call
  BY <1>1 DEF Call, Places
<1>4. ASSUME NEW nick \in Nicks, NEW id \in 0..MaxUsers
      PROVE  [Idle EXCEPT !.at = at, !.nick = nick, !.id = id] \in Call
  BY <1>1 DEF Call, Places
<1>5. QED
  BY <1>2, <1>3, <1>4

\* Request b becomes c.
Moved(b, c) == call' = [call EXCEPT ![b] = c] /\ c \in Call

\* The other requests stay where they are.
LEMMA Moves ==
    ASSUME TypeOK, NEW b \in Browsers, NEW c, Moved(b, c)
    PROVE  /\ call' \in [Browsers -> Call] /\ call'[b] = c
           /\ \A other \in Browsers \ {b} : call'[other] = call[other]
BY DEF TypeOK, Moved

\* A browser in no request has no locals.
LEMMA IdleIsCall ==
    /\ Idle \in Call
    /\ Idle.at = "idle" /\ Idle.name = Null /\ Idle.nick = Null /\ Idle.id = 0
BY RegistrationAssumption DEF Idle, Call

\* ... and nothing to rely on.
LEMMA IdleIsOK == CallOK(Idle)'
BY IdleIsCall DEF CallOK, Creating

\* Row id becomes u.
Changed(id, u) ==
    /\ id \in DOMAIN users /\ u \in User /\ users' = [users EXCEPT ![id] = u]

\* The other rows stay as they are.
LEMMA Changes ==
    ASSUME TypeOK, NEW id, NEW u, Changed(id, u)
    PROVE  /\ users' \in Seq(User) /\ Len(users') = Len(users) /\ DOMAIN users' = DOMAIN users
           /\ users'[id] = u
           /\ \A other \in DOMAIN users \ {id} : users'[other] = users[other]
BY ChangeRow DEF TypeOK, Changed

\* Row u is added.
Added(u) == u \in User /\ Len(users) < MaxUsers /\ users' = Append(users, u)

\* The new row has a key that no row had.
LEMMA Adds ==
    ASSUME TypeOK, NEW u, Added(u)
    PROVE  /\ users' \in Seq(User) /\ Len(users') <= MaxUsers
           /\ Len(users) + 1 \in 0..MaxUsers /\ Len(users) + 1 \notin DOMAIN users
           /\ DOMAIN users' = DOMAIN users \cup {Len(users) + 1}
           /\ users'[Len(users) + 1] = u
           /\ \A id \in DOMAIN users : users'[id] = users[id]
<1>1. /\ users' \in Seq(User) /\ Len(users') = Len(users) + 1
      /\ Len(users) + 1 \notin DOMAIN users
      /\ DOMAIN users' = DOMAIN users \cup {Len(users) + 1}
      /\ users'[Len(users) + 1] = u
      /\ \A id \in DOMAIN users : users'[id] = users[id]
  BY AppendRow DEF TypeOK, Added
<1>2. QED
  BY <1>1, RegistrationAssumption DEF TypeOK, Added

\* The keys of the rows are numbers from 1.
LEMMA Keys ==
    ASSUME TypeOK
    PROVE  /\ DOMAIN users \subseteq 0..MaxUsers /\ 0 \notin DOMAIN users
           /\ \A id \in DOMAIN users : users[id] \in User
BY RegistrationAssumption DEF TypeOK

\* Two requests that find something free at a time are remembered.
LEMMA Races ==
    ASSUME TypeOK, NEW open, NEW what \in Names \cup Nicks, RacesFor(open, what)
    PROVE  /\ raced \subseteq raced' /\ raced' \subseteq Names \cup Nicks
           /\ open => what \in raced'
BY DEF TypeOK, RacesFor

-----------------------------------------------------------------------------
(* What no request undoes, and what a step keeps when it leaves alone what *)
(* a part of the invariant is about.                                       *)

HasLogin(id) == users[id].account # "none" \/ Links(id) # {} \/ id \in taken

Holding == HoldingName \cup HoldingNick

Grows ==
    /\ DOMAIN users \subseteq DOMAIN users'
    /\ \A id \in DOMAIN users :
          /\ users'[id].name = users[id].name
          /\ users[id].uid => users'[id].uid
          /\ users[id].account # "none" => users'[id].account # "none"
          /\ users[id].account = "confirmed" => users'[id].account = "confirmed"
    /\ mailed \subseteq mailed' /\ resent \subseteq resent'
    /\ broken \subseteq broken' /\ raced \subseteq raced'

\* A login is only lost to another, or for a raced name.
LoginsGrow ==
    \A id \in DOMAIN users : HasLogin(id) => HasLogin(id)' \/ users[id].name \in raced'

\* No other row gets a name or a nick, and no account is confirmed.
SameNicks == \A id \in DOMAIN users : users'[id].nick = users[id].nick
SameAccounts ==
    \A id \in DOMAIN users : users'[id].account = "confirmed" => users[id].account = "confirmed"
SameEmails == \A id \in DOMAIN users : users'[id].emailConfirmed = users[id].emailConfirmed

\* The requests that do not move keep what they rely on.
LEMMA CallsKept ==
    ASSUME TypeOK, CallInv, Grows, NEW b \in Browsers, NEW c, Moved(b, c), CallOK(c)'
    PROVE  CallInv'
<1> SUFFICES ASSUME NEW other \in Browsers, other # b
             PROVE  CallOK(call[other])'
  BY Moves DEF CallInv
<1>1. call'[other] = call[other]
  BY Moves
<1>2. CallOK(call[other])
  BY DEF CallInv
<1>3. UserExists(call[other].name) => UserExists(call[other].name)'
  BY <1>1 DEF UserExists, Grows
<1>4. call[other].found \in IdsOf(call[other].name) =>
         call'[other].found \in IdsOf(call[other].name)'
  BY <1>1 DEF IdsOf, Grows
<1>5. QED
  BY <1>1, <1>2, <1>3, <1>4 DEF CallOK, Grows

\* Names stay as unique as they are while no row is added or gets another nick and no request
\* finds a name or a nick free.
LEMMA UniqueKept ==
    ASSUME TypeOK, OpenInv, NamesAreUnique, Grows, SameNicks, DOMAIN users' = DOMAIN users,
           \A b \in Browsers : call'[b] = call[b] \/ call'[b].at \notin Holding
    PROVE  OpenInv' /\ NamesAreUnique'
<1>1. NamesAreUnique'
  BY DEF NamesAreUnique, Grows, SameNicks
<1>2. OpenInv'
  <2>1. ASSUME NEW b \in Browsers, call'[b].at \in HoldingName, UserExists(call[b].name)'
        PROVE  call'[b].name \in raced'
    BY <2>1 DEF OpenInv, Grows, UserExists, Holding
  <2>2. ASSUME NEW b \in Browsers, call'[b].at \in HoldingNick, UserNickExist(call[b].nick)'
        PROVE  call'[b].nick \in raced'
    BY <2>2 DEF OpenInv, Grows, SameNicks, UserNickExist, Holding
  <2>3. ASSUME NEW b \in Browsers, NEW other \in Browsers, b # other,
               call'[b].at \in HoldingName, call'[other].at \in HoldingName,
               call'[b].name = call'[other].name
        PROVE  call'[b].name \in raced'
    BY <2>3 DEF OpenInv, Grows, Holding
  <2>4. ASSUME NEW b \in Browsers, NEW other \in Browsers, b # other,
               call'[b].at \in HoldingNick, call'[other].at \in HoldingNick,
               call'[b].nick = call'[other].nick
        PROVE  call'[b].nick \in raced'
    BY <2>4 DEF OpenInv, Grows, Holding
  <2>5. QED
    BY <2>1, <2>2, <2>3, <2>4 DEF OpenInv
<1>3. QED
  BY <1>1, <1>2

\* A request that is at one of these places is creating this user.
Gives(id, places) == \E b \in Browsers : call[b].id = id /\ call[b].at \in places
IsComplete(id) ==
    \/ users[id].name \in raced \/ id \in broken
    \/ /\ users[id].uid \/ Gives(id, Creating)
       /\ HasLogin(id) \/ Gives(id, {"account", "ext_account"})

\* CompleteInv says of each user that she is complete, in this state and in the next.
LEMMA CompleteIs ==
    /\ CompleteInv <=> \A id \in DOMAIN users : IsComplete(id)
    /\ CompleteInv' <=> \A id \in DOMAIN users' : IsComplete(id)'
BY DEF CompleteInv, IsComplete, Gives, HasLogin

\* Users stay as complete as they are while no row is added and no request that is creating
\* one moves.
LEMMA CompleteKept ==
    ASSUME TypeOK, CompleteInv, Grows, LoginsGrow, DOMAIN users' = DOMAIN users,
           \A b \in Browsers : call'[b] = call[b] \/ call[b].at \notin Creating
    PROVE  CompleteInv'
<1>1. \A id, places : places \subseteq Creating => (Gives(id, places) => Gives(id, places)')
  BY DEF Gives
<1>2. ASSUME NEW id \in DOMAIN users
      PROVE  IsComplete(id)'
  <2>1. IsComplete(id)
    BY CompleteIs
  <2>2. /\ Gives(id, Creating) => Gives(id, Creating)'
        /\ Gives(id, {"account", "ext_account"}) => Gives(id, {"account", "ext_account"})'
    BY <1>1 DEF Creating
  <2>3. QED
    BY <2>1, <2>2 DEF IsComplete, Grows, LoginsGrow
<1>3. QED
  BY <1>2, CompleteIs

\* A request that is creating a user finds a row of her name: her own, if the name is not raced,
\* and then it writes there what it is about to write.
LEMMA CreatingKept ==
    ASSUME TypeOK, CallInv, NamesAreUnique, CompleteInv, Grows, LoginsGrow,
           DOMAIN users' = DOMAIN users,
           NEW b \in Browsers, call[b].at \in Creating, NEW c, Moved(b, c),
           NEW id \in IdsOf(call[b].name),
           users[id].name \in raced
              \/ /\ users'[id].uid \/ (c.id = call[b].id /\ c.at \in Creating)
                 /\ call[b].at \in {"account", "ext_account"} => HasLogin(id)'
    PROVE  CompleteInv'
<1>1. call'[b] = c /\ \A other \in Browsers \ {b} : call'[other] = call[other]
  BY Moves
<1>2. ASSUME NEW k \in DOMAIN users
      PROVE  IsComplete(k)'
  <2>1. IsComplete(k)
    BY CompleteIs
  <2>2. CASE k # call[b].id
    <3>1. \A places : Gives(k, places) => Gives(k, places)'
      BY <1>1, <2>2 DEF Gives
    <3>2. QED
      BY <2>1, <3>1 DEF IsComplete, Grows, LoginsGrow
  <2>3. CASE k = call[b].id /\ users[k].name \notin raced
    <3>1. users[k].name = call[b].name
      BY <2>3, Keys DEF CallInv, CallOK
    <3>2. id = k
      BY <2>3, <3>1 DEF NamesAreUnique, IdsOf
    <3>3. users'[k].uid \/ Gives(k, Creating)'
      BY <1>1, <2>3, <3>2 DEF Gives
    <3>4. call[b].at \notin {"account", "ext_account"} =>
             (Gives(k, {"account", "ext_account"}) => Gives(k, {"account", "ext_account"})')
      BY <1>1 DEF Gives
    <3>5. QED
      BY <2>1, <2>3, <3>2, <3>3, <3>4 DEF IsComplete, Grows, LoginsGrow
  <2>4. CASE users[k].name \in raced
    BY <2>4 DEF IsComplete, Grows
  <2>5. QED
    BY <2>2, <2>3, <2>4
<1>3. QED
  BY <1>2, CompleteIs

\* Who was sent a token stays the same while no account is confirmed and no mail is sent.
LEMMA MailKept ==
    ASSUME TypeOK, MailInv, Grows, SameAccounts, DOMAIN users' = DOMAIN users, mailed' = mailed
    PROVE  MailInv'
BY DEF MailInv, Grows, TypeOK, SameAccounts

\* The e-mail follows the account while neither is confirmed and no activation moves on.
LEMMA EmailKept ==
    ASSUME TypeOK, EmailFollowsAccount, Grows, SameAccounts, SameEmails,
           DOMAIN users' = DOMAIN users,
           \A b \in Browsers : call'[b] = call[b] \/ call[b].at # "confirm_email"
    PROVE  EmailFollowsAccount'
BY DEF EmailFollowsAccount, Grows, SameAccounts, SameEmails

\* Together, for a request that adds no row.
LEMMA Kept ==
    ASSUME RegistrationInv, Grows, LoginsGrow, DOMAIN users' = DOMAIN users,
           NEW b \in Browsers, NEW c, Moved(b, c), CallOK(c)'
    PROVE  /\ CallInv'
           /\ SameNicks /\ c.at \notin Holding => OpenInv' /\ NamesAreUnique'
           /\ call[b].at \notin Creating => CompleteInv'
           /\ SameAccounts /\ mailed' = mailed => MailInv'
           /\ SameAccounts /\ SameEmails /\ call[b].at # "confirm_email" => EmailFollowsAccount'
<1> USE DEF RegistrationInv
<1>1. call'[b] = c /\ \A other \in Browsers \ {b} : call'[other] = call[other]
  BY Moves
<1>2. CallInv'
  BY CallsKept
<1>3. ASSUME SameNicks, c.at \notin Holding
      PROVE  OpenInv' /\ NamesAreUnique'
  BY <1>1, <1>3, UniqueKept
<1>4. ASSUME call[b].at \notin Creating
      PROVE  CompleteInv'
  BY <1>1, <1>4, CompleteKept
<1>5. ASSUME SameAccounts, mailed' = mailed
      PROVE  MailInv'
  BY <1>5, MailKept
<1>6. ASSUME SameAccounts, SameEmails, call[b].at # "confirm_email"
      PROVE  EmailFollowsAccount'
  BY <1>1, <1>6, EmailKept
<1>7. QED
  BY <1>2, <1>3, <1>4, <1>5, <1>6

-----------------------------------------------------------------------------
(* The requests that leave the tables alone                                *)

\* A request that changes no row, no token and no history but that of the names, and is
\* neither creating a user nor activating an account.
LEMMA TableKept ==
    ASSUME RegistrationInv, UNCHANGED <<users, owner, mailed, resent, broken, taken>>,
           raced \subseteq raced', raced' \subseteq Names \cup Nicks,
           NEW b \in Browsers, NEW c, Moved(b, c), CallOK(c)',
           call[b].at \notin Creating, call[b].at # "confirm_email"
    PROVE  OpenInv' \/ c.at \notin Holding => RegistrationInv'
<1> USE DEF RegistrationInv
<1>1. TypeOK'
  BY Moves DEF TypeOK
<1>2. Grows /\ SameNicks /\ SameAccounts /\ SameEmails
  BY DEF Grows, SameNicks, SameAccounts, SameEmails
<1>3. LoginsGrow
  BY DEF LoginsGrow, HasLogin, Links
<1>4. /\ CallInv' /\ CompleteInv' /\ MailInv' /\ EmailFollowsAccount'
      /\ c.at \notin Holding => OpenInv'
  BY <1>2, <1>3, Kept
<1>5. NamesAreUnique'
  BY DEF NamesAreUnique
<1>6. QED
  BY <1>1, <1>4, <1>5

\* A request comes to hold a name or a nick, which is raced if it is taken or held by another.
LEMMA OpenMoved ==
    ASSUME TypeOK, OpenInv, UNCHANGED users, raced \subseteq raced',
           NEW b \in Browsers, NEW c, Moved(b, c),
           c.at \in HoldingName =>
              (UserExists(c.name) \/ NameIsOpen(b, c.name) => c.name \in raced'),
           c.at \in HoldingNick =>
              (UserNickExist(c.nick) \/ NickIsOpen(b, c.nick) => c.nick \in raced')
    PROVE  OpenInv'
<1>1. call'[b] = c /\ \A other \in Browsers \ {b} : call'[other] = call[other]
  BY Moves
<1>2. ASSUME NEW one \in Browsers, call'[one].at \in HoldingName, UserExists(call[one].name)'
      PROVE  call'[one].name \in raced'
  BY <1>1, <1>2 DEF OpenInv, UserExists
<1>3. ASSUME NEW one \in Browsers, call'[one].at \in HoldingNick, UserNickExist(call[one].nick)'
      PROVE  call'[one].nick \in raced'
  BY <1>1, <1>3 DEF OpenInv, UserNickExist
<1>4. ASSUME NEW one \in Browsers, NEW other \in Browsers, one # other,
             call'[one].at \in HoldingName, call'[other].at \in HoldingName,
             call'[one].name = call'[other].name
      PROVE  call'[one].name \in raced'
  BY <1>1, <1>4 DEF OpenInv, NameIsOpen
<1>5. ASSUME NEW one \in Browsers, NEW other \in Browsers, one # other,
             call'[one].at \in HoldingNick, call'[other].at \in HoldingNick,
             call'[one].nick = call'[other].nick
      PROVE  call'[one].nick \in raced'
  BY <1>1, <1>5 DEF OpenInv, NickIsOpen
<1>6. QED
  BY <1>2, <1>3, <1>4, <1>5 DEF OpenInv

\* A request that ends, having written nothing, where it was not creating a user.
LEMMA ReturnKeeps ==
    ASSUME RegistrationInv, NEW b \in Browsers, Return(b),
           UNCHANGED <<users, owner, mailed, histories>>,
           call[b].at \notin Creating, call[b].at # "confirm_email"
    PROVE  RegistrationInv'
<1>1. Moved(b, Idle)
  BY IdleIsCall DEF Return, Moved
<1>2. raced' \subseteq Names \cup Nicks
  BY DEF histories, RegistrationInv, TypeOK
<1>3. QED
  BY <1>1, <1>2, IdleIsCall, IdleIsOK, TableKept
     DEF histories, Holding, HoldingName, HoldingNick

\* Register: a form is looked at, and nothing is known of its nick yet.
LEMMA RegisterBeginsKeeps ==
    ASSUME RegistrationInv, NEW b \in Browsers, NEW name \in Names, NEW nick \in Nicks,
           RegisterBegins(b, name, nick)
    PROVE  RegistrationInv'
<1>1. PICK c \in Call : c = [Idle EXCEPT !.at = "nick_check", !.name = name, !.nick = nick]
  BY BeginFields DEF Places
<1>2. c.at = "nick_check" /\ c.name = name /\ c.nick = nick
  BY <1>1, IdleIsCall DEF Call
<1>3. Moved(b, c) /\ call[b] = Idle /\ UNCHANGED <<users, owner, mailed, histories>>
  BY <1>1 DEF RegisterBegins, Begins, Moved
<1>4. CallOK(c)'
  BY <1>2 DEF CallOK, Creating
<1>5. raced' \subseteq Names \cup Nicks
  BY <1>3 DEF histories, RegistrationInv, TypeOK
<1>6. QED
  BY <1>2, <1>3, <1>4, <1>5, IdleIsCall, TableKept
     DEF histories, Creating, Holding, HoldingName, HoldingNick

\* RegisterChecksNick: a nick that another request holds is raced from now on.
LEMMA RegisterChecksNickKeeps ==
    ASSUME RegistrationInv, NEW b \in Browsers, RegisterChecksNick(b)
    PROVE  RegistrationInv'
<1>1. call[b] \in Call /\ call[b].at = "nick_check" /\ call[b].name \in Names /\ call[b].nick \in Nicks
  BY DEF RegisterChecksNick, RegistrationInv, CallInv, CallOK, TypeOK
<1>2. UNCHANGED <<users, owner, mailed, resent, broken, taken>>
  BY DEF RegisterChecksNick
<1>3. CASE Return(b) /\ UNCHANGED raced
  BY <1>1, <1>2, <1>3, ReturnKeeps DEF histories, Creating
<1>4. CASE /\ ~UserNickExist(call[b].nick)
           /\ Goes(b, "create") /\ RacesFor(NickIsOpen(b, call[b].nick), call[b].nick)
  <2>1. PICK c \in Call : c = [call[b] EXCEPT !.at = "create"]
    BY <1>1, CallFields DEF Places
  <2>2. c.at = "create" /\ c.name = call[b].name /\ c.nick = call[b].nick
    BY <1>1, <2>1 DEF Call
  <2>3. Moved(b, c)
    BY <1>4, <2>1 DEF Goes, Moved
  <2>4. CallOK(c)'
    BY <1>1, <2>2 DEF CallOK, Creating
  <2>5. raced \subseteq raced' /\ raced' \subseteq Names \cup Nicks
        /\ (NickIsOpen(b, c.nick) => c.nick \in raced')
    BY <1>1, <1>4, <2>2, Races DEF RegistrationInv
  <2>6. OpenInv'
    BY <1>2, <1>4, <2>2, <2>3, <2>5, OpenMoved DEF RegistrationInv, HoldingName
  <2>7. QED
    BY <1>1, <1>2, <2>3, <2>4, <2>5, <2>6, TableKept DEF Creating
<1>5. QED
  BY <1>3, <1>4 DEF RegisterChecksNick

\* RegisterChecksName: a name that another request holds is raced from now on, and so is the
\* nick that this request holds already.
LEMMA RegisterChecksNameKeeps ==
    ASSUME RegistrationInv, NEW b \in Browsers, RegisterChecksName(b)
    PROVE  RegistrationInv'
<1>1. call[b] \in Call /\ call[b].at = "create" /\ call[b].name \in Names /\ call[b].nick \in Nicks
  BY DEF RegisterChecksName, RegistrationInv, CallInv, CallOK, TypeOK
<1>2. UNCHANGED <<users, owner, mailed, resent, broken, taken>>
  BY DEF RegisterChecksName
<1>3. CASE Return(b) /\ UNCHANGED raced
  BY <1>1, <1>2, <1>3, ReturnKeeps DEF histories, Creating
<1>4. CASE /\ ~UserExists(call[b].name)
           /\ Goes(b, "row") /\ RacesFor(NameIsOpen(b, call[b].name), call[b].name)
  <2>1. PICK c \in Call : c = [call[b] EXCEPT !.at = "row"]
    BY <1>1, CallFields DEF Places
  <2>2. c.at = "row" /\ c.name = call[b].name /\ c.nick = call[b].nick
    BY <1>1, <2>1 DEF Call
  <2>3. Moved(b, c)
    BY <1>4, <2>1 DEF Goes, Moved
  <2>4. CallOK(c)'
    BY <1>1, <2>2 DEF CallOK, Creating
  <2>5. raced \subseteq raced' /\ raced' \subseteq Names \cup Nicks
        /\ (NameIsOpen(b, c.name) => c.name \in raced')
    BY <1>1, <1>4, <2>2, Races DEF RegistrationInv
  <2>6. UserNickExist(c.nick) \/ NickIsOpen(b, c.nick) => c.nick \in raced
    BY <1>1, <2>2 DEF RegistrationInv, OpenInv, HoldingNick, NickIsOpen
  <2>7. OpenInv'
    BY <1>2, <1>4, <2>2, <2>3, <2>5, <2>6, OpenMoved DEF RegistrationInv
  <2>8. QED
    BY <1>1, <1>2, <2>3, <2>4, <2>5, <2>7, TableKept DEF Creating
<1>5. QED
  BY <1>3, <1>4 DEF RegisterChecksName

\* Activation: only who holds a token begins, so she was mailed.
LEMMA ActivationBeginsKeeps ==
    ASSUME RegistrationInv, NEW b \in Browsers, NEW id \in DOMAIN users, ActivationBegins(b, id)
    PROVE  RegistrationInv'
<1>1. id \in 0..MaxUsers
  BY Keys DEF RegistrationInv
<1>2. PICK c \in Call : c = [Idle EXCEPT !.at = "confirm", !.id = id]
  BY <1>1, IdleIsCall, CallFields DEF Places
<1>3. c.at = "confirm" /\ c.id = id
  BY <1>2, IdleIsCall DEF Call
<1>4. Moved(b, c) /\ call[b] = Idle /\ UNCHANGED <<users, owner, mailed, histories>>
  BY <1>2 DEF ActivationBegins, Begins, Moved
<1>5. CallOK(c)'
  BY <1>3, <1>4 DEF CallOK, Creating, ActivationBegins
<1>6. raced' \subseteq Names \cup Nicks
  BY <1>4 DEF histories, RegistrationInv, TypeOK
<1>7. QED
  BY <1>3, <1>4, <1>5, <1>6, IdleIsCall, TableKept
     DEF histories, Creating, Holding, HoldingName, HoldingNick

\* ExternalLoginConfirmation: the name is free, and raced if another request knows it is.
LEMMA ExternalBeginsKeeps ==
    ASSUME RegistrationInv, NEW b \in Browsers, NEW name \in Names, NEW a \in ExternalAccounts,
           ExternalBegins(b, name, a)
    PROVE  RegistrationInv'
<1>1. PICK c \in Call : c = [Idle EXCEPT !.at = "ext_add", !.name = name, !.external = a]
  BY BeginFields DEF Places
<1>2. c.at = "ext_add" /\ c.name = name /\ c.nick = Null /\ c.external = a
  BY <1>1, IdleIsCall DEF Call
<1>3. /\ Moved(b, c) /\ call[b] = Idle /\ UNCHANGED <<users, owner, mailed, resent, broken, taken>>
      /\ ~UserExists(name)
  BY <1>1 DEF ExternalBegins, Begins, Moved
<1>4. CallOK(c)'
  BY <1>2 DEF CallOK, Creating
<1>5. raced \subseteq raced' /\ raced' \subseteq Names \cup Nicks
      /\ (NameIsOpen(b, c.name) => c.name \in raced')
  BY <1>2, Races DEF ExternalBegins, RegistrationInv
<1>6. OpenInv'
  BY <1>2, <1>3, <1>5, OpenMoved DEF RegistrationInv, HoldingNick
<1>7. QED
  BY <1>3, <1>4, <1>5, <1>6, IdleIsCall, TableKept DEF Creating

\* ChangeNick: the new nick is free, and raced if another request holds it.
LEMMA ChangeNickChecksKeeps ==
    ASSUME RegistrationInv, NEW b \in Browsers, NEW name \in Names, NEW nick \in Nicks,
           ChangeNickChecks(b, name, nick)
    PROVE  RegistrationInv'
<1>1. PICK id \in DOMAIN users : Begins(b, [Idle EXCEPT !.at = "nick_save", !.nick = nick, !.id = id])
  BY DEF ChangeNickChecks, IdsOf
<1>2. id \in 0..MaxUsers
  BY Keys DEF RegistrationInv
<1>3. PICK c \in Call : c = [Idle EXCEPT !.at = "nick_save", !.nick = nick, !.id = id]
  BY <1>2, BeginFields DEF Places
<1>4. c.at = "nick_save" /\ c.nick = nick /\ c.id = id
  BY <1>3, IdleIsCall DEF Call
<1>5. /\ Moved(b, c) /\ call[b] = Idle /\ UNCHANGED <<users, owner, mailed, resent, broken, taken>>
      /\ ~UserNickExist(nick)
  BY <1>1, <1>3 DEF ChangeNickChecks, Begins, Moved
<1>6. CallOK(c)'
  BY <1>4, <1>5 DEF CallOK, Creating
<1>7. raced \subseteq raced' /\ raced' \subseteq Names \cup Nicks
      /\ (NickIsOpen(b, c.nick) => c.nick \in raced')
  BY <1>4, Races DEF ChangeNickChecks, RegistrationInv
<1>8. OpenInv'
  BY <1>4, <1>5, <1>7, OpenMoved DEF RegistrationInv, HoldingName
<1>9. QED
  BY <1>5, <1>6, <1>7, <1>8, IdleIsCall, TableKept DEF Creating

\* ExternalLoginCallback: the user to whom it links an external account exists.
LEMMA ExternalLinksKeeps ==
    ASSUME RegistrationInv, NEW b \in Browsers, NEW name \in Names, NEW a \in ExternalAccounts,
           ExternalLinks(b, name, a)
    PROVE  RegistrationInv'
<1>1. PICK c \in Call : c = [Idle EXCEPT !.at = "ext_account", !.name = name, !.external = a]
  BY BeginFields DEF Places
<1>2. c.at = "ext_account" /\ c.name = name /\ c.nick = Null /\ c.id = 0 /\ c.external = a
  BY <1>1, IdleIsCall DEF Call
<1>3. /\ Moved(b, c) /\ call[b] = Idle /\ UNCHANGED <<users, owner, mailed, histories>>
  BY <1>1 DEF ExternalLinks, Begins, Moved
<1>4. UserExists(name)'
  BY <1>3 DEF ExternalLinks, SignedIn, IdsOf, UserExists
<1>5. CallOK(c)'
  BY <1>2, <1>4 DEF CallOK
<1>6. raced' \subseteq Names \cup Nicks
  BY <1>3 DEF histories, RegistrationInv, TypeOK
<1>7. QED
  BY <1>2, <1>3, <1>5, <1>6, IdleIsCall, TableKept
     DEF histories, Creating, Holding, HoldingName, HoldingNick

\* Disassociate: it looks for the owner, and holds nothing.
LEMMA DisassociateBeginsKeeps ==
    ASSUME RegistrationInv, NEW b \in Browsers, NEW name \in Names, NEW a \in ExternalAccounts,
           DisassociateBegins(b, name, a)
    PROVE  RegistrationInv'
<1>1. PICK c \in Call : c = [Idle EXCEPT !.at = "unlink", !.name = name, !.external = a]
  BY BeginFields DEF Places
<1>2. c.at = "unlink" /\ c.external = a
  BY <1>1, IdleIsCall DEF Call
<1>3. /\ Moved(b, c) /\ call[b] = Idle /\ UNCHANGED <<users, owner, mailed, histories>>
  BY <1>1 DEF DisassociateBegins, Begins, Moved
<1>4. CallOK(c)'
  BY <1>2 DEF CallOK, Creating
<1>5. raced' \subseteq Names \cup Nicks
  BY <1>3 DEF histories, RegistrationInv, TypeOK
<1>6. QED
  BY <1>2, <1>3, <1>4, <1>5, IdleIsCall, TableKept
     DEF histories, Creating, Holding, HoldingName, HoldingNick

\* RegisterMails: who is mailed here has a Uid, unless her name is raced.
LEMMA RegisterMailsKeeps ==
    ASSUME RegistrationInv, NEW b \in Browsers, RegisterMails(b)
    PROVE  RegistrationInv'
<1> USE DEF RegistrationInv
<1>1. Moved(b, Idle) /\ UNCHANGED <<users, owner, resent, broken, raced, taken>>
  BY IdleIsCall DEF RegisterMails, Return, Moved, histories
<1>2. /\ call[b].at = "mail" /\ call[b].id \in DOMAIN users
      /\ users[call[b].id].uid \/ users[call[b].id].name \in raced
  BY DEF RegisterMails, CallInv, CallOK
<1>3. mailed \subseteq mailed' /\ mailed' \subseteq mailed \cup {call[b].id}
  BY DEF RegisterMails
<1>4. TypeOK'
  BY <1>1, <1>2, <1>3, Moves DEF TypeOK
<1>5. Grows /\ SameNicks /\ SameAccounts /\ SameEmails
  BY <1>1, <1>3 DEF Grows, SameNicks, SameAccounts, SameEmails
<1>6. LoginsGrow
  BY <1>1 DEF LoginsGrow, HasLogin, Links
<1>7. CallInv' /\ OpenInv' /\ NamesAreUnique' /\ CompleteInv' /\ EmailFollowsAccount'
  BY <1>1, <1>2, <1>5, <1>6, IdleIsCall, IdleIsOK, Kept
     DEF Creating, Holding, HoldingName, HoldingNick
<1>8. MailInv'
  BY <1>1, <1>2, <1>3 DEF MailInv
<1>9. QED
  BY <1>4, <1>7, <1>8

\* ResendToken: who is mailed here may lack a Uid, and is remembered.
LEMMA ResendTokenKeeps ==
    ASSUME RegistrationInv, NEW b \in Browsers, NEW name \in Names, ResendToken(b, name)
    PROVE  RegistrationInv'
<1> USE DEF RegistrationInv
<1>1. PICK id \in DOMAIN users : mailed' = mailed \cup {id} /\ resent' = resent \cup {id}
  BY DEF ResendToken
<1>2. UNCHANGED <<users, owner, call, broken, raced, taken>>
  BY DEF ResendToken
<1>3. TypeOK'
  BY <1>1, <1>2 DEF TypeOK
<1>4. CallInv'
  BY <1>1, <1>2 DEF CallInv, CallOK, UserExists, IdsOf
<1>5. OpenInv' /\ CompleteInv'
  BY <1>2 DEF OpenInv, UserExists, UserNickExist, CompleteInv, Links
<1>6. NamesAreUnique' /\ EmailFollowsAccount'
  BY <1>2 DEF NamesAreUnique, EmailFollowsAccount
<1>7. MailInv'
  BY <1>1, <1>2 DEF MailInv
<1>8. QED
  BY <1>3, <1>4, <1>5, <1>6, <1>7

\* An exception: the rows written so far stay, and the user is remembered as broken.
LEMMA FailsKeeps ==
    ASSUME RegistrationInv, NEW b \in Browsers, Fails(b)
    PROVE  RegistrationInv'
<1> USE DEF RegistrationInv
<1>1. Moved(b, Idle) /\ UNCHANGED <<users, owner, mailed, resent, raced, taken>>
  BY IdleIsCall DEF Fails, Return, Moved
<1>2. call'[b] = Idle /\ \A other \in Browsers \ {b} : call'[other] = call[other]
  BY <1>1, Moves
<1>3. broken \subseteq broken' /\ broken' \subseteq DOMAIN users
      /\ (call[b].at \in Creating \cup {"confirm_email"} /\ call[b].id # 0 => call[b].id \in broken')
  BY DEF Fails, CallInv, CallOK, TypeOK
<1>4. TypeOK'
  BY <1>1, <1>3, Moves DEF TypeOK
<1>5. Grows /\ SameNicks /\ SameAccounts
  BY <1>1, <1>3 DEF Grows, SameNicks, SameAccounts
<1>6. LoginsGrow
  BY <1>1 DEF LoginsGrow, HasLogin, Links
<1>7. CallInv' /\ OpenInv' /\ NamesAreUnique' /\ MailInv'
  BY <1>1, <1>5, <1>6, IdleIsCall, IdleIsOK, Kept DEF Holding, HoldingName, HoldingNick
<1>8. CompleteInv'
  <2>1. ASSUME NEW id \in DOMAIN users
        PROVE  IsComplete(id)'
    <3>1. IsComplete(id) /\ id # 0
      BY CompleteIs, Keys
    <3>2. CASE id = call[b].id /\ call[b].at \in Creating
      BY <1>3, <3>1, <3>2 DEF IsComplete
    <3>3. CASE id # call[b].id \/ call[b].at \notin Creating
      <4>1. /\ Gives(id, Creating) => Gives(id, Creating)'
            /\ Gives(id, {"account", "ext_account"}) => Gives(id, {"account", "ext_account"})'
        BY <1>2, <3>3 DEF Gives, Creating
      <4>2. QED
        BY <1>1, <1>5, <1>6, <3>1, <4>1 DEF IsComplete, Grows, LoginsGrow
    <3>4. QED
      BY <3>2, <3>3
  <2>2. QED
    BY <1>1, <2>1, CompleteIs
<1>9. EmailFollowsAccount'
  BY <1>1, <1>2, <1>3, Keys DEF EmailFollowsAccount
<1>10. QED
  BY <1>4, <1>7, <1>8, <1>9

-----------------------------------------------------------------------------
(* The requests that change a row                                          *)

\* One field of one row is written, and one request moves.
LEMMA RowKept ==
    ASSUME RegistrationInv, NEW id, NEW u, Changed(id, u), u.name = users[id].name,
           users[id].uid => u.uid, users[id].account # "none" => u.account # "none",
           users[id].account = "confirmed" => u.account = "confirmed",
           UNCHANGED <<owner, mailed, histories>>,
           NEW b \in Browsers, NEW c, Moved(b, c), CallOK(c)'
    PROVE  /\ TypeOK' /\ Grows /\ LoginsGrow /\ DOMAIN users' = DOMAIN users /\ CallInv'
           /\ (u.nick = users[id].nick /\ c.at \notin Holding) => OpenInv' /\ NamesAreUnique'
           /\ call[b].at \notin Creating => CompleteInv'
           /\ (u.account = "confirmed" => users[id].account = "confirmed") => MailInv'
           /\ (/\ u.account = "confirmed" => users[id].account = "confirmed"
               /\ u.emailConfirmed = users[id].emailConfirmed /\ call[b].at # "confirm_email")
                 => EmailFollowsAccount'
<1> USE DEF RegistrationInv
<1>1. /\ users' \in Seq(User) /\ Len(users') = Len(users) /\ DOMAIN users' = DOMAIN users
      /\ id \in DOMAIN users /\ users'[id] = u
      /\ \A other \in DOMAIN users \ {id} : users'[other] = users[other]
  BY Changes DEF Changed
<1>2. TypeOK'
  BY <1>1, Moves DEF TypeOK, histories
<1>3. Grows
  BY <1>1 DEF Grows, histories
<1>4. LoginsGrow
  BY <1>1 DEF LoginsGrow, HasLogin, Links, histories
<1>5. /\ u.nick = users[id].nick => SameNicks
      /\ (u.account = "confirmed" => users[id].account = "confirmed") => SameAccounts
      /\ u.emailConfirmed = users[id].emailConfirmed => SameEmails
  BY <1>1 DEF SameNicks, SameAccounts, SameEmails
<1>6. QED
  BY <1>1, <1>2, <1>3, <1>4, <1>5, Kept

\* Activation, its first write: the account of a user who was sent the token.
LEMMA ConfirmAccountKeeps ==
    ASSUME RegistrationInv, NEW b \in Browsers, ConfirmAccount(b)
    PROVE  RegistrationInv'
<1> USE DEF RegistrationInv
<1> DEFINE id == call[b].id
<1>1. call[b].at = "confirm" /\ call[b] \in Call /\ id \in DOMAIN users /\ id \in mailed
  BY DEF ConfirmAccount, CallInv, CallOK, TypeOK
<1>2. users[id] \in User
  BY <1>1, Keys
<1>3. PICK u \in User : u = [users[id] EXCEPT !.account = "confirmed"]
  BY <1>2, UserFields
<1>4. /\ u.name = users[id].name /\ u.nick = users[id].nick /\ u.uid = users[id].uid
      /\ u.emailConfirmed = users[id].emailConfirmed /\ u.account = "confirmed"
  BY <1>2, <1>3 DEF User
<1>5. PICK c \in Call : c = [call[b] EXCEPT !.at = "confirm_email"]
  BY <1>1, CallFields DEF Places
<1>6. c.at = "confirm_email" /\ c.id = id
  BY <1>1, <1>5 DEF Call
<1>7. Changed(id, u)
  BY <1>1, <1>3 DEF ConfirmAccount, Changed
<1>8. Moved(b, c) /\ UNCHANGED <<owner, mailed, histories>>
  BY <1>5 DEF ConfirmAccount, Goes, Moved
<1>9. /\ DOMAIN users' = DOMAIN users /\ users'[id] = u
      /\ \A other \in DOMAIN users \ {id} : users'[other] = users[other]
  BY <1>7, Changes
<1>10. call'[b] = c /\ \A other \in Browsers \ {b} : call'[other] = call[other]
  BY <1>8, Moves
<1>11. CallOK(c)'
  BY <1>1, <1>4, <1>6, <1>9 DEF CallOK, Creating
<1>12. TypeOK' /\ CallInv' /\ OpenInv' /\ NamesAreUnique' /\ CompleteInv'
  BY <1>1, <1>4, <1>6, <1>7, <1>8, <1>11, RowKept DEF Holding, HoldingName, HoldingNick, Creating
<1>13. MailInv'
  BY <1>1, <1>4, <1>8, <1>9 DEF MailInv, TypeOK, histories
<1>14. EmailFollowsAccount'
  BY <1>1, <1>4, <1>6, <1>8, <1>9, <1>10 DEF EmailFollowsAccount, histories
<1>15. QED
  BY <1>12, <1>13, <1>14

\* Activation, its second write: the account is confirmed by now.
LEMMA ConfirmEmailKeeps ==
    ASSUME RegistrationInv, NEW b \in Browsers, ConfirmEmail(b)
    PROVE  RegistrationInv'
<1> USE DEF RegistrationInv
<1> DEFINE id == call[b].id
<1>1. call[b].at = "confirm_email" /\ id \in DOMAIN users /\ users[id].account = "confirmed"
  BY DEF ConfirmEmail, CallInv, CallOK
<1>2. users[id] \in User
  BY <1>1, Keys
<1>3. PICK u \in User : u = [users[id] EXCEPT !.emailConfirmed = TRUE]
  BY <1>2, UserFields
<1>4. /\ u.name = users[id].name /\ u.nick = users[id].nick /\ u.uid = users[id].uid
      /\ u.account = users[id].account /\ u.emailConfirmed
  BY <1>2, <1>3 DEF User
<1>5. Changed(id, u)
  BY <1>1, <1>3 DEF ConfirmEmail, Changed
<1>6. Moved(b, Idle) /\ UNCHANGED <<owner, mailed, histories>>
  BY IdleIsCall DEF ConfirmEmail, Return, Moved
<1>7. /\ DOMAIN users' = DOMAIN users /\ users'[id] = u
      /\ \A other \in DOMAIN users \ {id} : users'[other] = users[other]
  BY <1>5, Changes
<1>8. call'[b] = Idle /\ \A other \in Browsers \ {b} : call'[other] = call[other]
  BY <1>6, Moves
<1>9. TypeOK' /\ CallInv' /\ OpenInv' /\ NamesAreUnique' /\ CompleteInv' /\ MailInv'
  BY <1>1, <1>4, <1>5, <1>6, IdleIsCall, IdleIsOK, RowKept
     DEF Holding, HoldingName, HoldingNick, Creating
<1>10. EmailFollowsAccount'
  BY <1>1, <1>4, <1>6, <1>7, <1>8 DEF EmailFollowsAccount, histories
<1>11. QED
  BY <1>9, <1>10

\* ChangePassword: a local account for a user who has none.
LEMMA SetsPasswordKeeps ==
    ASSUME RegistrationInv, NEW b \in Browsers, NEW name \in Names, SetsPassword(b, name)
    PROVE  RegistrationInv'
<1> USE DEF RegistrationInv
<1>1. PICK id \in DOMAIN users :
         /\ users[id].account = "none" /\ users' = [users EXCEPT ![id].account = "password_set"]
  BY DEF SetsPassword, IdsOf
<1>2. users[id] \in User
  BY Keys
<1>3. PICK u \in User : u = [users[id] EXCEPT !.account = "password_set"]
  BY <1>2, UserFields
<1>4. /\ u.name = users[id].name /\ u.nick = users[id].nick /\ u.uid = users[id].uid
      /\ u.account = "password_set" /\ u.emailConfirmed = users[id].emailConfirmed
  BY <1>2, <1>3 DEF User
<1>5. Changed(id, u)
  BY <1>1, <1>3 DEF Changed
<1>6. Moved(b, Idle) /\ call[b] = Idle /\ UNCHANGED <<owner, mailed, histories>>
  BY IdleIsCall DEF SetsPassword, Moved, TypeOK
<1>7. QED
  BY <1>1, <1>4, <1>5, <1>6, IdleIsCall, IdleIsOK, RowKept
     DEF Holding, HoldingName, HoldingNick, Creating

\* ChangeNick saves the nick it found free: who has it by now, or holds it too, raced for it.
LEMMA ChangeNickSavesKeeps ==
    ASSUME RegistrationInv, NEW b \in Browsers, ChangeNickSaves(b)
    PROVE  RegistrationInv'
<1> USE DEF RegistrationInv
<1> DEFINE id == call[b].id
<1>1. call[b].at = "nick_save" /\ id \in DOMAIN users /\ call[b].nick \in Nicks
  BY DEF ChangeNickSaves, CallInv, CallOK
<1>2. users[id] \in User
  BY <1>1, Keys
<1>3. PICK u \in User : u = [users[id] EXCEPT !.nick = call[b].nick]
  BY <1>1, <1>2, UserFields
<1>4. /\ u.name = users[id].name /\ u.nick = call[b].nick /\ u.uid = users[id].uid
      /\ u.account = users[id].account /\ u.emailConfirmed = users[id].emailConfirmed
  BY <1>2, <1>3 DEF User
<1>5. Changed(id, u)
  BY <1>1, <1>3 DEF ChangeNickSaves, Changed
<1>6. Moved(b, Idle) /\ UNCHANGED <<owner, mailed, histories>>
  BY IdleIsCall DEF ChangeNickSaves, Return, Moved
<1>7. /\ DOMAIN users' = DOMAIN users /\ users'[id] = u
      /\ \A other \in DOMAIN users \ {id} : users'[other] = users[other]
  BY <1>5, Changes
<1>8. call'[b] = Idle /\ \A other \in Browsers \ {b} : call'[other] = call[other]
  BY <1>6, Moves
<1>9. TypeOK' /\ CallInv' /\ CompleteInv' /\ MailInv' /\ EmailFollowsAccount'
  BY <1>1, <1>4, <1>5, <1>6, IdleIsCall, IdleIsOK, RowKept DEF Creating
<1>10. \A other \in DOMAIN users \ {id} : users[other].nick = u.nick => u.nick \in raced
  BY <1>1, <1>4 DEF OpenInv, HoldingNick, UserNickExist
<1>11. raced' = raced
  BY <1>6 DEF histories
<1>12. NamesAreUnique'
  BY <1>4, <1>7, <1>10, <1>11 DEF NamesAreUnique
<1>13. OpenInv'
  <2>1. ASSUME NEW other \in Browsers, call'[other].at \in HoldingName, UserExists(call[other].name)'
        PROVE  call'[other].name \in raced'
    BY <1>4, <1>7, <1>8, <1>11, <2>1, IdleIsCall DEF OpenInv, UserExists, HoldingName
  <2>2. ASSUME NEW other \in Browsers, call'[other].at \in HoldingNick,
               UserNickExist(call[other].nick)'
        PROVE  call'[other].nick \in raced'
    BY <1>1, <1>4, <1>7, <1>8, <1>11, <2>2, IdleIsCall DEF OpenInv, HoldingNick, UserNickExist
  <2>3. ASSUME NEW one \in Browsers, NEW other \in Browsers, one # other,
               call'[one].at \in HoldingName, call'[other].at \in HoldingName,
               call'[one].name = call'[other].name
        PROVE  call'[one].name \in raced'
    BY <1>8, <1>11, <2>3, IdleIsCall DEF OpenInv, HoldingName
  <2>4. ASSUME NEW one \in Browsers, NEW other \in Browsers, one # other,
               call'[one].at \in HoldingNick, call'[other].at \in HoldingNick,
               call'[one].nick = call'[other].nick
        PROVE  call'[one].nick \in raced'
    BY <1>8, <1>11, <2>4, IdleIsCall DEF OpenInv, HoldingNick
  <2>5. QED
    BY <2>1, <2>2, <2>3, <2>4 DEF OpenInv
<1>14. QED
  BY <1>9, <1>12, <1>13

-----------------------------------------------------------------------------
(* The requests that take an external account away                         *)

\* A request moves an external account or lets it go: whose login that was is remembered, has
\* another, or has a raced name.
LEMMA OwnerKept ==
    ASSUME RegistrationInv, NEW a \in ExternalAccounts, NEW id \in {0} \cup DOMAIN users,
           owner' = [owner EXCEPT ![a] = id], taken \subseteq taken', taken' \subseteq DOMAIN users,
           NEW former, former = owner[a],
           \/ former = 0 \/ former = id \/ former \in taken'
           \/ HasLogin(former)' \/ users[former].name \in raced,
           UNCHANGED <<users, mailed, resent, broken, raced>>,
           NEW b \in Browsers, NEW c, Moved(b, c), CallOK(c)', c.at \notin Holding,
           call[b].at # "confirm_email"
    PROVE  /\ TypeOK' /\ CallInv' /\ OpenInv' /\ NamesAreUnique' /\ MailInv' /\ EmailFollowsAccount'
           /\ Grows /\ LoginsGrow
           /\ \A k \in DOMAIN users : k # former => Links(k) \subseteq Links(k)'
           /\ id # 0 => a \in Links(id)'
           /\ call[b].at \notin Creating => CompleteInv'
<1> USE DEF RegistrationInv
<1>1. owner \in [ExternalAccounts -> {0} \cup DOMAIN users]
  BY DEF TypeOK
<1>2. owner'[a] = id /\ \A o \in ExternalAccounts \ {a} : owner'[o] = owner[o]
  BY <1>1
<1>3. owner' \in [ExternalAccounts -> {0} \cup DOMAIN users']
  BY <1>1
<1>4. TypeOK'
  BY <1>3, Moves DEF TypeOK
<1>5. /\ \A k \in DOMAIN users : k # former => Links(k) \subseteq Links(k)'
      /\ id # 0 => a \in Links(id)'
  BY <1>2 DEF Links
<1>6. Grows /\ SameNicks /\ SameAccounts /\ SameEmails
  BY DEF Grows, SameNicks, SameAccounts, SameEmails
<1>7. LoginsGrow
  <2>1. ASSUME NEW k \in DOMAIN users, HasLogin(k)
        PROVE  HasLogin(k)' \/ users[k].name \in raced'
    <3>1. CASE k # former
      BY <1>5, <2>1, <3>1 DEF HasLogin
    <3>2. CASE k = former
      BY <1>5, <2>1, <3>2, Keys DEF HasLogin
    <3>3. QED
      BY <3>1, <3>2
  <2>2. QED
    BY <2>1 DEF LoginsGrow
<1>8. QED
  BY <1>4, <1>5, <1>6, <1>7, Kept

\* Disassociate: whose login it takes has another, or is another user than the one it counted
\* for, who is remembered or has the same name.
LEMMA DisassociateKeeps ==
    ASSUME RegistrationInv, NEW b \in Browsers, Disassociate(b)
    PROVE  RegistrationInv'
<1> USE DEF RegistrationInv
<1> DEFINE c == call[b]
<1>1. PICK a, former : a = c.external /\ former = owner[a]
  OBVIOUS
<1>2. c.at = "unlink" /\ a \in ExternalAccounts
  BY <1>1 DEF Disassociate, CallInv, CallOK
<1>3. Return(b) /\ UNCHANGED <<users, mailed, resent, broken, raced>>
  BY DEF Disassociate
<1>4. CASE UNCHANGED <<owner, taken>>
  BY <1>2, <1>3, <1>4, ReturnKeeps DEF histories, Creating
<1>5. CASE /\ KeepsAnother(c.name)
           /\ owner' = [owner EXCEPT ![a] = 0]
           /\ taken' = IF former \in IdsOf(c.name) \cup {0} THEN taken
                       ELSE taken \cup {former}
  <2>1. former \in {0} \cup DOMAIN users
    BY <1>1, <1>2 DEF TypeOK
  <2>2. taken \subseteq taken' /\ taken' \subseteq DOMAIN users
    BY <1>5, <2>1 DEF TypeOK
  <2>3. former = 0 \/ former \in taken' \/ HasLogin(former)' \/ users[former].name \in raced
    <3>1. CASE former \in IdsOf(c.name) /\ users[former].name \notin raced
      <4>1. PICK k \in IdsOf(c.name) :
               users[k].account # "none" \/ \E one, two \in Links(k) : one # two
        BY <1>5 DEF KeepsAnother
      <4>2. k = former
        BY <3>1, <4>1 DEF NamesAreUnique, IdsOf
      <4>3. \A o \in ExternalAccounts \ {a} : owner'[o] = owner[o]
        BY <1>5 DEF TypeOK
      <4>4. (\E one, two \in Links(k) : one # two) => Links(k)' # {}
        BY <4>3 DEF Links
      <4>5. QED
        BY <1>3, <4>1, <4>2, <4>4 DEF HasLogin
    <3>2. QED
      BY <1>5, <3>1
  <2>4. Moved(b, Idle)
    BY <1>3, IdleIsCall DEF Return, Moved
  <2>5. QED
    BY <1>1, <1>2, <1>3, <1>5, <2>2, <2>3, <2>4, IdleIsCall, IdleIsOK, OwnerKept
       DEF Creating, Holding, HoldingName, HoldingNick
<1>6. QED
  BY <1>1, <1>4, <1>5 DEF Disassociate

\* CreateOrUpdateAccount: a user of the name has the external account now, and who had it is
\* remembered.
LEMMA CreateOrUpdateAccountKeeps ==
    ASSUME RegistrationInv, NEW b \in Browsers, CreateOrUpdateAccount(b)
    PROVE  RegistrationInv'
<1> USE DEF RegistrationInv
<1>1. PICK a, former : a = call[b].external /\ former = owner[a]
  OBVIOUS
<1>2. /\ call[b] \in Call /\ call[b].at = "ext_account" /\ a \in ExternalAccounts
      /\ CallOK(call[b])
  BY <1>1 DEF CreateOrUpdateAccount, CallInv, CallOK, TypeOK
<1>3. PICK id \in IdsOf(call[b].name) :
         owner' = [owner EXCEPT ![a] = id] /\ taken' = taken \cup ({former} \ {0, id})
  BY <1>1 DEF CreateOrUpdateAccount
<1>4. UNCHANGED <<users, mailed, resent, broken, raced>>
  BY DEF CreateOrUpdateAccount
<1>5. PICK c \in Call : c = [call[b] EXCEPT !.at = "uid_find", !.external = Null]
  BY <1>2, CallFields DEF Places
<1>6. c.at = "uid_find" /\ c.id = call[b].id /\ c.name = call[b].name /\ c.nick = call[b].nick
  BY <1>2, <1>5 DEF Call
<1>7. Moved(b, c)
  BY <1>5 DEF CreateOrUpdateAccount, Moved
<1>8. CallOK(c)'
  BY <1>2, <1>4, <1>6 DEF CallOK, Creating, UserExists
<1>9. id \in DOMAIN users /\ id # 0 /\ former \in {0} \cup DOMAIN users
  BY <1>1, <1>2, Keys DEF IdsOf, TypeOK
<1>10. taken \subseteq taken' /\ taken' \subseteq DOMAIN users
      /\ (former = 0 \/ former = id \/ former \in taken')
  BY <1>3, <1>9 DEF TypeOK
<1>11. c.at \notin Holding
  BY <1>6 DEF Holding, HoldingName, HoldingNick
<1>12. /\ TypeOK' /\ CallInv' /\ OpenInv' /\ NamesAreUnique' /\ MailInv' /\ EmailFollowsAccount'
       /\ Grows /\ LoginsGrow /\ a \in Links(id)'
  BY <1>1, <1>2, <1>3, <1>4, <1>7, <1>8, <1>9, <1>10, <1>11, OwnerKept
<1>13. HasLogin(id)'
  BY <1>12 DEF HasLogin
<1>14. CompleteInv'
  BY <1>2, <1>4, <1>6, <1>7, <1>12, <1>13, CreatingKept DEF Creating
<1>15. QED
  BY <1>12, <1>14

-----------------------------------------------------------------------------
(* The requests that create a user                                         *)

\* The row a request adds, and where it goes with it.
LEMMA AddsRowDoes ==
    ASSUME TypeOK, NEW b \in Browsers, NEW next \in {"account", "ext_account"}, AddsRow(b, next),
           call[b].name \in Names
    PROVE  \E u, c :
              /\ Added(u) /\ Moved(b, c)
              /\ u.name = call[b].name /\ u.nick = call[b].nick /\ u.emailConfirmed = FALSE
              /\ u.account = "none" /\ u.uid = FALSE
              /\ c.at = next /\ c.id = Len(users) + 1
              /\ c.name = call[b].name /\ c.nick = call[b].nick /\ c.external = call[b].external
<1>1. call[b] \in Call
  BY DEF TypeOK
<1>2. Len(users) \in Nat /\ Len(users) < MaxUsers /\ Len(users) + 1 \in 0..MaxUsers
  BY RegistrationAssumption DEF AddsRow, TypeOK
<1>3. PICK c \in Call : c = [call[b] EXCEPT !.at = next, !.id = Len(users) + 1]
  BY <1>1, <1>2, CallFields DEF Places
<1>4. /\ c.at = next /\ c.id = Len(users) + 1
      /\ c.name = call[b].name /\ c.nick = call[b].nick /\ c.external = call[b].external
  BY <1>1, <1>3 DEF Call
<1>5. Moved(b, c)
  BY <1>3 DEF AddsRow, Moved
<1>6. NewUser(call[b]) \in User
  BY <1>1, RegistrationAssumption DEF NewUser, User, Call
<1>7. PICK u \in User : u = NewUser(call[b])
  BY <1>6
<1>8. /\ u.name = call[b].name /\ u.nick = call[b].nick /\ u.emailConfirmed = FALSE
      /\ u.account = "none" /\ u.uid = FALSE
  BY <1>7 DEF NewUser
<1>9. Added(u)
  BY <1>2, <1>7 DEF AddsRow, Added
<1>10. QED
  BY <1>4, <1>5, <1>8, <1>9

\* A request adds the row of the name it holds.  The nick it writes is the one it found free, or
\* none.
LEMMA RowAdded ==
    ASSUME RegistrationInv, NEW b \in Browsers, NEW next \in {"account", "ext_account"},
           AddsRow(b, next), call[b].at \in {"row", "ext_add"},
           next = "ext_account" => call[b].external \in ExternalAccounts
    PROVE  RegistrationInv'
<1> USE DEF RegistrationInv
<1> DEFINE new == Len(users) + 1
<1>1. /\ call[b].name \in Names /\ call[b].at \in HoldingName
      /\ call[b].at = "row" \/ call[b].nick = Null
  BY DEF CallInv, CallOK, HoldingName
<1>2. PICK u, c :
         /\ Added(u) /\ Moved(b, c)
         /\ u.name = call[b].name /\ u.nick = call[b].nick /\ u.emailConfirmed = FALSE
         /\ u.account = "none" /\ u.uid = FALSE
         /\ c.at = next /\ c.id = new
         /\ c.name = call[b].name /\ c.nick = call[b].nick /\ c.external = call[b].external
  BY <1>1, AddsRowDoes
<1>3. UNCHANGED <<owner, mailed, resent, broken, raced, taken>>
  BY DEF AddsRow, histories
<1>4. /\ users' \in Seq(User) /\ Len(users') <= MaxUsers /\ new \notin DOMAIN users
      /\ DOMAIN users' = DOMAIN users \cup {new} /\ users'[new] = u
      /\ \A id \in DOMAIN users : users'[id] = users[id]
  BY <1>2, Adds DEF TypeOK
<1>5. /\ call' \in [Browsers -> Call] /\ call'[b] = c
      /\ \A other \in Browsers \ {b} : call'[other] = call[other]
  BY <1>2, Moves
<1>6. TypeOK'
  <2>1. owner' \in [ExternalAccounts -> {0} \cup DOMAIN users']
    BY <1>3, <1>4 DEF TypeOK
  <2>2. QED
    BY <1>3, <1>4, <1>5, <2>1 DEF TypeOK
<1>7. Grows
  BY <1>3, <1>4 DEF Grows
<1>8. CallInv'
  <2>1. UserExists(c.name)'
    BY <1>2, <1>4 DEF UserExists
  <2>2. CallOK(c)'
    BY <1>1, <1>2, <1>4, <2>1 DEF CallOK
  <2>3. QED
    BY <1>2, <1>7, <2>2, CallsKept
<1>9. \A other \in Browsers \ {b} :
         /\ call[other].at \in HoldingName /\ call[other].name = u.name => u.name \in raced
         /\ call[other].at \in HoldingNick /\ call[other].nick = u.nick => u.nick \in raced
  <2>1. ASSUME NEW other \in Browsers \ {b}, call[other].at \in HoldingName,
               call[other].name = u.name
        PROVE  u.name \in raced
    BY <1>1, <1>2, <2>1 DEF OpenInv
  <2>2. ASSUME NEW other \in Browsers \ {b}, call[other].at \in HoldingNick,
               call[other].nick = u.nick
        PROVE  u.nick \in raced
    <3>1. call[other].nick \in Nicks
      BY <2>2 DEF CallInv, CallOK, HoldingNick
    <3>2. call[b].at = "row"
      BY <1>1, <1>2, <2>2, <3>1, RegistrationAssumption
    <3>3. QED
      BY <1>2, <2>2, <3>2 DEF OpenInv, HoldingNick
  <2>3. QED
    BY <2>1, <2>2
<1>10. UserExists(u.name) => u.name \in raced
  BY <1>1, <1>2 DEF OpenInv
<1>11. UserNickExist(u.nick) => u.nick \in raced \cup {Null}
  BY <1>1, <1>2 DEF OpenInv, HoldingNick
<1>12. c.at \notin Holding
  BY <1>2 DEF Holding, HoldingName, HoldingNick
<1>13. OpenInv'
  <2>1. ASSUME NEW other \in Browsers, call'[other].at \in HoldingName, UserExists(call[other].name)'
        PROVE  call'[other].name \in raced'
    BY <1>3, <1>4, <1>5, <1>9, <1>12, <2>1 DEF OpenInv, UserExists, Holding
  <2>2. ASSUME NEW other \in Browsers, call'[other].at \in HoldingNick,
               UserNickExist(call[other].nick)'
        PROVE  call'[other].nick \in raced'
    BY <1>3, <1>4, <1>5, <1>9, <1>12, <2>2 DEF OpenInv, UserNickExist, Holding
  <2>3. ASSUME NEW one \in Browsers, NEW other \in Browsers, one # other,
               call'[one].at \in HoldingName, call'[other].at \in HoldingName,
               call'[one].name = call'[other].name
        PROVE  call'[one].name \in raced'
    BY <1>3, <1>5, <1>12, <2>3 DEF OpenInv, Holding
  <2>4. ASSUME NEW one \in Browsers, NEW other \in Browsers, one # other,
               call'[one].at \in HoldingNick, call'[other].at \in HoldingNick,
               call'[one].nick = call'[other].nick
        PROVE  call'[one].nick \in raced'
    BY <1>3, <1>5, <1>12, <2>4 DEF OpenInv, Holding
  <2>5. QED
    BY <2>1, <2>2, <2>3, <2>4 DEF OpenInv
<1>14. NamesAreUnique'
  <2>1. ASSUME NEW id \in DOMAIN users', NEW other \in DOMAIN users', id # other
        PROVE  /\ users'[id].name = users'[other].name => users'[id].name \in raced'
               /\ users'[id].nick = users'[other].nick => users'[id].nick \in raced' \cup {Null}
    <3>1. CASE id \in DOMAIN users /\ other \in DOMAIN users
      BY <1>3, <1>4, <2>1, <3>1 DEF NamesAreUnique
    <3>2. CASE id = new \/ other = new
      BY <1>3, <1>4, <1>10, <1>11, <2>1, <3>2 DEF UserExists, UserNickExist
    <3>3. QED
      BY <1>4, <3>1, <3>2
  <2>2. QED
    BY <2>1 DEF NamesAreUnique
<1>15. CompleteInv'
  <2>1. ASSUME NEW id \in DOMAIN users'
        PROVE  IsComplete(id)'
    <3>1. CASE id = new
      <4>1. Gives(id, Creating)' /\ Gives(id, {"account", "ext_account"})'
        BY <1>2, <1>5, <3>1 DEF Gives, Creating
      <4>2. QED
        BY <4>1 DEF IsComplete
    <3>2. CASE id \in DOMAIN users
      <4>1. IsComplete(id)
        BY <3>2, CompleteIs
      <4>2. \A places : places \subseteq Creating => (Gives(id, places) => Gives(id, places)')
        BY <1>1, <1>5 DEF Gives, Creating, HoldingName
      <4>3. /\ Gives(id, Creating) => Gives(id, Creating)'
            /\ Gives(id, {"account", "ext_account"}) => Gives(id, {"account", "ext_account"})'
        BY <4>2 DEF Creating
      <4>4. HasLogin(id) => HasLogin(id)'
        BY <1>3, <1>4, <3>2 DEF HasLogin, Links
      <4>5. QED
        BY <1>3, <1>4, <3>2, <4>1, <4>3, <4>4 DEF IsComplete
    <3>3. QED
      BY <1>4, <3>1, <3>2
  <2>2. QED
    BY <2>1, CompleteIs
<1>16. MailInv'
  BY <1>2, <1>3, <1>4 DEF MailInv, TypeOK
<1>17. EmailFollowsAccount'
  BY <1>1, <1>2, <1>3, <1>4, <1>5 DEF EmailFollowsAccount, HoldingName
<1>18. QED
  BY <1>6, <1>8, <1>13, <1>14, <1>15, <1>16, <1>17

\* CreateUserAndAccount adds the row of the name it found free.
LEMMA RegisterAddsRowKeeps ==
    ASSUME RegistrationInv, NEW b \in Browsers, RegisterAddsRow(b)
    PROVE  RegistrationInv'
BY RowAdded DEF RegisterAddsRow

\* AddUserProfiles adds the row of the name that ExternalLoginConfirmation found free.
LEMMA ExternalAddsKeeps ==
    ASSUME RegistrationInv, NEW b \in Browsers, ExternalAdds(b)
    PROVE  RegistrationInv'
<1>1. call[b].at = "ext_add" /\ AddsRow(b, "ext_account") /\ call[b].external \in ExternalAccounts
  BY DEF ExternalAdds, RegistrationInv, CallInv, CallOK
<1>2. QED
  BY <1>1, RowAdded

\* CreateUserAndAccount finds a row of the name and gives it an account: its own row, which has
\* none, if the name is not raced.
LEMMA RegisterAddsAccountKeeps ==
    ASSUME RegistrationInv, LinkInv, NEW b \in Browsers, RegisterAddsAccount(b)
    PROVE  RegistrationInv'
<1> USE DEF RegistrationInv
<1>1. call[b] \in Call /\ call[b].at = "account" /\ CallOK(call[b])
  BY DEF RegisterAddsAccount, CallInv, TypeOK
<1>2. UNCHANGED <<owner, mailed, histories>>
  BY DEF RegisterAddsAccount
<1>3. PICK id \in IdsOf(call[b].name) :
         \/ /\ users[id].account = "none"
            /\ users' = [users EXCEPT ![id].account = "unconfirmed"]
            /\ call' = [call EXCEPT ![b].at = "uid_find", ![b].id = id]
         \/ users[id].account # "none" /\ Return(b) /\ UNCHANGED users
  BY DEF RegisterAddsAccount
<1>4. id \in DOMAIN users /\ id \in 0..MaxUsers /\ id # 0 /\ users[id] \in User
      /\ users[id].name = call[b].name
  BY Keys DEF IdsOf
<1>5. CASE /\ users[id].account = "none"
           /\ users' = [users EXCEPT ![id].account = "unconfirmed"]
           /\ call' = [call EXCEPT ![b].at = "uid_find", ![b].id = id]
  <2>1. PICK u \in User : u = [users[id] EXCEPT !.account = "unconfirmed"]
    BY <1>4, UserFields
  <2>2. /\ u.name = users[id].name /\ u.nick = users[id].nick /\ u.uid = users[id].uid
        /\ u.account = "unconfirmed" /\ u.emailConfirmed = users[id].emailConfirmed
    BY <1>4, <2>1 DEF User
  <2>3. PICK c \in Call : c = [call[b] EXCEPT !.at = "uid_find", !.id = id]
    BY <1>1, <1>4, CallFields DEF Places
  <2>4. c.at = "uid_find" /\ c.id = id /\ c.name = call[b].name /\ c.nick = call[b].nick
    BY <1>1, <2>3 DEF Call
  <2>5. Changed(id, u) /\ Moved(b, c)
    BY <1>4, <1>5, <2>1, <2>3 DEF Changed, Moved
  <2>6. /\ DOMAIN users' = DOMAIN users /\ users'[id] = u
        /\ \A other \in DOMAIN users \ {id} : users'[other] = users[other]
    BY <2>5, Changes
  <2>7. UserExists(c.name)'
    BY <1>4, <2>2, <2>4, <2>6 DEF UserExists
  <2>8. CallOK(c)'
    BY <1>1, <1>4, <2>2, <2>4, <2>6, <2>7 DEF CallOK, Creating
  <2>9. /\ TypeOK' /\ Grows /\ LoginsGrow /\ CallInv' /\ OpenInv' /\ NamesAreUnique' /\ MailInv'
        /\ EmailFollowsAccount'
    BY <1>1, <1>2, <1>5, <2>2, <2>4, <2>5, <2>8, RowKept DEF Holding, HoldingName, HoldingNick
  <2>10. HasLogin(id)'
    BY <2>2, <2>6 DEF HasLogin
  <2>11. users[id].name \in raced \/ call[b].id = id
    <3>1. call[b].id \in DOMAIN users /\ call[b].id # 0
      BY <1>1, Keys DEF CallOK
    <3>2. users[call[b].id].name = call[b].name
      BY <1>1, <3>1 DEF CallOK, Creating
    <3>3. QED
      BY <1>4, <3>1, <3>2 DEF NamesAreUnique
  <2>12. CompleteInv'
    BY <1>1, <2>4, <2>5, <2>6, <2>9, <2>10, <2>11, CreatingKept DEF Creating
  <2>13. QED
    BY <2>9, <2>12
<1>6. CASE users[id].account # "none" /\ Return(b) /\ UNCHANGED users
  <2>1. users[id].name \in raced
    BY <1>1, <1>4, <1>6 DEF LinkInv
  <2>2. Moved(b, Idle)
    BY <1>6, IdleIsCall DEF Return, Moved
  <2>3. TypeOK'
    BY <1>2, <1>6, <2>2, Moves DEF TypeOK, histories
  <2>4. Grows /\ SameNicks /\ SameAccounts /\ SameEmails
    BY <1>2, <1>6 DEF Grows, SameNicks, SameAccounts, SameEmails, histories
  <2>5. LoginsGrow
    BY <1>2, <1>6 DEF LoginsGrow, HasLogin, Links, histories
  <2>6. CallInv' /\ OpenInv' /\ NamesAreUnique' /\ MailInv' /\ EmailFollowsAccount'
    BY <1>1, <1>2, <1>6, <2>2, <2>4, <2>5, IdleIsCall, IdleIsOK, Kept
       DEF Holding, HoldingName, HoldingNick
  <2>7. CompleteInv'
    BY <1>1, <1>6, <2>1, <2>2, <2>4, <2>5, CreatingKept DEF Creating
  <2>8. QED
    BY <2>3, <2>6, <2>7
<1>7. QED
  BY <1>3, <1>5, <1>6

\* A registration goes on to the mail; every other request ends here.  Whom it mails has a Uid,
\* or a raced name.
LEMMA AfterUidMoves ==
    ASSUME TypeOK, CallInv, NamesAreUnique, NEW b \in Browsers,
           call[b].at \in {"uid_find", "uid_insert"}, AfterUid(b), Grows,
           NEW id \in IdsOf(call[b].name), users'[id].uid
    PROVE  \E c : Moved(b, c) /\ c.at \in {"idle", "mail"} /\ CallOK(c)'
<1>1. CASE call[b].nick # Null
  <2>1. call[b] \in Call
    BY DEF TypeOK
  <2>2. PICK c \in Call : c = [call[b] EXCEPT !.at = "mail"]
    BY <2>1, CallFields DEF Places
  <2>3. c.at = "mail" /\ c.id = call[b].id
    BY <2>1, <2>2 DEF Call
  <2>4. Moved(b, c)
    BY <1>1, <2>2 DEF AfterUid, Goes, Moved
  <2>5. c.id \in DOMAIN users /\ users[c.id].name = call[b].name
    BY <1>1, <2>3 DEF CallInv, CallOK, Creating
  <2>6. users'[c.id].uid \/ users[c.id].name \in raced
    BY <2>5 DEF NamesAreUnique, IdsOf
  <2>7. CallOK(c)'
    BY <2>3, <2>5, <2>6 DEF CallOK, Creating, Grows
  <2>8. QED
    BY <2>3, <2>4, <2>7
<1>2. CASE call[b].nick = Null
  BY <1>2, IdleIsCall, IdleIsOK DEF AfterUid, Return, Moved
<1>3. QED
  BY <1>1, <1>2

\* FindOne: who has a Uid keeps it, and who has none is about to get one.
LEMMA FindsUidKeeps ==
    ASSUME RegistrationInv, NEW b \in Browsers, FindsUid(b)
    PROVE  RegistrationInv'
<1> USE DEF RegistrationInv
<1>1. call[b] \in Call /\ call[b].at = "uid_find" /\ CallOK(call[b])
  BY DEF FindsUid, CallInv, TypeOK
<1>2. UNCHANGED <<users, owner, mailed, histories>>
  BY DEF FindsUid
<1>3. PICK id \in IdsOf(call[b].name) :
         \/ users[id].uid /\ AfterUid(b)
         \/ ~users[id].uid /\ call' = [call EXCEPT ![b].at = "uid_insert", ![b].found = id]
  BY DEF FindsUid
<1>4. Grows /\ SameNicks /\ SameAccounts /\ SameEmails
  BY <1>2 DEF Grows, SameNicks, SameAccounts, SameEmails, histories
<1>5. LoginsGrow
  BY <1>2 DEF LoginsGrow, HasLogin, Links, histories
<1>6. \E c : /\ Moved(b, c) /\ CallOK(c)' /\ c.at \notin Holding
             /\ users'[id].uid \/ (c.id = call[b].id /\ c.at \in Creating)
  <2>1. CASE users[id].uid /\ AfterUid(b)
    <3>1. PICK c : Moved(b, c) /\ c.at \in {"idle", "mail"} /\ CallOK(c)'
      BY <1>1, <1>2, <1>4, <2>1, AfterUidMoves
    <3>2. QED
      BY <1>2, <2>1, <3>1 DEF Holding, HoldingName, HoldingNick
  <2>2. CASE ~users[id].uid /\ call' = [call EXCEPT ![b].at = "uid_insert", ![b].found = id]
    <3>1. id \in 0..MaxUsers
      BY Keys DEF IdsOf
    <3>2. PICK c \in Call : c = [call[b] EXCEPT !.at = "uid_insert", !.found = id]
      BY <1>1, <3>1, CallFields DEF Places
    <3>3. /\ c.at = "uid_insert" /\ c.id = call[b].id /\ c.name = call[b].name
          /\ c.nick = call[b].nick /\ c.found = id
      BY <1>1, <3>2 DEF Call
    <3>4. Moved(b, c)
      BY <2>2, <3>2 DEF Moved
    <3>5. CallOK(c)'
      BY <1>1, <1>2, <3>3 DEF CallOK, Creating, UserExists, IdsOf
    <3>6. QED
      BY <3>3, <3>4, <3>5 DEF Creating, Holding, HoldingName, HoldingNick
  <2>3. QED
    BY <1>3, <2>1, <2>2
<1>7. PICK c : /\ Moved(b, c) /\ CallOK(c)' /\ c.at \notin Holding
               /\ users'[id].uid \/ (c.id = call[b].id /\ c.at \in Creating)
  BY <1>6
<1>8. CallInv' /\ OpenInv' /\ NamesAreUnique' /\ MailInv' /\ EmailFollowsAccount'
  BY <1>1, <1>2, <1>4, <1>5, <1>7, Kept
<1>9. CompleteInv'
  BY <1>1, <1>2, <1>4, <1>5, <1>7, CreatingKept DEF Creating
<1>10. TypeOK'
  BY <1>2, <1>7, Moves DEF TypeOK, histories
<1>11. QED
  BY <1>8, <1>9, <1>10

\* SaveChanges: whoever inserts it, the user it was looked for has a Uid from now on.
LEMMA InsertsUidKeeps ==
    ASSUME RegistrationInv, NEW b \in Browsers, InsertsUid(b)
    PROVE  RegistrationInv'
<1> USE DEF RegistrationInv
<1>1. call[b] \in Call /\ call[b].at = "uid_insert" /\ CallOK(call[b])
  BY DEF InsertsUid, CallInv, TypeOK
<1>2. UNCHANGED <<owner, mailed, histories>>
  BY DEF InsertsUid
<1>3. PICK id \in IdsOf(call[b].name) : id = call[b].found
  BY <1>1 DEF CallOK
<1>4. id \in DOMAIN users /\ users[id] \in User
  BY Keys DEF IdsOf
<1>5. PICK u \in User : u = [users[id] EXCEPT !.uid = TRUE]
  BY <1>4, UserFields
<1>6. /\ u.name = users[id].name /\ u.nick = users[id].nick /\ u.uid = TRUE
      /\ u.account = users[id].account /\ u.emailConfirmed = users[id].emailConfirmed
  BY <1>4, <1>5 DEF User
<1>7. Changed(id, u)
  BY <1>3, <1>4, <1>5 DEF InsertsUid, Changed
<1>8. /\ DOMAIN users' = DOMAIN users /\ users'[id] = u
      /\ \A other \in DOMAIN users \ {id} : users'[other] = users[other]
  BY <1>7, Changes
<1>9. Grows
  BY <1>2, <1>6, <1>8 DEF Grows, histories
<1>10. PICK c : Moved(b, c) /\ c.at \in {"idle", "mail"} /\ CallOK(c)'
  <2>1. CASE Return(b)
    BY <2>1, IdleIsCall, IdleIsOK DEF Return, Moved
  <2>2. CASE AfterUid(b)
    BY <1>1, <1>6, <1>8, <1>9, <2>2, AfterUidMoves
  <2>3. QED
    BY <2>1, <2>2 DEF InsertsUid
<1>11. /\ TypeOK' /\ LoginsGrow /\ CallInv' /\ OpenInv' /\ NamesAreUnique' /\ MailInv'
       /\ EmailFollowsAccount'
  BY <1>1, <1>2, <1>6, <1>7, <1>10, RowKept DEF Holding, HoldingName, HoldingNick
<1>12. CompleteInv'
  BY <1>1, <1>6, <1>8, <1>9, <1>10, <1>11, CreatingKept DEF Creating
<1>13. QED
  BY <1>11, <1>12

-----------------------------------------------------------------------------
(* Whoever can log in goes on to be able to: the users with one name that  *)
(* no two requests found free                                              *)

\* LinkInv of one request and of one user.
LinkedOK(id) ==
    users[id].account = "unconfirmed" =>
        (Links(id) = {} /\ id \notin taken) \/ users[id].name \in raced
LinkingOK(b, id) ==
    call[b].at = "ext_account" /\ users[id].name = call[b].name =>
        users[id].account # "unconfirmed" \/ users[id].name \in raced
UnlinkedOK(b, id) ==
    call[b].at = "account" /\ users[id].name = call[b].name =>
        \/ users[id].name \in raced
        \/ /\ users[id].account = "none" /\ Links(id) = {} /\ id \notin taken
           /\ \A other \in Browsers \ {b} :
                 call[other].at \in {"account", "ext_account"} => call[other].name # call[b].name

\* They make LinkInv, in this state and in the next.
LEMMA LinkIs ==
    /\ LinkInv <=> /\ \A id \in DOMAIN users : LinkedOK(id)
                   /\ \A b \in Browsers, id \in DOMAIN users : LinkingOK(b, id) /\ UnlinkedOK(b, id)
    /\ LinkInv' <=> /\ \A id \in DOMAIN users' : LinkedOK(id)'
                    /\ \A b \in Browsers, id \in DOMAIN users' :
                          LinkingOK(b, id)' /\ UnlinkedOK(b, id)'
BY DEF LinkInv, LinkedOK, LinkingOK, UnlinkedOK

\* Nobody links an account to a name, gets an account or loses a link: no request comes to a
\* place where a user is linked, and no account gets to wait for its activation.
LEMMA LinkKept ==
    ASSUME LinkInv, DOMAIN users' = DOMAIN users, raced \subseteq raced', UNCHANGED <<owner, taken>>,
           \A id \in DOMAIN users :
              /\ users'[id].name = users[id].name
              /\ \/ users'[id].account = users[id].account
                 \/ /\ users'[id].account # "unconfirmed" /\ users[id].account # "none"
                 \/ /\ users'[id].account # "unconfirmed"
                    /\ \A b \in Browsers :
                          call[b].at = "account" => call[b].name # users[id].name
                 \/ users[id].name \in raced,
           \A b \in Browsers :
              call'[b] = call[b] \/ call'[b].at \notin {"account", "ext_account"}
    PROVE  LinkInv'
<1>1. \A id : Links(id)' = Links(id)
  BY DEF Links
<1>2. ASSUME NEW id \in DOMAIN users
      PROVE  LinkedOK(id)'
  BY <1>1, <1>2, LinkIs DEF LinkedOK
<1>3. ASSUME NEW b \in Browsers, NEW id \in DOMAIN users
      PROVE  LinkingOK(b, id)'
  <2>1. LinkingOK(b, id)
    BY LinkIs
  <2>2. QED
    BY <2>1 DEF LinkingOK
<1>4. ASSUME NEW b \in Browsers, NEW id \in DOMAIN users
      PROVE  UnlinkedOK(b, id)'
  <2>1. UnlinkedOK(b, id)
    BY LinkIs
  <2>2. CASE call'[b].at = "account" /\ users[id].name = call[b].name /\ users[id].name \notin raced
    <3>1. call'[b] = call[b] /\ users[id].account = "none" /\ Links(id) = {} /\ id \notin taken
          /\ \A other \in Browsers \ {b} :
                call[other].at \in {"account", "ext_account"} => call[other].name # call[b].name
      BY <2>1, <2>2 DEF UnlinkedOK
    <3>2. users'[id].account = "none"
      BY <2>2, <3>1
    <3>3. QED
      BY <1>1, <3>1, <3>2 DEF UnlinkedOK
  <2>3. CASE ~(/\ call'[b].at = "account" /\ users[id].name = call[b].name
               /\ users[id].name \notin raced)
    BY <2>3 DEF UnlinkedOK
  <2>4. QED
    BY <2>2, <2>3
<1>5. QED
  BY <1>2, <1>3, <1>4, LinkIs

\* A user who is being registered, her name not raced, is not signed in.
LEMMA RegisteringIsNotSignedIn ==
    ASSUME RegistrationInv, LinkInv, NEW b \in Browsers, call[b].at = "account",
           SignedIn(call[b].name)
    PROVE  call[b].name \in raced
<1>1. PICK id \in DOMAIN users :
         users[id].name = call[b].name /\ (CanLogIn(id) \/ id \in taken)
  BY DEF SignedIn, IdsOf
<1>2. UnlinkedOK(b, id)
  BY LinkIs
<1>3. QED
  BY <1>1, <1>2 DEF UnlinkedOK, CanLogIn

\* A row is added, to which nobody has linked anything.
LEMMA LinkAdded ==
    ASSUME RegistrationInv, LinkInv, NEW b \in Browsers, NEW next \in {"account", "ext_account"},
           AddsRow(b, next), call[b].at \in {"row", "ext_add"}
    PROVE  LinkInv' /\ KeepsLogin
<1> DEFINE new == Len(users) + 1
<1>1. TypeOK /\ call[b].name \in Names /\ call[b].at \in HoldingName
  BY DEF RegistrationInv, CallInv, CallOK, HoldingName
<1>2. PICK u, c :
         /\ Added(u) /\ Moved(b, c)
         /\ u.name = call[b].name /\ u.nick = call[b].nick /\ u.emailConfirmed = FALSE
         /\ u.account = "none" /\ u.uid = FALSE
         /\ c.at = next /\ c.id = new
         /\ c.name = call[b].name /\ c.nick = call[b].nick /\ c.external = call[b].external
  BY <1>1, AddsRowDoes
<1>3. UNCHANGED <<owner, raced, taken>>
  BY DEF AddsRow, histories
<1>4. /\ new \notin DOMAIN users /\ DOMAIN users' = DOMAIN users \cup {new} /\ users'[new] = u
      /\ \A id \in DOMAIN users : users'[id] = users[id]
  BY <1>1, <1>2, Adds
<1>5. call'[b] = c /\ \A other \in Browsers \ {b} : call'[other] = call[other]
  BY <1>1, <1>2, Moves
<1>6. \A id : Links(id)' = Links(id)
  BY <1>3 DEF Links
<1>7. Links(new) = {} /\ new \notin taken
  <2>1. new # 0
    BY <1>1 DEF TypeOK
  <2>2. QED
    BY <1>1, <1>4, <2>1 DEF TypeOK, Links
<1>8. UserExists(c.name) => c.name \in raced
  BY <1>1, <1>2 DEF RegistrationInv, OpenInv
<1>9. \A other \in Browsers \ {b} :
         call[other].at \in {"account", "ext_account"} /\ call[other].name = c.name =>
            c.name \in raced
  BY <1>8 DEF RegistrationInv, CallInv, CallOK, Creating
<1>10. ASSUME NEW id \in DOMAIN users'
       PROVE  LinkedOK(id)'
  <2>1. CASE id = new
    BY <1>2, <1>4, <2>1 DEF LinkedOK
  <2>2. CASE id \in DOMAIN users
    BY <1>3, <1>4, <1>6, <2>2, LinkIs DEF LinkedOK
  <2>3. QED
    BY <1>4, <2>1, <2>2
<1>11. ASSUME NEW o \in Browsers, NEW id \in DOMAIN users'
       PROVE  LinkingOK(o, id)'
  <2>1. CASE id = new
    BY <1>2, <1>4, <2>1 DEF LinkingOK
  <2>2. CASE id \in DOMAIN users /\ o = b
    BY <1>2, <1>3, <1>4, <1>5, <1>8, <2>2 DEF LinkingOK, UserExists
  <2>3. CASE id \in DOMAIN users /\ o # b
    <3>1. LinkingOK(o, id)
      BY <2>3, LinkIs
    <3>2. QED
      BY <1>3, <1>4, <1>5, <2>3, <3>1 DEF LinkingOK
  <2>4. QED
    BY <1>4, <2>1, <2>2, <2>3
<1>12. ASSUME NEW o \in Browsers, NEW id \in DOMAIN users'
       PROVE  UnlinkedOK(o, id)'
  <2>1. CASE o = b
    <3>1. CASE id = new
      BY <1>2, <1>3, <1>4, <1>5, <1>6, <1>7, <1>9, <2>1, <3>1 DEF UnlinkedOK
    <3>2. CASE id \in DOMAIN users
      BY <1>2, <1>3, <1>4, <1>5, <1>8, <2>1, <3>2 DEF UnlinkedOK, UserExists
    <3>3. QED
      BY <1>4, <3>1, <3>2
  <2>2. CASE o # b
    <3>1. CASE id = new
      BY <1>2, <1>3, <1>4, <1>5, <1>9, <2>2, <3>1 DEF UnlinkedOK
    <3>2. CASE id \in DOMAIN users
      <4>1. UnlinkedOK(o, id)
        BY <3>2, LinkIs
      <4>2. call[o].at = "account" /\ call[o].name = c.name => c.name \in raced
        BY <1>9, <2>2
      <4>3. QED
        BY <1>3, <1>4, <1>5, <1>6, <2>2, <3>2, <4>1, <4>2 DEF UnlinkedOK
    <3>3. QED
      BY <1>4, <3>1, <3>2
  <2>3. QED
    BY <2>1, <2>2
<1>13. LinkInv'
  BY <1>10, <1>11, <1>12, LinkIs
<1>14. KeepsLogin
  BY <1>4, <1>6 DEF KeepsLogin, CanLogIn
<1>15. QED
  BY <1>13, <1>14

\* ExternalLoginCallback: who is signed in has no account that waits for its activation, and is
\* not being registered.
LEMMA LinkBegun ==
    ASSUME RegistrationInv, LinkInv, NEW b \in Browsers, NEW c, Moved(b, c),
           UNCHANGED <<users, owner, raced, taken>>,
           c.at = "ext_account", SignedIn(c.name)
    PROVE  LinkInv'
<1>1. call'[b] = c /\ \A other \in Browsers \ {b} : call'[other] = call[other]
  BY Moves DEF RegistrationInv
<1>2. \A id : Links(id)' = Links(id)
  BY DEF Links
<1>3. ASSUME NEW id \in DOMAIN users
      PROVE  LinkedOK(id)'
  BY <1>2, LinkIs DEF LinkedOK
<1>4. ASSUME NEW o \in Browsers, NEW id \in DOMAIN users
      PROVE  LinkingOK(o, id)'
  <2>1. CASE o # b
    <3>1. LinkingOK(o, id)
      BY LinkIs
    <3>2. QED
      BY <1>1, <2>1, <3>1 DEF LinkingOK
  <2>2. CASE o = b /\ users[id].name = c.name /\ users[id].name \notin raced
    <3>1. PICK k \in DOMAIN users : users[k].name = c.name /\ (CanLogIn(k) \/ k \in taken)
      BY DEF SignedIn, IdsOf
    <3>2. k = id
      BY <2>2, <3>1 DEF RegistrationInv, NamesAreUnique
    <3>3. LinkedOK(id)
      BY LinkIs
    <3>4. users[id].account # "unconfirmed"
      BY <2>2, <3>1, <3>2, <3>3 DEF LinkedOK, CanLogIn
    <3>5. QED
      BY <3>4 DEF LinkingOK
  <2>3. CASE o = b /\ ~(users[id].name = c.name /\ users[id].name \notin raced)
    BY <1>1, <2>3 DEF LinkingOK
  <2>4. QED
    BY <2>1, <2>2, <2>3
<1>5. ASSUME NEW o \in Browsers, NEW id \in DOMAIN users
      PROVE  UnlinkedOK(o, id)'
  <2>1. CASE o = b
    BY <1>1, <2>1 DEF UnlinkedOK
  <2>2. CASE o # b
    <3>1. UnlinkedOK(o, id)
      BY LinkIs
    <3>2. call[o].at = "account" /\ call[o].name = c.name => c.name \in raced
      BY RegisteringIsNotSignedIn
    <3>3. QED
      BY <1>1, <1>2, <2>2, <3>1, <3>2 DEF UnlinkedOK
  <2>3. QED
    BY <2>1, <2>2
<1>6. QED
  BY <1>3, <1>4, <1>5, LinkIs

\* An external account gets another owner, or none: the one it gets is not waiting for an
\* activation, and the one it had was not either, unless the name is raced.
LEMMA LinkMoved ==
    ASSUME RegistrationInv, LinkInv, NEW a \in ExternalAccounts, NEW id \in {0} \cup DOMAIN users,
           NEW former, former = owner[a], owner' = [owner EXCEPT ![a] = id],
           taken' \subseteq taken \cup ({former} \ {0}),
           UNCHANGED <<users, raced>>,
           NEW b \in Browsers, NEW c, Moved(b, c), c.at \notin {"account", "ext_account"},
           id # 0 => call[b].at = "ext_account" /\ users[id].name = call[b].name
    PROVE  LinkInv'
<1>1. call'[b] = c /\ \A other \in Browsers \ {b} : call'[other] = call[other]
  BY Moves DEF RegistrationInv
<1>2. \A k : /\ Links(k)' \subseteq Links(k) \cup (IF k = id THEN {a} ELSE {})
             /\ k = former => a \in Links(k)
  BY DEF Links, RegistrationInv, TypeOK
<1>3. ASSUME NEW k \in DOMAIN users
      PROVE  LinkedOK(k)'
  <2>1. LinkedOK(k)
    BY LinkIs
  <2>2. CASE users[k].account = "unconfirmed" /\ users[k].name \notin raced
    <3>1. Links(k) = {} /\ k \notin taken /\ k # former
      BY <1>2, <2>1, <2>2 DEF LinkedOK
    <3>2. k # id
      <4>1. ASSUME k = id
            PROVE  FALSE
        <5>1. id # 0
          BY <4>1, Keys DEF RegistrationInv
        <5>2. LinkingOK(b, id)
          BY <4>1, LinkIs
        <5>3. QED
          BY <2>2, <4>1, <5>1, <5>2 DEF LinkingOK
      <4>2. QED
        BY <4>1
    <3>3. Links(k)' = {} /\ k \notin taken'
      BY <1>2, <3>1, <3>2
    <3>4. QED
      BY <3>3 DEF LinkedOK
  <2>3. CASE ~(users[k].account = "unconfirmed" /\ users[k].name \notin raced)
    BY <2>3 DEF LinkedOK
  <2>4. QED
    BY <2>2, <2>3
<1>4. ASSUME NEW o \in Browsers, NEW k \in DOMAIN users
      PROVE  LinkingOK(o, k)'
  <2>1. LinkingOK(o, k)
    BY LinkIs
  <2>2. QED
    BY <1>1, <2>1 DEF LinkingOK
<1>5. ASSUME NEW o \in Browsers, NEW k \in DOMAIN users
      PROVE  UnlinkedOK(o, k)'
  <2>1. UnlinkedOK(o, k)
    BY LinkIs
  <2>2. CASE /\ o # b /\ call[o].at = "account" /\ users[k].name = call[o].name
             /\ users[k].name \notin raced
    <3>1. /\ users[k].account = "none" /\ Links(k) = {} /\ k \notin taken
          /\ \A other \in Browsers \ {o} :
                call[other].at \in {"account", "ext_account"} => call[other].name # call[o].name
      BY <2>1, <2>2 DEF UnlinkedOK
    <3>2. k # former
      BY <1>2, <3>1
    <3>3. k # id
      BY <2>2, <3>1, Keys DEF RegistrationInv
    <3>4. Links(k)' = {} /\ k \notin taken'
      BY <1>2, <3>1, <3>2, <3>3
    <3>5. \A other \in Browsers \ {o} :
             call'[other].at \in {"account", "ext_account"} => call'[other].name # call'[o].name
      BY <1>1, <2>2, <3>1
    <3>6. QED
      BY <3>1, <3>4, <3>5 DEF UnlinkedOK
  <2>3. CASE ~(/\ o # b /\ call[o].at = "account" /\ users[k].name = call[o].name
               /\ users[k].name \notin raced)
    BY <1>1, <2>3 DEF UnlinkedOK
  <2>4. QED
    BY <2>2, <2>3
<1>6. QED
  BY <1>3, <1>4, <1>5, LinkIs

\* Who is being registered gets an account that waits for its activation, and has, had and gets
\* no external account.
LEMMA LinkRegistered ==
    ASSUME RegistrationInv, LinkInv, NEW b \in Browsers, call[b].at = "account",
           NEW id, users[id].name = call[b].name, NEW u, Changed(id, u),
           u.name = users[id].name, users[id].account = "none", u.account = "unconfirmed",
           UNCHANGED <<owner, raced, taken>>,
           NEW c, Moved(b, c), c.at \notin {"account", "ext_account"}
    PROVE  LinkInv'
<1>1. call'[b] = c /\ \A other \in Browsers \ {b} : call'[other] = call[other]
  BY Moves DEF RegistrationInv
<1>2. /\ DOMAIN users' = DOMAIN users /\ users'[id] = u /\ id \in DOMAIN users
      /\ \A other \in DOMAIN users \ {id} : users'[other] = users[other]
  BY Changes DEF RegistrationInv, Changed
<1>3. \A k : Links(k)' = Links(k)
  BY DEF Links
<1>4. UnlinkedOK(b, id)
  BY <1>2, LinkIs
<1>5. ASSUME NEW k \in DOMAIN users
      PROVE  LinkedOK(k)'
  <2>1. CASE k = id
    BY <1>2, <1>3, <1>4, <2>1 DEF LinkedOK, UnlinkedOK
  <2>2. CASE k # id
    <3>1. LinkedOK(k)
      BY LinkIs
    <3>2. QED
      BY <1>2, <1>3, <2>2, <3>1 DEF LinkedOK
  <2>3. QED
    BY <2>1, <2>2
<1>6. ASSUME NEW o \in Browsers, NEW k \in DOMAIN users
      PROVE  LinkingOK(o, k)'
  <2>1. LinkingOK(o, k)
    BY LinkIs
  <2>2. CASE k = id
    BY <1>1, <1>2, <1>4, <2>2 DEF LinkingOK, UnlinkedOK
  <2>3. CASE k # id
    BY <1>1, <1>2, <2>1, <2>3 DEF LinkingOK
  <2>4. QED
    BY <2>2, <2>3
<1>7. ASSUME NEW o \in Browsers, NEW k \in DOMAIN users
      PROVE  UnlinkedOK(o, k)'
  <2>1. UnlinkedOK(o, k)
    BY LinkIs
  <2>2. CASE o = b
    BY <1>1, <2>2 DEF UnlinkedOK
  <2>3. CASE o # b /\ k = id
    BY <1>1, <1>2, <1>4, <2>3 DEF UnlinkedOK
  <2>4. CASE o # b /\ k # id
    BY <1>1, <1>2, <1>3, <2>1, <2>4 DEF UnlinkedOK
  <2>5. QED
    BY <2>2, <2>3, <2>4
<1>8. QED
  BY <1>2, <1>5, <1>6, <1>7, LinkIs

\* A request moves on and changes no user.
LEMMA LinkQuiet ==
    ASSUME RegistrationInv, LinkInv, UNCHANGED <<users, owner, taken>>, raced \subseteq raced',
           NEW b \in Browsers, NEW c, call' = [call EXCEPT ![b] = c],
           c.at \notin {"account", "ext_account"}
    PROVE  LinkInv' /\ KeepsLogin
<1>1. \A o \in Browsers : call'[o] = call[o] \/ call'[o].at \notin {"account", "ext_account"}
  BY DEF RegistrationInv, TypeOK
<1>2. LinkInv'
  BY <1>1, LinkKept
<1>3. KeepsLogin
  BY DEF KeepsLogin, CanLogIn, Links
<1>4. QED
  BY <1>2, <1>3

\* A request changes a user, whose account stays, or comes to be one that she can log in with.
LEMMA LinkRow ==
    ASSUME RegistrationInv, LinkInv, NEW id, NEW u, Changed(id, u), u.name = users[id].name,
           \/ u.account = users[id].account
           \/ /\ u.account \in {"confirmed", "password_set"}
              /\ \/ users[id].account # "none" \/ users[id].name \in raced
                 \/ \A o \in Browsers : call[o].at = "account" => call[o].name # users[id].name,
           UNCHANGED <<owner, raced, taken>>,
           NEW b \in Browsers, NEW c, Moved(b, c), c.at \notin {"account", "ext_account"}
    PROVE  LinkInv' /\ KeepsLogin
<1>1. call'[b] = c /\ \A other \in Browsers \ {b} : call'[other] = call[other]
  BY Moves DEF RegistrationInv
<1>2. /\ DOMAIN users' = DOMAIN users /\ users'[id] = u /\ id \in DOMAIN users
      /\ \A other \in DOMAIN users \ {id} : users'[other] = users[other]
  BY Changes DEF RegistrationInv, Changed
<1>3. LinkInv'
  BY <1>1, <1>2, LinkKept
<1>4. KeepsLogin
  BY <1>2 DEF KeepsLogin, CanLogIn, Links
<1>5. QED
  BY <1>3, <1>4

\* Disassociate counts an account that waits for its activation for a way to log in; there is
\* none beside an external account, so whoever could log in still can.
LEMMA DisassociateLinks ==
    ASSUME RegistrationInv, LinkInv, NEW b \in Browsers, Disassociate(b)
    PROVE  LinkInv' /\ KeepsLogin
<1>1. PICK a, former : a = call[b].external /\ former = owner[a]
  OBVIOUS
<1>2. a \in ExternalAccounts /\ former \in {0} \cup DOMAIN users
  BY <1>1 DEF Disassociate, RegistrationInv, CallInv, CallOK, TypeOK
<1>3. Moved(b, Idle) /\ UNCHANGED <<users, raced>>
  BY IdleIsCall DEF Disassociate, Return, Moved
<1>4. CASE UNCHANGED <<owner, taken>>
  BY <1>3, <1>4, IdleIsCall, LinkQuiet DEF Moved
<1>5. CASE /\ KeepsAnother(call[b].name)
           /\ owner' = [owner EXCEPT ![a] = 0]
           /\ taken' = IF former \in IdsOf(call[b].name) \cup {0} THEN taken
                       ELSE taken \cup {former}
  <2>1. LinkInv'
    <3>1. taken' \subseteq taken \cup ({former} \ {0})
      BY <1>5
    <3>2. Idle.at \notin {"account", "ext_account"}
      BY IdleIsCall
    <3>3. 0 \in {0} \cup DOMAIN users
      OBVIOUS
    <3>4. QED
      BY <1>1, <1>2, <1>3, <1>5, <3>1, <3>2, <3>3, LinkMoved
  <2>2. ASSUME NEW id \in DOMAIN users, CanLogIn(id)
        PROVE  CanLogIn(id)' \/ id \in taken' \/ users[id].name \in raced
    <3>1. \A o \in ExternalAccounts \ {a} : owner'[o] = owner[o]
      BY <1>5 DEF RegistrationInv, TypeOK
    <3>2. CASE id # former
      <4>1. Links(id) \subseteq Links(id)'
        BY <1>1, <1>2, <3>1, <3>2 DEF Links
      <4>2. QED
        BY <1>3, <2>2, <4>1 DEF CanLogIn
    <3>3. CASE id = former /\ former \in IdsOf(call[b].name) /\ users[id].name \notin raced
      <4>1. PICK k \in IdsOf(call[b].name) :
               users[k].account # "none" \/ \E one, two \in Links(k) : one # two
        BY <1>5 DEF KeepsAnother
      <4>2. k = id
        BY <3>3, <4>1 DEF RegistrationInv, NamesAreUnique, IdsOf
      <4>3. LinkedOK(id) /\ a \in Links(id)
        BY <1>1, <1>2, <3>3, LinkIs DEF Links
      <4>4. CASE users[id].account # "none"
        <5>1. users[id].account \in {"confirmed", "password_set"}
          BY <3>3, <4>3, <4>4, Keys DEF LinkedOK, RegistrationInv, User
        <5>2. QED
          BY <1>3, <5>1 DEF CanLogIn
      <4>5. CASE \E one, two \in Links(k) : one # two
        <5>1. Links(id)' # {}
          BY <3>1, <4>2, <4>5 DEF Links
        <5>2. QED
          BY <5>1 DEF CanLogIn
      <4>6. QED
        BY <4>1, <4>2, <4>4, <4>5
    <3>4. CASE id = former /\ former \notin IdsOf(call[b].name)
      BY <1>5, <3>4, Keys DEF RegistrationInv
    <3>5. QED
      BY <3>2, <3>3, <3>4
  <2>3. KeepsLogin
    BY <2>2 DEF KeepsLogin
  <2>4. QED
    BY <2>1, <2>3
<1>6. QED
  BY <1>1, <1>4, <1>5 DEF Disassociate

\* CreateOrUpdateAccount: who loses the external account is remembered.
LEMMA CreateOrUpdateAccountLinks ==
    ASSUME RegistrationInv, LinkInv, NEW b \in Browsers, CreateOrUpdateAccount(b)
    PROVE  LinkInv' /\ KeepsLogin
<1>1. PICK a, former : a = call[b].external /\ former = owner[a]
  OBVIOUS
<1>2. call[b] \in Call /\ call[b].at = "ext_account" /\ a \in ExternalAccounts
  BY <1>1 DEF CreateOrUpdateAccount, RegistrationInv, CallInv, CallOK, TypeOK
<1>3. PICK id \in DOMAIN users :
         /\ users[id].name = call[b].name
         /\ owner' = [owner EXCEPT ![a] = id] /\ taken' = taken \cup ({former} \ {0, id})
  BY <1>1 DEF CreateOrUpdateAccount, IdsOf
<1>4. UNCHANGED <<users, raced>>
  BY DEF CreateOrUpdateAccount
<1>5. PICK c \in Call : c = [call[b] EXCEPT !.at = "uid_find", !.external = Null]
  BY <1>2, CallFields DEF Places
<1>6. c.at = "uid_find"
  BY <1>2, <1>5 DEF Call
<1>7. Moved(b, c)
  BY <1>5 DEF CreateOrUpdateAccount, Moved
<1>8. LinkInv'
  BY <1>1, <1>2, <1>3, <1>4, <1>6, <1>7, LinkMoved
<1>9. KeepsLogin
  <2>1. ASSUME NEW k \in DOMAIN users, CanLogIn(k)
        PROVE  CanLogIn(k)' \/ k \in taken'
    <3>1. \A o \in ExternalAccounts \ {a} : owner'[o] = owner[o]
      BY <1>3 DEF RegistrationInv, TypeOK
    <3>2. owner'[a] = id
      BY <1>2, <1>3 DEF RegistrationInv, TypeOK
    <3>3. Links(k) \subseteq Links(k)' \/ k \in taken'
      BY <1>1, <1>2, <1>3, <3>1, <3>2, Keys DEF Links, RegistrationInv
    <3>4. QED
      BY <1>4, <2>1, <3>3 DEF CanLogIn
  <2>2. QED
    BY <2>1 DEF KeepsLogin
<1>10. QED
  BY <1>8, <1>9

\* The requests that change one field of a user.
LEMMA RowLinks ==
    ASSUME RegistrationInv, LinkInv, NEW b \in Browsers,
           \/ InsertsUid(b) \/ ConfirmAccount(b) \/ ConfirmEmail(b) \/ ChangeNickSaves(b)
    PROVE  LinkInv' /\ KeepsLogin
<1>1. /\ call[b] \in Call /\ CallOK(call[b])
      /\ UNCHANGED <<owner, raced, taken>>
  BY DEF RegistrationInv, CallInv, TypeOK, InsertsUid, ConfirmAccount, ConfirmEmail,
         ChangeNickSaves, histories
<1>2. CASE InsertsUid(b)
  <2>1. PICK id \in DOMAIN users : id = call[b].found
    BY <1>1, <1>2 DEF InsertsUid, CallOK, IdsOf
  <2>2. users[id] \in User
    BY Keys DEF RegistrationInv
  <2>3. PICK u \in User : u = [users[id] EXCEPT !.uid = TRUE]
    BY <2>2, UserFields
  <2>4. u.name = users[id].name /\ u.account = users[id].account
    BY <2>2, <2>3 DEF User
  <2>5. Changed(id, u)
    BY <1>2, <2>1, <2>3 DEF InsertsUid, Changed
  <2>6. PICK c \in Call : c = [call[b] EXCEPT !.at = "mail"]
    BY <1>1, CallFields DEF Places
  <2>7. c.at = "mail"
    BY <1>1, <2>6 DEF Call
  <2>8. Moved(b, c) \/ Moved(b, Idle)
    BY <1>2, <2>6, IdleIsCall DEF InsertsUid, AfterUid, Goes, Return, Moved
  <2>9. QED
    BY <1>1, <2>4, <2>5, <2>7, <2>8, IdleIsCall, LinkRow
<1>3. CASE ConfirmAccount(b)
  <2>1. PICK id \in DOMAIN users : id = call[b].id
    BY <1>1, <1>3 DEF ConfirmAccount, CallOK
  <2>2. users[id] \in User /\ users[id].account # "none"
    BY <1>1, <1>3, <2>1, Keys DEF RegistrationInv, ConfirmAccount, CallOK
  <2>3. PICK u \in User : u = [users[id] EXCEPT !.account = "confirmed"]
    BY <2>2, UserFields
  <2>4. u.name = users[id].name /\ u.account = "confirmed"
    BY <2>2, <2>3 DEF User
  <2>5. Changed(id, u)
    BY <1>3, <2>1, <2>3 DEF ConfirmAccount, Changed
  <2>6. PICK c \in Call : c = [call[b] EXCEPT !.at = "confirm_email"]
    BY <1>1, CallFields DEF Places
  <2>7. c.at = "confirm_email"
    BY <1>1, <2>6 DEF Call
  <2>8. Moved(b, c)
    BY <1>3, <2>6 DEF ConfirmAccount, Goes, Moved
  <2>9. QED
    BY <1>1, <2>2, <2>4, <2>5, <2>7, <2>8, LinkRow
<1>4. CASE ConfirmEmail(b)
  <2>1. PICK id \in DOMAIN users : id = call[b].id
    BY <1>1, <1>4 DEF ConfirmEmail, CallOK
  <2>2. users[id] \in User
    BY Keys DEF RegistrationInv
  <2>3. PICK u \in User : u = [users[id] EXCEPT !.emailConfirmed = TRUE]
    BY <2>2, UserFields
  <2>4. u.name = users[id].name /\ u.account = users[id].account
    BY <2>2, <2>3 DEF User
  <2>5. Changed(id, u) /\ Moved(b, Idle)
    BY <1>4, <2>1, <2>3, IdleIsCall DEF ConfirmEmail, Return, Changed, Moved
  <2>6. QED
    BY <1>1, <2>4, <2>5, IdleIsCall, LinkRow
<1>5. CASE ChangeNickSaves(b)
  <2>1. call[b].nick \in Nicks /\ call[b].id \in DOMAIN users
    BY <1>1, <1>5 DEF ChangeNickSaves, CallOK
  <2>2. PICK id \in DOMAIN users : id = call[b].id
    BY <2>1
  <2>3. users[id] \in User
    BY Keys DEF RegistrationInv
  <2>4. PICK u \in User : u = [users[id] EXCEPT !.nick = call[b].nick]
    BY <2>1, <2>3, UserFields
  <2>5. u.name = users[id].name /\ u.account = users[id].account
    BY <2>3, <2>4 DEF User
  <2>6. Changed(id, u) /\ Moved(b, Idle)
    BY <1>5, <2>2, <2>4, IdleIsCall DEF ChangeNickSaves, Return, Changed, Moved
  <2>7. QED
    BY <1>1, <2>5, <2>6, IdleIsCall, LinkRow
<1>6. QED
  BY <1>2, <1>3, <1>4, <1>5

\* ChangePassword gives a local account to who is signed in, and so is not being registered.
LEMMA SetsPasswordLinks ==
    ASSUME RegistrationInv, LinkInv, NEW b \in Browsers, NEW name \in Names, SetsPassword(b, name)
    PROVE  LinkInv' /\ KeepsLogin
<1>1. PICK id \in DOMAIN users :
         /\ users[id].name = name /\ users[id].account = "none"
         /\ users' = [users EXCEPT ![id].account = "password_set"]
  BY DEF SetsPassword, IdsOf
<1>2. users[id] \in User
  BY Keys DEF RegistrationInv
<1>3. PICK u \in User : u = [users[id] EXCEPT !.account = "password_set"]
  BY <1>2, UserFields
<1>4. u.name = users[id].name /\ u.account = "password_set"
  BY <1>2, <1>3 DEF User
<1>5. Changed(id, u)
  BY <1>1, <1>3 DEF Changed
<1>6. Moved(b, Idle) /\ UNCHANGED <<owner, raced, taken>>
  BY IdleIsCall DEF SetsPassword, Moved, histories, RegistrationInv, TypeOK
<1>7. users[id].name \in raced
         \/ \A o \in Browsers : call[o].at = "account" => call[o].name # users[id].name
  BY <1>1, RegisteringIsNotSignedIn DEF SetsPassword
<1>8. QED
  BY <1>4, <1>5, <1>6, <1>7, IdleIsCall, LinkRow

\* CreateUserAndAccount: the account is that of who is being registered.
LEMMA RegisterAddsAccountLinks ==
    ASSUME RegistrationInv, LinkInv, NEW b \in Browsers, RegisterAddsAccount(b)
    PROVE  LinkInv' /\ KeepsLogin
<1>1. call[b] \in Call /\ call[b].at = "account" /\ UNCHANGED <<owner, raced, taken>>
  BY DEF RegisterAddsAccount, RegistrationInv, TypeOK, histories
<1>2. PICK id \in DOMAIN users :
         /\ users[id].name = call[b].name
         /\ \/ /\ users[id].account = "none"
               /\ users' = [users EXCEPT ![id].account = "unconfirmed"]
               /\ call' = [call EXCEPT ![b].at = "uid_find", ![b].id = id]
            \/ users[id].account # "none" /\ Return(b) /\ UNCHANGED users
  BY DEF RegisterAddsAccount, IdsOf
<1>3. CASE Return(b) /\ UNCHANGED users
  BY <1>1, <1>3, IdleIsCall, LinkQuiet DEF Return
<1>4. CASE /\ users[id].account = "none"
           /\ users' = [users EXCEPT ![id].account = "unconfirmed"]
           /\ call' = [call EXCEPT ![b].at = "uid_find", ![b].id = id]
  <2>1. users[id] \in User /\ id \in 0..MaxUsers
    BY Keys DEF RegistrationInv
  <2>2. PICK u \in User : u = [users[id] EXCEPT !.account = "unconfirmed"]
    BY <2>1, UserFields
  <2>3. u.name = users[id].name /\ u.account = "unconfirmed"
    BY <2>1, <2>2 DEF User
  <2>4. PICK c \in Call : c = [call[b] EXCEPT !.at = "uid_find", !.id = id]
    BY <1>1, <2>1, CallFields DEF Places
  <2>5. c.at = "uid_find"
    BY <1>1, <2>4 DEF Call
  <2>6. Changed(id, u) /\ Moved(b, c)
    BY <1>4, <2>2, <2>4 DEF Changed, Moved
  <2>7. LinkInv'
    BY <1>1, <1>2, <1>4, <2>3, <2>5, <2>6, LinkRegistered
  <2>8. KeepsLogin
    <3>1. /\ DOMAIN users' = DOMAIN users /\ users'[id] = u
          /\ \A other \in DOMAIN users \ {id} : users'[other] = users[other]
      BY <2>6, Changes DEF RegistrationInv
    <3>2. QED
      BY <1>1, <1>4, <3>1 DEF KeepsLogin, CanLogIn, Links
  <2>9. QED
    BY <2>7, <2>8
<1>5. QED
  BY <1>2, <1>3, <1>4

\* The requests that change no user: they only move on.
LEMMA QuietLinks ==
    ASSUME RegistrationInv, LinkInv, NEW b \in Browsers,
           \/ \E name \in Names, nick \in Nicks : RegisterBegins(b, name, nick)
           \/ RegisterChecksNick(b) \/ RegisterChecksName(b) \/ FindsUid(b) \/ RegisterMails(b)
           \/ \E id \in DOMAIN users : ActivationBegins(b, id)
           \/ \E name \in Names, a \in ExternalAccounts : ExternalBegins(b, name, a)
           \/ \E name \in Names, a \in ExternalAccounts : DisassociateBegins(b, name, a)
           \/ \E name \in Names, nick \in Nicks : ChangeNickChecks(b, name, nick)
           \/ Fails(b)
    PROVE  LinkInv' /\ KeepsLogin
<1>1. call[b] \in Call
  BY DEF RegistrationInv, TypeOK
<1>2. UNCHANGED <<users, owner, taken>> /\ raced \subseteq raced'
  BY DEF RegisterBegins, RegisterChecksNick, RegisterChecksName, FindsUid, RegisterMails,
         ActivationBegins, ExternalBegins, DisassociateBegins, ChangeNickChecks, Fails, RacesFor,
         histories
<1>3. SUFFICES \E c : call' = [call EXCEPT ![b] = c] /\ c.at \notin {"account", "ext_account"}
  BY <1>2, LinkQuiet
<1>4. ASSUME NEW at \in Places \ {"account", "ext_account"}, NEW id \in 0..MaxUsers,
             \/ call' = [call EXCEPT ![b].at = at]
             \/ call' = [call EXCEPT ![b].at = at, ![b].found = id]
      PROVE  \E c : call' = [call EXCEPT ![b] = c] /\ c.at \notin {"account", "ext_account"}
  <2>1. [call[b] EXCEPT !.at = at].at = at /\ [call[b] EXCEPT !.at = at, !.found = id].at = at
    BY <1>1 DEF Call
  <2>2. QED
    BY <1>4, <2>1
<1>5. CASE Return(b)
  BY <1>5, IdleIsCall DEF Return
<1>6. CASE \E name \in Names, nick \in Nicks : RegisterBegins(b, name, nick)
  <2>1. PICK name \in Names, nick \in Nicks :
           call' = [call EXCEPT ![b] = [Idle EXCEPT !.at = "nick_check", !.name = name, !.nick = nick]]
    BY <1>6 DEF RegisterBegins, Begins
  <2>2. [Idle EXCEPT !.at = "nick_check", !.name = name, !.nick = nick].at = "nick_check"
    BY DEF Idle
  <2>3. QED
    BY <2>1, <2>2
<1>7. CASE RegisterChecksNick(b) \/ RegisterChecksName(b)
  <2>1. 0 \in 0..MaxUsers
    BY RegistrationAssumption
  <2>2. QED
    BY <1>4, <1>5, <1>7, <2>1 DEF RegisterChecksNick, RegisterChecksName, Goes, Places
<1>8. CASE FindsUid(b)
  <2>1. PICK id \in DOMAIN users :
           \/ AfterUid(b)
           \/ call' = [call EXCEPT ![b].at = "uid_insert", ![b].found = id]
    BY <1>8 DEF FindsUid, IdsOf
  <2>2. id \in 0..MaxUsers
    BY Keys DEF RegistrationInv
  <2>3. QED
    BY <1>4, <1>5, <2>1, <2>2 DEF AfterUid, Goes, Places
<1>9. CASE RegisterMails(b) \/ Fails(b)
  BY <1>5, <1>9 DEF RegisterMails, Fails
<1>10. CASE \E id \in DOMAIN users : ActivationBegins(b, id)
  <2>1. PICK id \in DOMAIN users :
           call' = [call EXCEPT ![b] = [Idle EXCEPT !.at = "confirm", !.id = id]]
    BY <1>10 DEF ActivationBegins, Begins
  <2>2. [Idle EXCEPT !.at = "confirm", !.id = id].at = "confirm"
    BY DEF Idle
  <2>3. QED
    BY <2>1, <2>2
<1>11. CASE \E name \in Names, a \in ExternalAccounts :
               ExternalBegins(b, name, a) \/ DisassociateBegins(b, name, a)
  <2>1. PICK name \in Names, a \in ExternalAccounts, at \in {"ext_add", "unlink"} :
           call' = [call EXCEPT ![b] = [Idle EXCEPT !.at = at, !.name = name, !.external = a]]
    BY <1>11 DEF ExternalBegins, DisassociateBegins, Begins
  <2>2. [Idle EXCEPT !.at = at, !.name = name, !.external = a].at = at
    BY DEF Idle
  <2>3. QED
    BY <2>1, <2>2
<1>12. CASE \E name \in Names, nick \in Nicks : ChangeNickChecks(b, name, nick)
  <2>1. PICK nick \in Nicks, id \in DOMAIN users :
           call' = [call EXCEPT ![b] = [Idle EXCEPT !.at = "nick_save", !.nick = nick, !.id = id]]
    BY <1>12 DEF ChangeNickChecks, Begins, IdsOf
  <2>2. [Idle EXCEPT !.at = "nick_save", !.nick = nick, !.id = id].at = "nick_save"
    BY DEF Idle
  <2>3. QED
    BY <2>1, <2>2
<1>13. QED
  BY <1>6, <1>7, <1>8, <1>9, <1>10, <1>11, <1>12

-----------------------------------------------------------------------------
(* The invariants and what follows from them                               *)

\* Before the first request there is no user.
LEMMA RegistrationInit == Init => RegistrationInv /\ LinkInv
<1> SUFFICES ASSUME Init
             PROVE  RegistrationInv /\ LinkInv
  OBVIOUS
<1>1. DOMAIN users = {}
  BY DEF Init
<1>2. TypeOK
  BY <1>1, IdleIsCall, RegistrationAssumption DEF Init, TypeOK
<1>3. CallInv /\ OpenInv
  BY IdleIsCall DEF Init, CallInv, CallOK, Creating, OpenInv, HoldingName, HoldingNick
<1>4. CompleteInv /\ MailInv /\ NamesAreUnique /\ EmailFollowsAccount /\ LinkInv
  BY <1>1 DEF Init, CompleteInv, MailInv, NamesAreUnique, EmailFollowsAccount, LinkInv
<1>5. QED
  BY <1>2, <1>3, <1>4 DEF RegistrationInv

\* Each request keeps the invariant at each of its steps, whatever the other requests are at.
LEMMA RegistrationStep == RegistrationInv /\ LinkInv /\ [Next]_vars => RegistrationInv'
<1> SUFFICES ASSUME RegistrationInv, LinkInv, [Next]_vars
             PROVE  RegistrationInv'
  OBVIOUS
<1>1. CASE UNCHANGED vars
  <2>1. TypeOK' /\ CallInv' /\ OpenInv'
    BY <1>1 DEF vars, histories, RegistrationInv, TypeOK, CallInv, CallOK, OpenInv, UserExists,
                UserNickExist, IdsOf
  <2>2. CompleteInv' /\ MailInv' /\ NamesAreUnique' /\ EmailFollowsAccount'
    BY <1>1 DEF vars, histories, RegistrationInv, CompleteInv, Links, MailInv, NamesAreUnique,
                EmailFollowsAccount
  <2>3. QED
    BY <2>1, <2>2 DEF RegistrationInv
<1>2. CASE Next
  <2> PICK b \in Browsers : Serves(b)
    BY <1>2 DEF Next
  <2>1. CASE \E name \in Names, nick \in Nicks : RegisterBegins(b, name, nick)
    BY <2>1, RegisterBeginsKeeps
  <2>2. CASE RegisterChecksNick(b) \/ RegisterChecksName(b)
    BY <2>2, RegisterChecksNickKeeps, RegisterChecksNameKeeps
  <2>3. CASE RegisterAddsRow(b) \/ RegisterAddsAccount(b)
    BY <2>3, RegisterAddsRowKeeps, RegisterAddsAccountKeeps
  <2>4. CASE FindsUid(b) \/ InsertsUid(b)
    BY <2>4, FindsUidKeeps, InsertsUidKeeps
  <2>5. CASE RegisterMails(b) \/ \E name \in Names : ResendToken(b, name)
    BY <2>5, RegisterMailsKeeps, ResendTokenKeeps
  <2>6. CASE \E id \in DOMAIN users : ActivationBegins(b, id)
    BY <2>6, ActivationBeginsKeeps
  <2>7. CASE ConfirmAccount(b) \/ ConfirmEmail(b)
    BY <2>7, ConfirmAccountKeeps, ConfirmEmailKeeps
  <2>8. CASE \E name \in Names, a \in ExternalAccounts :
                \/ ExternalBegins(b, name, a) \/ ExternalLinks(b, name, a)
                \/ DisassociateBegins(b, name, a)
    BY <2>8, ExternalBeginsKeeps, ExternalLinksKeeps, DisassociateBeginsKeeps
  <2>9. CASE ExternalAdds(b) \/ CreateOrUpdateAccount(b) \/ Disassociate(b)
    BY <2>9, ExternalAddsKeeps, CreateOrUpdateAccountKeeps, DisassociateKeeps
  <2>10. CASE \E name \in Names : SetsPassword(b, name)
    BY <2>10, SetsPasswordKeeps
  <2>11. CASE \E name \in Names, nick \in Nicks : ChangeNickChecks(b, name, nick)
    BY <2>11, ChangeNickChecksKeeps
  <2>12. CASE ChangeNickSaves(b) \/ Fails(b)
    BY <2>12, ChangeNickSavesKeeps, FailsKeeps
  <2>13. QED
    BY <2>1, <2>2, <2>3, <2>4, <2>5, <2>6, <2>7, <2>8, <2>9, <2>10, <2>11, <2>12 DEF Serves
<1>3. QED
  BY <1>1, <1>2

\* An account that waits for its activation gets no external account beside it, and whoever can
\* log in keeps a way to.
LEMMA LinkStep ==
    RegistrationInv /\ LinkInv /\ [Next]_vars => LinkInv' /\ (KeepsLogin \/ UNCHANGED vars)
<1> SUFFICES ASSUME RegistrationInv, LinkInv, [Next]_vars
             PROVE  LinkInv' /\ (KeepsLogin \/ UNCHANGED vars)
  OBVIOUS
<1>1. CASE UNCHANGED vars
  BY <1>1 DEF vars, histories, LinkInv, Links
<1>2. CASE Next
  <2> PICK b \in Browsers : Serves(b)
    BY <1>2 DEF Next
  <2>1. CASE RegisterAddsRow(b) \/ ExternalAdds(b)
    <3>1. PICK next \in {"account", "ext_account"} :
             AddsRow(b, next) /\ call[b].at \in {"row", "ext_add"}
      BY <2>1 DEF RegisterAddsRow, ExternalAdds
    <3>2. QED
      BY <3>1, LinkAdded
  <2>2. CASE RegisterAddsAccount(b) \/ CreateOrUpdateAccount(b) \/ Disassociate(b)
    BY <2>2, RegisterAddsAccountLinks, CreateOrUpdateAccountLinks, DisassociateLinks
  <2>3. ASSUME NEW name \in Names, ResendToken(b, name)
        PROVE  LinkInv' /\ KeepsLogin
    <3>1. UNCHANGED <<users, owner, call, raced, taken>>
      BY <2>3 DEF ResendToken
    <3>2. QED
      BY <3>1 DEF LinkInv, Links, KeepsLogin, CanLogIn
  <2>4. ASSUME NEW name \in Names, NEW a \in ExternalAccounts, ExternalLinks(b, name, a)
        PROVE  LinkInv' /\ KeepsLogin
    <3>1. PICK c \in Call : c = [Idle EXCEPT !.at = "ext_account", !.name = name, !.external = a]
      BY BeginFields DEF Places
    <3>2. c.at = "ext_account" /\ c.name = name
      BY <3>1, IdleIsCall DEF Call
    <3>3. Moved(b, c) /\ UNCHANGED <<users, owner, raced, taken>> /\ SignedIn(c.name)
      BY <2>4, <3>1, <3>2 DEF ExternalLinks, Begins, Moved, histories
    <3>4. LinkInv'
      BY <3>2, <3>3, LinkBegun
    <3>5. KeepsLogin
      BY <3>3 DEF KeepsLogin, CanLogIn, Links
    <3>6. QED
      BY <3>4, <3>5
  <2>5. CASE InsertsUid(b) \/ ConfirmAccount(b) \/ ConfirmEmail(b) \/ ChangeNickSaves(b)
    BY <2>5, RowLinks
  <2>6. CASE \E name \in Names : SetsPassword(b, name)
    BY <2>6, SetsPasswordLinks
  <2>7. CASE \/ \E name \in Names, nick \in Nicks : RegisterBegins(b, name, nick)
             \/ RegisterChecksNick(b) \/ RegisterChecksName(b) \/ FindsUid(b) \/ RegisterMails(b)
             \/ \E id \in DOMAIN users : ActivationBegins(b, id)
             \/ \E name \in Names, a \in ExternalAccounts : ExternalBegins(b, name, a)
             \/ \E name \in Names, a \in ExternalAccounts : DisassociateBegins(b, name, a)
             \/ \E name \in Names, nick \in Nicks : ChangeNickChecks(b, name, nick)
             \/ Fails(b)
    BY <2>7, QuietLinks
  <2>8. QED
    BY <2>1, <2>2, <2>3, <2>4, <2>5, <2>6, <2>7 DEF Serves
<1>3. QED
  BY <1>1, <1>2

\* The invariants hold in every state of every number of browsers and users.
LEMMA RegistrationInvariant == Spec => [](RegistrationInv /\ LinkInv)
<1>1. RegistrationInv /\ LinkInv /\ [Next]_vars => (RegistrationInv /\ LinkInv)'
  BY RegistrationStep, LinkStep
<1>2. QED
  BY <1>1, RegistrationInit, PTL DEF Spec

\* Every user and every request is of its type.
THEOREM RegistrationTypeCorrect == Spec => []TypeOK
<1>1. RegistrationInv => TypeOK
  BY DEF RegistrationInv
<1>2. QED
  BY <1>1, RegistrationInvariant, PTL

\* Names and nicks: two users share one only when two requests found it free at a time.  The
\* invariant adds what the requests under way hold: a name that was found free is not taken
\* before it is written unless it is known to be raced.
THEOREM UniqueNames == Spec => []NamesAreUnique
<1>1. RegistrationInv => NamesAreUnique
  BY DEF RegistrationInv
<1>2. QED
  BY <1>1, RegistrationInvariant, PTL

\* Completeness: what a user lacks, her name not raced, no request for her broken and no external
\* account of hers taken, is what the request that is creating her is about to write.
THEOREM CompleteUsers == Spec => []UsersAreComplete
<1>1. RegistrationInv => UsersAreComplete
  BY DEF RegistrationInv, CompleteInv, UsersAreComplete, Creating
<1>2. QED
  BY <1>1, RegistrationInvariant, PTL

\* Activation: an activated account is that of a user who was mailed, and Register mails only
\* users with a Uid, though it looks for each of them by a name that another may have by then.
THEOREM ActivatedHaveUid == Spec => []ActivatedUsersHaveUid
<1>1. RegistrationInv => ActivatedUsersHaveUid
  BY DEF RegistrationInv, MailInv, ActivatedUsersHaveUid
<1>2. QED
  BY <1>1, RegistrationInvariant, PTL

\* Activation writes the account first: the e-mail is never confirmed alone.
THEOREM EmailFollows == Spec => []EmailFollowsAccount
<1>1. RegistrationInv => EmailFollowsAccount
  BY DEF RegistrationInv
<1>2. QED
  BY <1>1, RegistrationInvariant, PTL

\* Whoever can log in still can after each step, but for an external account that a request of
\* another moves or takes away: an account that waits for its activation, which Disassociate
\* counts for a way to log in, is never beside the external account it takes.
THEOREM LoginKept == Spec => LoginIsKept
<1>1. RegistrationInv /\ LinkInv /\ [Next]_vars => [KeepsLogin]_vars
  BY LinkStep
<1>2. QED
  BY <1>1, RegistrationInvariant, PTL DEF Spec, LoginIsKept
=============================================================================
