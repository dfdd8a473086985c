---------------------------- MODULE Registration ----------------------------
(***************************************************************************)
(* How users come to be: AccountController.Register, Activation,           *)
(* ResendToken, ExternalLoginConfirmation, the link of a second external   *)
(* account in ExternalLoginCallback, Disassociate, the first password of   *)
(* such a user in ChangePassword, and ChangeNick, with the methods of      *)
(* UserService behind them.  A user is spread over tables that are written *)
(* one after the other without a transaction: UserProfile, the account     *)
(* (webpages_Membership, or an external one in webpages_OAuthMembership),  *)
(* and UserExtend with the Uid that every CAS 2.0 answer needs.            *)
(*                                                                         *)
(* ASP.NET serves the requests of one session one after the other, so a    *)
(* browser is in at most one request.  A request may end with an exception *)
(* between any two of its steps.                                           *)
(***************************************************************************)
EXTENDS Integers, Sequences

CONSTANTS
    Browsers,
    Names,             \* user names, which are e-mail addresses
    Nicks,
    ExternalAccounts,  \* a provider and the id it has given a user
    MaxUsers,          \* bound: rows of UserProfile
    Null

ASSUME RegistrationAssumption ==
    MaxUsers \in Nat /\ Null \notin Names \cup Nicks \cup ExternalAccounts

User == [name : Names, nick : Nicks \cup {Null}, emailConfirmed : BOOLEAN,
         account : {"none", "unconfirmed", "confirmed", "password_set"}, uid : BOOLEAN]

Call == [at : {"idle", "nick_check", "create", "row", "account", "uid_find", "uid_insert", "mail",
               "confirm", "confirm_email", "ext_add", "ext_account", "unlink", "nick_save"},
         name : Names \cup {Null}, nick : Nicks \cup {Null},
         external : ExternalAccounts \cup {Null}, id : 0..MaxUsers, found : 0..MaxUsers]

VARIABLES
    users,   \* the rows of UserProfile, by UserId, with what the other tables hold for them
    owner,   \* webpages_OAuthMembership: the user of each external account, or 0
    call,    \* the request each browser is in, with its locals
    mailed,  \* the users to whose address the confirmation token was sent
    resent,  \* history: the users to whom ResendToken sent the token
    broken,  \* history: the users for whom a request failed between two writes
    raced,   \* history: the names and nicks that two requests found free at a time
    taken    \* history: the users an external account of whom went by a request of another

histories == <<resent, broken, raced, taken>>

vars == <<users, owner, call, mailed, histories>>

Idle == [at |-> "idle", name |-> Null, nick |-> Null, external |-> Null, id |-> 0, found |-> 0]

Init ==
    /\ users = <<>>
    /\ owner = [a \in ExternalAccounts |-> 0]
    /\ call = [b \in Browsers |-> Idle]
    /\ mailed = {} /\ resent = {} /\ broken = {} /\ raced = {} /\ taken = {}

UserNickExist(nick) == \E id \in DOMAIN users : users[id].nick = nick
UserExists(name) == \E id \in DOMAIN users : users[id].name = name

\* GetUserId; of two rows with one name, either.
IdsOf(name) == {id \in DOMAIN users : users[id].name = name}

Links(id) == {a \in ExternalAccounts : owner[a] = id}

CanLogIn(id) == users[id].account \in {"confirmed", "password_set"} \/ Links(id) # {}

\* The cookie holds a name, and outlives the external account that it was given for.
SignedIn(name) == \E id \in IdsOf(name) : CanLogIn(id) \/ id \in taken

Goes(b, at) == call' = [call EXCEPT ![b].at = at]
Begins(b, c) == call[b] = Idle /\ call' = [call EXCEPT ![b] = c]
Return(b) == call' = [call EXCEPT ![b] = Idle]

\* The places of a request that has added a row and has not finished it.
Creating == {"account", "ext_account", "uid_find", "uid_insert"}

\* The places of a request that has found a name, or a nick, free and has not written it.
HoldingName == {"row", "ext_add"}
HoldingNick == {"create", "row", "nick_save"}

NameIsOpen(b, name) ==
    \E other \in Browsers \ {b} : call[other].at \in HoldingName /\ call[other].name = name
NickIsOpen(b, nick) ==
    \E other \in Browsers \ {b} : call[other].at \in HoldingNick /\ call[other].nick = nick

RacesFor(open, what) == raced' = IF open THEN raced \cup {what} ELSE raced

-----------------------------------------------------------------------------
(* Register                                                                *)

\* A form whose code is that of the picture.  The code leaves the session first, so that a
\* form with a wrong one changes nothing here.
RegisterBegins(b, name, nick) ==
    /\ Begins(b, [Idle EXCEPT !.at = "nick_check", !.name = name, !.nick = nick])
    /\ UNCHANGED <<users, owner, mailed, histories>>

\* Mutant: the nick is only compared by the page.
RegisterChecksNick_Trusts(b) ==
    /\ call[b].at = "nick_check"
    /\ Goes(b, "create") /\ RacesFor(NickIsOpen(b, call[b].nick), call[b].nick)
    /\ UNCHANGED <<users, owner, mailed, resent, broken, taken>>

RegisterChecksNick(b) ==
    /\ call[b].at = "nick_check"
    /\ \/ UserNickExist(call[b].nick) /\ Return(b) /\ UNCHANGED raced
       \/ /\ ~UserNickExist(call[b].nick)
          /\ Goes(b, "create") /\ RacesFor(NickIsOpen(b, call[b].nick), call[b].nick)
    /\ UNCHANGED <<users, owner, mailed, resent, broken, taken>>

\* CreateUserAndAccount looks for the name; the page shows that it is there.
RegisterChecksName(b) ==
    /\ call[b].at = "create"
    /\ \/ UserExists(call[b].name) /\ Return(b) /\ UNCHANGED raced
       \/ /\ ~UserExists(call[b].name)
          /\ Goes(b, "row") /\ RacesFor(NameIsOpen(b, call[b].name), call[b].name)
    /\ UNCHANGED <<users, owner, mailed, resent, broken, taken>>

NewUser(c) == [name |-> c.name, nick |-> c.nick, emailConfirmed |-> FALSE,
               account |-> "none", uid |-> FALSE]

\* The row of UserProfile.
AddsRow(b, next) ==
    /\ Len(users) < MaxUsers
    /\ users' = Append(users, NewUser(call[b]))
    /\ call' = [call EXCEPT ![b].at = next, ![b].id = Len(users) + 1]
    /\ UNCHANGED <<owner, mailed, histories>>

RegisterAddsRow(b) == call[b].at = "row" /\ AddsRow(b, "account")

\* Mutant: the mail is sent before the Uid is given.
RegisterAddsAccount_MailsFirst(b) ==
    /\ call[b].at = "account"
    /\ \E id \in IdsOf(call[b].name) :
          /\ users[id].account = "none"
          /\ users' = [users EXCEPT ![id].account = "unconfirmed"]
          /\ call' = [call EXCEPT ![b].at = "uid_find", ![b].id = id]
          /\ mailed' = mailed \cup {id}
    /\ UNCHANGED <<owner, histories>>

\* CreateUserAndAccount finds the row by its name again, and refuses one that has an account.
RegisterAddsAccount(b) ==
    /\ call[b].at = "account"
    /\ \E id \in IdsOf(call[b].name) :
          \/ /\ users[id].account = "none"
             /\ users' = [users EXCEPT ![id].account = "unconfirmed"]
             /\ call' = [call EXCEPT ![b].at = "uid_find", ![b].id = id]
          \/ users[id].account # "none" /\ Return(b) /\ UNCHANGED users
    /\ UNCHANGED <<owner, mailed, histories>>

\* Only a registration has a mail to send once the user has a Uid.
AfterUid(b) == IF call[b].nick # Null THEN Goes(b, "mail") ELSE Return(b)

\* GetUserId goes by the name once more; InserOrUpdateExtUid: FindOne.
FindsUid(b) ==
    /\ call[b].at = "uid_find"
    /\ \E id \in IdsOf(call[b].name) :
          \/ users[id].uid /\ AfterUid(b)
          \/ /\ ~users[id].uid
             /\ call' = [call EXCEPT ![b].at = "uid_insert", ![b].found = id]
    /\ UNCHANGED <<users, owner, mailed, histories>>

\* Mutant: the row is added to the context but the changes are not saved.
InsertsUid_NotSaved(b) ==
    /\ call[b].at = "uid_insert"
    /\ AfterUid(b)
    /\ UNCHANGED <<users, owner, mailed, histories>>

\* SaveChanges; UserId is the key of UserExtend, so the second of two inserts throws.
InsertsUid(b) ==
    LET id == call[b].found IN
    /\ call[b].at = "uid_insert"
    /\ IF users[id].uid THEN Return(b) ELSE AfterUid(b)
    /\ users' = [users EXCEPT ![id].uid = TRUE]
    /\ UNCHANGED <<owner, mailed, histories>>

\* SendValidateMail with the token of the account; its result is ignored.
RegisterMails(b) ==
    /\ call[b].at = "mail"
    /\ mailed' \in {mailed, mailed \cup {call[b].id}}
    /\ Return(b)
    /\ UNCHANGED <<users, owner, histories>>

\* ResendToken: both reads are Single, which throws when there are none or two.
ResendToken(b, name) ==
    /\ call[b] = Idle
    /\ \E id \in DOMAIN users :
          /\ IdsOf(name) = {id} /\ users[id].account = "unconfirmed"
          /\ mailed' = mailed \cup {id}
          /\ resent' = resent \cup {id}
    /\ UNCHANGED <<users, owner, call, broken, raced, taken>>

-----------------------------------------------------------------------------
(* Activation, with the token of a mail                                    *)

ActivationBegins(b, id) ==
    /\ id \in mailed
    /\ users[id].account = "unconfirmed"
    /\ Begins(b, [Idle EXCEPT !.at = "confirm", !.id = id])
    /\ UNCHANGED <<users, owner, mailed, histories>>

\* Mutant: the e-mail is marked before the account is confirmed.
ConfirmAccount_EmailFirst(b) ==
    /\ call[b].at = "confirm"
    /\ users' = [users EXCEPT ![call[b].id].emailConfirmed = TRUE]
    /\ Goes(b, "confirm_email")
    /\ UNCHANGED <<owner, mailed, histories>>

ConfirmAccount(b) ==
    /\ call[b].at = "confirm"
    /\ users' = [users EXCEPT ![call[b].id].account = "confirmed"]
    /\ Goes(b, "confirm_email")
    /\ UNCHANGED <<owner, mailed, histories>>

\* The name of a registered user is her e-mail address.
ConfirmEmail(b) ==
    /\ call[b].at = "confirm_email"
    /\ users' = [users EXCEPT ![call[b].id].emailConfirmed = TRUE]
    /\ Return(b)
    /\ UNCHANGED <<owner, mailed, histories>>

-----------------------------------------------------------------------------
(* External logins                                                         *)

\* ExternalLoginConfirmation, with the external account that the page was shown for, whoever it
\* belongs to by now.  A user of that name who has a Uid is reported; one who has none makes
\* First throw.
ExternalBegins(b, name, a) ==
    /\ ~UserExists(name)
    /\ Begins(b, [Idle EXCEPT !.at = "ext_add", !.name = name, !.external = a])
    /\ RacesFor(NameIsOpen(b, name), name)
    /\ UNCHANGED <<users, owner, mailed, resent, broken, taken>>

\* Mutant: the name is not set.
ExternalAdds_NoName(b) ==
    /\ call[b].at = "ext_add" /\ Len(users) < MaxUsers
    /\ users' = Append(users, NewUser(Idle))
    /\ call' = [call EXCEPT ![b].at = "ext_account", ![b].id = Len(users) + 1]
    /\ UNCHANGED <<owner, mailed, histories>>

\* AddUserProfiles does not look again: only the name and the key are written.
ExternalAdds(b) == call[b].at = "ext_add" /\ AddsRow(b, "ext_account")

\* CreateOrUpdateAccount goes by the name, and moves an external account that another has.
CreateOrUpdateAccount(b) ==
    LET a == call[b].external IN
    /\ call[b].at = "ext_account"
    /\ \E id \in IdsOf(call[b].name) :
          /\ owner' = [owner EXCEPT ![a] = id]
          /\ taken' = taken \cup ({owner[a]} \ {0, id})
    /\ call' = [call EXCEPT ![b].at = "uid_find", ![b].external = Null]
    /\ UNCHANGED <<users, mailed, resent, broken, raced>>

\* ExternalLoginCallback: Login finds no user of the external account, so one who is signed in
\* adds it to her own.
ExternalLinks(b, name, a) ==
    /\ owner[a] = 0 /\ SignedIn(name)
    /\ Begins(b, [Idle EXCEPT !.at = "ext_account", !.name = name, !.external = a])
    /\ UNCHANGED <<users, owner, mailed, histories>>

\* Disassociate asks for the owner of the external account before its transaction.
DisassociateBegins(b, name, a) ==
    /\ SignedIn(name)
    /\ owner[a] # 0 /\ users[owner[a]].name = name
    /\ Begins(b, [Idle EXCEPT !.at = "unlink", !.name = name, !.external = a])
    /\ UNCHANGED <<users, owner, mailed, histories>>

\* Mutant: one external account is enough, the one that goes.
KeepsAnother_One(name) ==
    \E id \in IdsOf(name) : users[id].account # "none" \/ Links(id) # {}

\* HasLocalAccount, or more than one external account.
KeepsAnother(name) ==
    \E id \in IdsOf(name) :
        users[id].account # "none" \/ \E one, two \in Links(id) : one # two

\* One serialisable transaction: the account goes, whoever it belongs to by now.
Disassociate(b) ==
    LET c == call[b] IN
    /\ c.at = "unlink"
    /\ \/ /\ KeepsAnother(c.name)
          /\ owner' = [owner EXCEPT ![c.external] = 0]
          /\ taken' = IF owner[c.external] \in IdsOf(c.name) \cup {0} THEN taken
                      ELSE taken \cup {owner[c.external]}
       \/ ~KeepsAnother(c.name) /\ UNCHANGED <<owner, taken>>
    /\ Return(b)
    /\ UNCHANGED <<users, mailed, resent, broken, raced>>

\* ChangePassword of a user without a local account creates one, which needs no token.
SetsPassword(b, name) ==
    /\ call[b] = Idle /\ SignedIn(name)
    /\ \E id \in IdsOf(name) :
          /\ users[id].account = "none"
          /\ users' = [users EXCEPT ![id].account = "password_set"]
    /\ UNCHANGED <<owner, call, mailed, histories>>

-----------------------------------------------------------------------------
\* ChangeNick: the new nick is looked for, and saved in a later step.
ChangeNickChecks(b, name, nick) ==
    /\ SignedIn(name) /\ ~UserNickExist(nick)
    /\ \E id \in IdsOf(name) :
          Begins(b, [Idle EXCEPT !.at = "nick_save", !.nick = nick, !.id = id])
    /\ RacesFor(NickIsOpen(b, nick), nick)
    /\ UNCHANGED <<users, owner, mailed, resent, broken, taken>>

ChangeNickSaves(b) ==
    /\ call[b].at = "nick_save"
    /\ users' = [users EXCEPT ![call[b].id].nick = call[b].nick]
    /\ Return(b)
    /\ UNCHANGED <<owner, mailed, histories>>

\* An exception or the end of the process; what was written stays.
Fails(b) ==
    /\ call[b] # Idle
    /\ broken' = broken \cup (IF call[b].at \in Creating \cup {"confirm_email"}
                              THEN {call[b].id} \ {0} ELSE {})
    /\ Return(b)
    /\ UNCHANGED <<users, owner, mailed, resent, raced, taken>>

\* What the request of browser b does next.
Serves(b) ==
    \/ \E name \in Names, nick \in Nicks : RegisterBegins(b, name, nick)
    \/ RegisterChecksNick(b)
    \/ RegisterChecksName(b)
    \/ RegisterAddsRow(b)
    \/ RegisterAddsAccount(b)
    \/ FindsUid(b)
    \/ InsertsUid(b)
    \/ RegisterMails(b)
    \/ \E name \in Names : ResendToken(b, name)
    \/ \E id \in DOMAIN users : ActivationBegins(b, id)
    \/ ConfirmAccount(b)
    \/ ConfirmEmail(b)
    \/ \E name \in Names, a \in ExternalAccounts : ExternalBegins(b, name, a)
    \/ ExternalAdds(b)
    \/ \E name \in Names, a \in ExternalAccounts : ExternalLinks(b, name, a)
    \/ CreateOrUpdateAccount(b)
    \/ \E name \in Names, a \in ExternalAccounts : DisassociateBegins(b, name, a)
    \/ Disassociate(b)
    \/ \E name \in Names : SetsPassword(b, name)
    \/ \E name \in Names, nick \in Nicks : ChangeNickChecks(b, name, nick)
    \/ ChangeNickSaves(b)
    \/ Fails(b)

Next == \E b \in Browsers : Serves(b)

Spec == Init /\ [][Next]_vars

-----------------------------------------------------------------------------
TypeOK ==
    /\ users \in Seq(User) /\ Len(users) <= MaxUsers
    /\ owner \in [ExternalAccounts -> {0} \cup DOMAIN users]
    /\ call \in [Browsers -> Call]
    /\ mailed \subseteq DOMAIN users /\ resent \subseteq mailed
    /\ broken \subseteq DOMAIN users /\ taken \subseteq DOMAIN users
    /\ raced \subseteq Names \cup Nicks

\* Two users only share a name or a nick that two requests, of whichever kind, found free at
\* the same time: Single in ResendToken and the lookups by name rely on it.
NamesAreUnique ==
    \A id, other \in DOMAIN users : id # other =>
        /\ users[id].name = users[other].name => users[id].name \in raced
        /\ users[id].nick = users[other].nick => users[id].nick \in raced \cup {Null}

\* A user has a Uid, and a way to log in unless another took an external account of hers: except
\* while she is being created, after a request for her failed half-way, or when two requests
\* found her name free.
UsersAreComplete ==
    \A id \in DOMAIN users :
        \/ /\ users[id].uid
           /\ users[id].account # "none" \/ Links(id) # {} \/ id \in taken
        \/ users[id].name \in raced \/ id \in broken
        \/ \E b \in Browsers : call[b].id = id /\ call[b].at \in Creating

\* Who activates her account has a Uid, without which every CAS 2.0 validation for her fails,
\* even where registrations fail half-way: the mail comes last.  Only ResendToken, which does
\* not look for the Uid, takes an incomplete user to her activation; and when two requests found
\* her name free, the Uid may have gone to the other user of that name.
ActivatedUsersHaveUid ==
    \A id \in DOMAIN users :
        users[id].account = "confirmed" =>
            users[id].uid \/ id \in resent \/ users[id].name \in raced

\* The e-mail address is confirmed exactly when the account is, unless an activation is, or
\* was left, between the two; a second click on the link does not repair that.
EmailFollowsAccount ==
    \A id \in DOMAIN users :
        /\ users[id].emailConfirmed => users[id].account = "confirmed"
        /\ users[id].account = "confirmed" =>
              \/ users[id].emailConfirmed \/ id \in broken
              \/ \E b \in Browsers : call[b].at = "confirm_email" /\ call[b].id = id

KeepsLogin ==
    \A id \in DOMAIN users :
        CanLogIn(id) => CanLogIn(id)' \/ id \in taken' \/ users[id].name \in raced

\* Whoever can log in goes on to be able to, unless a request of another takes an external account
\* of hers: Disassociate, which takes a local account that was never activated for a way to log
\* in, leaves one that works.  Of two users with one name, the external account may go to the
\* one who registered, and for her it does not.
LoginIsKept == [][KeepsLogin]_vars

\* The comment before the check of Disassociate: an external account is only taken away when the
\* user who is signed in is its owner.
OwnersDisassociate ==
    [][\A a \in ExternalAccounts :
          owner[a] # 0 /\ owner'[a] = 0 =>
              \E b \in Browsers : /\ call[b].at = "unlink" /\ call[b].external = a
                                  /\ call[b].name = users[owner[a]].name]_vars

-----------------------------------------------------------------------------
(* The inductive invariants behind these properties                        *)

\* What the locals of a request are, at each of its places.
CallOK(c) ==
    /\ c.at \in {"nick_check", "create", "row"} => c.name \in Names /\ c.nick \in Nicks
    /\ c.at = "nick_save" => c.nick \in Nicks
    /\ c.at = "ext_add" => c.name \in Names /\ c.nick = Null
    /\ c.at \in {"ext_add", "ext_account", "unlink"} => c.external \in ExternalAccounts
    /\ c.at \in {"account", "mail", "confirm", "confirm_email", "nick_save"} => c.id \in DOMAIN users
    /\ c.at \in Creating => UserExists(c.name) /\ c.name \in Names /\ c.id \in {0} \cup DOMAIN users
    /\ c.at \in Creating /\ c.id # 0 => users[c.id].name = c.name
    /\ c.at \in Creating /\ c.nick # Null => c.id # 0
    /\ c.at = "uid_insert" => c.found \in IdsOf(c.name)
    /\ c.at = "mail" => users[c.id].uid \/ users[c.id].name \in raced
    /\ c.at = "confirm" => c.id \in mailed /\ users[c.id].account # "none"
    /\ c.at = "confirm_email" => users[c.id].account = "confirmed"

CallInv == \A b \in Browsers : CallOK(call[b])

\* A name or a nick that was found free and has been taken since was found free twice.
OpenInv ==
    /\ \A b \in Browsers :
          call[b].at \in HoldingName /\ UserExists(call[b].name) => call[b].name \in raced
    /\ \A b \in Browsers :
          call[b].at \in HoldingNick /\ UserNickExist(call[b].nick) => call[b].nick \in raced
    /\ \A b, other \in Browsers :
          (/\ b # other /\ call[b].at \in HoldingName /\ call[other].at \in HoldingName
           /\ call[b].name = call[other].name) => call[b].name \in raced
    /\ \A b, other \in Browsers :
          (/\ b # other /\ call[b].at \in HoldingNick /\ call[other].at \in HoldingNick
           /\ call[b].nick = call[other].nick) => call[b].nick \in raced

\* Each of the two things an incomplete user lacks is what the request creating her is about
\* to write.
CompleteInv ==
    \A id \in DOMAIN users :
        \/ users[id].name \in raced \/ id \in broken
        \/ /\ users[id].uid \/ \E b \in Browsers : call[b].id = id /\ call[b].at \in Creating
           /\ \/ users[id].account # "none" \/ Links(id) # {} \/ id \in taken
              \/ \E b \in Browsers :
                    call[b].id = id /\ call[b].at \in {"account", "ext_account"}

\* Only who was sent a token activates an account, and Register sends it after the Uid.
MailInv ==
    /\ \A id \in DOMAIN users : users[id].account = "confirmed" => id \in mailed
    /\ \A id \in mailed : users[id].uid \/ id \in resent \/ users[id].name \in raced

RegistrationInv ==
    /\ TypeOK /\ CallInv /\ OpenInv /\ CompleteInv /\ MailInv
    /\ NamesAreUnique /\ EmailFollowsAccount

\* While a name is that of one user: an account that waits for its activation has, had and gets no
\* external account beside it, because who is being registered cannot be signed in.
LinkInv ==
    /\ \A id \in DOMAIN users :
          users[id].account = "unconfirmed" =>
              (Links(id) = {} /\ id \notin taken) \/ users[id].name \in raced
    /\ \A b \in Browsers, id \in DOMAIN users :
          call[b].at = "ext_account" /\ users[id].name = call[b].name =>
              users[id].account # "unconfirmed" \/ users[id].name \in raced
    /\ \A b \in Browsers, id \in DOMAIN users :
          call[b].at = "account" /\ users[id].name = call[b].name =>
              \/ users[id].name \in raced
              \/ /\ users[id].account = "none" /\ Links(id) = {} /\ id \notin taken
                 /\ \A other \in Browsers \ {b} :
                       call[other].at \in {"account", "ext_account"} =>
                          call[other].name # call[b].name
=============================================================================
