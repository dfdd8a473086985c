# CasServer in TLA+

This directory holds specifications of the single sign-on server in this repository, the
TLC configurations that check them on small instances, and proofs that TLAPS checks for
every size. Paths below are relative to the root of the repository (`src/`). Start with
`CasTicket.tla` (260 lines, one idea) and go on to `CentralAuthenticationService.tla`.

## 1. The system

The repository contains two CAS servers.

* **`Dev.CasServer`** is the one that is deployed. `CASController` of the web application
  passes each request to `CasServer`, which issues a *service ticket* to a logged-in browser,
  redirects it to the requested service with the ticket in the URL, and answers the service's
  question whose ticket that is.
* **`NCAS`** is a port of Jasig CAS 3.5 from Java: ticket granting tickets (TGTs), service
  tickets (STs), proxy tickets, expiration policies, a registry, single logout. Its tests
  wire it with Ninject; no deployed controller calls it yet.

Around them are the account pages of the web application (registration, activation,
password reset by e-mail or telephone, external logins) and what they stand on.

### Inventory

| Part | State it keeps | Operations | How it interacts | What is hard | What makes it correct |
|---|---|---|---|---|---|
| `CasTicket`, `HttpCacheTicketStorage` | static 32-bit counter; application cache string → ticket | `Issue`, `CheckAndPunch` | called by `CasServer` on the request's thread | no lock: overlapping calls; cache keeps old entries, evicts; restart resets the counter | a ticket is redeemed at most once; a string leads to the ticket it was returned for |
| `CasServer`, `CASController`, `FormsCasAuthenticator`, `UserValidateFake` | the browsers' cookies | login by GET and POST, logout, CAS 1.0 and 2.0 validation | browsers, services, `CasTicket`, the account database | tickets in flight over logins, eviction and restart; the ticket is spent before it is checked | a service is only told a user who was sent to it |
| `CasServerConfiguration` | a static copy of the XML file | lazy `Get`, `Save` | read by `FormsCasAuthenticator` and `CasServer` | first requests race | (written by nobody at run time) |
| `CentralAuthenticationServiceImpl` | none of its own | create, grant, validate, delegate, destroy | the only user of tickets and registries | calls on one ticket from many threads; exceptions at every step | assertions name the right user; uses are bounded; logout is complete |
| `AbstractTicket`, `TicketGrantingTicketImpl`, `ServiceTicketImpl` | uses, times, flags, the dictionary of services, the chain of parents | `isExpired`, `grantServiceTicket`, `grantTicketGrantingTicket`, `expire` | chained to their granting tickets | unlocked check-then-set, `Dictionary` used by two threads | one PGT per ST; expiry is inherited |
| `DefaultTicketRegistry`, `DefaultTicketRegistryCleaner` | id → ticket | add, get, delete; `clean` | the cleaner calls `expire`, which calls services | snapshot against live tickets; a throw ends the run | old tickets go, after their services were told |
| `AbstractWebApplicationService`, `HttpClient` | the flag `loggedOutAlready` | `logOutOfService` | posts to the service | a post fails or throws | no service is skipped silently |
| Expiration policies | their windows | `isExpired` | read tickets | ticks against milliseconds; ordering of conditions | a hard timeout is final |
| `DefaultServicesManagerImpl`, `InMemoryServiceRegistryDaoImpl` | two copies of the registered services | save, delete, reload, match | asked at every grant and validation | copies diverge; reload against save and delete; id allocation | ids are unique; a reload loses nothing; a deleted service is refused; a saved flag counts |
| Authentication managers | none | `authenticate` | handlers and resolvers | which exception wins | the resolver belongs to the handler that accepted |
| Ticket ids | a counter | `getNewTicketId` | called at each creation | increment, then a separate read | ids are unique |
| Web flow and controllers | cookies, flow scope | login actions, validate, proxy, logout | call the service in sequence | PGT delegated before validation | nothing is left behind by a failure |
| Login throttling | key → last failure | `preHandle`, `postHandle`, `decrementCounts` | wraps the login | unbounded rates, exceptions of `First` and `Add` | a fast guesser is stopped |
| Password reset (`UserService`, `UserProfileRepository`) | the reset code, its time and the count of messages, three columns of a profile; reset tokens | ask for a code or a link, reset with either | `AccountController`, membership provider, SMS and mail | throttle read-then-write; code stored before it is sent; two resets share a token | messages are limited; the last message works; a right code resets |
| Registration and external logins (`AccountController`, `UserService`) | a user over four tables: profile, account, external accounts, Uid | register, activate, resend, link and unlink external accounts, change nick | membership provider, mail; `CasServer` needs the Uid | no transaction and no unique column: races, failures half-way, an external account that moves to another user | names are unique; whoever can log in has a Uid and goes on to be able to |

Left aside: vendored libraries, scripts, views, DTO mapping, image upload, and the Java files
of Jasig CAS that were copied beside the port but are compiled by nothing.

## 2. The plan

In the order of importance; 1 to 9 are done.

1. `CasTicket`: the deployed tickets at the grain of threads. Proofs: types,
   `PunchedTicketIsGone`, `StringsAreUnique`.
2. `PunchedTicket`: what a relying service may expect, as an abstract specification.
3. `CasServer` composes `CasTicket` with the handlers and is shown to implement `PunchedTicket`.
4. `CentralAuthenticationService`: NCAS tickets, registry, cleaner and single logout.
5. Proofs for it: types, `UsesBounded`, `SingleLogoutIsComplete`.
6. `ServicesManager`: the manager's copy, the DAO's list, saves, deletes and reloads.
7. `PasswordReset` and `Registration`: the accounts, in two modules because a reset and a
   registration share no column.
8. Proofs of the invariants of 6 and 7. Most are inductive only with what the calls in progress
   hold (the id a save was given, the code a message carries, the row a request is completing).
9. Proofs: the invariants of `CasServer` and its refinement of `PunchedTicket`; what an assertion
   of `CentralAuthenticationService` says over a chain of delegations, and `SsoIsVisible`.
10. An abstract specification of an NCAS service ticket (granted, used at most so often, gone) and
    the proof that `CentralAuthenticationService` implements it.

## 3. The modules

### CasTicket

| TLA+ | Code |
|---|---|
| `nCounter` | the static `_nCounter` of `CasTicket.cs` |
| `cache` | `HttpContext.Cache`, by ticket string |
| `pc`, `ticket`, `strTicket` | the program counter and locals of each request thread |
| `IssueReads`, `IssueWrites`, `IssueAdds` | `Issue`: the read and the write half of `++_nCounter`, then `Cache.Add` |
| `PunchMisses`, `PunchGets`, `PunchRemoves` | `CheckAndPunch`: `Get`, then `Remove` |
| `Evict`, `Restart` | the ASP.NET cache and the application domain |

A ticket string is the pair of the counter and of the seed of `Random`, which is
`DateTime.Now.Millisecond`; the token is a function of the seed. A ticket object has an
identity (`id`) so that two tickets of one user for one service differ. `issues`, `issued`,
`uses`, `increments`, `lost` and `restarts` are history: no guard reads them except for the
bounds `MaxIssues` and `MaxRestarts`.

### CasServer and PunchedTicket

`CasServer` EXTENDS `CasTicket`, and each of its steps inside `Issue` or `CheckAndPunch` *is*
a step of that module with the handler's part added. `cookie` is the forms cookie of each
browser, `login` and `validation` the request a thread serves, `redirects` and `answers` the
history of what browsers and services were told. A thread is not bound to a kind of request
in ASP.NET; `LoginThreads` and `ValidateThreads` only bound how many of each overlap. A
service URL is a record of the client it belongs to and whether it carries `;jsessionid=`,
which is what `TranslateService` cuts off.

`PunchedTicket` knows nothing of counters and caches: a ticket is new, live, redeemed or gone,
and some validations hold it. A ticket is not promised to be used once, since run `single_use`
shows that it is not; what is promised is that whoever asks after the first answer does not get
it, and that each validation that got it before is answered about it no more than once.
`CasServer!ImplementsPunchedTicket` maps a ticket object to the status that its place (issuing
thread, cache) and its uses give it, and to the validations that have read it. A ticket whose
`Cache.Add` was ignored goes from new to gone; a validation that ends with an exception after the
ticket was punched counts as answered, because the ticket is spent.

### CentralAuthenticationService

| TLA+ | Code |
|---|---|
| `tgt`, `st` | `TicketGrantingTicketImpl` and `ServiceTicketImpl` objects, by id |
| `tgtRegistry`, `stRegistry` | the ids under which the registries hold a ticket |
| `stLock` | `lock (serviceTicket)` of `validateServiceTicket` |
| `loggedOutAlready` | the flag of the `Service` object of each ST |
| `call` | the call each thread is in, with its locals |
| `ticketsToRemove` | the local of `clean` |
| `CreateTicketGrantingTicket` | `createTicketGrantingTicket` after the authentication succeeded |
| `GrantFindsExpired`; `GrantBegins`, `GrantCreates`, `GrantRecords`, `GrantStores` | `grantServiceTicket` of the service and of the TGT |
| `ValidateBegins`, `ValidateLocks`, `ValidateUses`, `Finally`, `ValidateReturns` | `validateServiceTicket`, its lock and its `finally` |
| `DelegateBegins`, `DelegateChecks`, `DelegateGrants` | `delegateTicketGrantingTicket` and `grantTicketGrantingTicket` |
| `DestroyBegins`, `EnumerationFails`, `LogOutOfService`, `LogOutEnds` | `destroyTicketGrantingTicket`, `expire` and `logOutOfServices` |
| `DeletesTgt` | the `deleteTicket` after `expire`, in a request and in the cleaner |
| `CleanScans`, `CleanExpiresTgt`, `CleanDeletesSt`, `CleanEnds` | `DefaultTicketRegistryCleaner.clean` |
| `TgtTimesOut`, `StTimesOut` | time, as the two wired policies see it |

Three facts about the code shape the model and are easy to miss.

* `TicketGrantingTicketImpl.isExpiredInternal` *hides* the method of `AbstractTicket`, which is
  not virtual. So `isExpired` never looks at the flag `expired`, and `TgtExpired` does not.
* `expire()` throws when a logout message does (`HttpClient` posts in the calling thread) and
  when a grant adds to the dictionary that is being enumerated. `Throw` ends the call, and the
  whole run of the cleaner.
* A grant with credentials (`renew`) compares the attributes of two authentications as
  dictionaries, by reference. It always throws before it changes anything, so it is no action.

What was merged or abstracted, and why it is harmless:

* *One step for the checks at the head of a call.* Fetching the ticket, asking `isExpired` and
  looking up the registered service change nothing, and what they read was true at some moment
  of the call; another call's step between them moves before or after them.
* *`updateState` and `services.Add` are one step* (`GrantRecords`). The interleavings that can
  be told apart, creation of the ST before the count and the race of two `Add`s, are kept:
  `ServicesAfterAdd` loses an entry when two threads are at that line.
* *The cleaner's scan is one step.* It reads a concurrent dictionary; each ticket's expiry is
  monotone except for a use that ends an idle window, and that may happen between the scan and the
  removal as well.
* *Two registries are two sets.* TGT and ST ids have different prefixes, so one shared registry
  behaves as two. The cleaner is given both kinds, as when both are one registry.
* *Time is a flag.* `idle` stands for the sliding window having passed since the last use, `old`
  for the hard window having passed. Nothing depends on how long either is, which covers the code's
  comparison of ticks with milliseconds.
* *The flags of a registered service are constants*: `ServicesManager` shows that a change of them
  never reaches the copy that is asked.

The end of the enumeration (`LogOutEnds`) and the deletion (`DeletesTgt`) are two steps, because a grant
that passed its checks earlier can record its service between them. `SingleLogoutIsComplete` says
what holds all the same: at the end of `expire` nothing in the dictionary was missed, and at the
deletion nothing but what was recorded in between.

`facts` (on calls, STs and assertions) is history: what was true of the TGT when the call began,
for the properties that speak of the past. `via`, the ST a TGT was delegated from, is history too.

### ServicesManager

| TLA+ | Code |
|---|---|
| `objects` | the `RegisteredService` objects, with the id and one flag |
| `registeredServices` | the list of `InMemoryServiceRegistryDaoImpl`, of references |
| `services` | the `ConcurrentDictionary` of `DefaultServicesManagerImpl`, which `load` replaces |
| `Save`, `SaveAssignsId`, `SaveThrows`, `SaveAdds`, `SaveRegisters` | `save` of the manager and, inside it, of the DAO |
| `ChangeEnabledState` | the method of `AbstractServicesManagerMBean`: clone, set, `save` |
| `Delete`, `DeleteRemoves` | `delete`: clone, `Remove` of the DAO, `TryRemove` |
| `LoadBegins`, `LoadThrows`, `LoadAssigns` | `load`: the enumeration of the list, which a modification ends with an exception, and the assignment |

`findServiceBy(id)` hands out a *clone*, and `AbstractRegisteredService` defines `equals` but does
not override `Equals`, so `List.Remove` never finds a clone. What follows is the code's behaviour:

* `delete` takes a service out of memory only. It is back after the next `reload`, although
  `ServiceRegistryDao.cs:43` says "Remove the service from the data store".
* Saving the clone of a service whose flag was changed appends a second object with the same id.
  `TryAdd` in `save` and `TryAdd` in `load` both keep the *first* object of an id, so a service that
  is disabled stays enabled, although `ServicesManager.cs:44` says that `save` registers a service
  "or update an existing an entry". Either takes one thread and three or four calls to see.
* A load that read the list before a save and assigns after it may take the saved service out of
  memory until the next load. `missed` has the ids to which that applies.

`DeleteRemoves` is one step because the half that belongs to the DAO changes nothing.
`SaveAssignsId` reads the highest id and sets it in one step; `SaveThrows` is the exception of its
`foreach` when another thread modifies the list meanwhile. `twoSaves` is history: two saves were
at the list at once, which breaks ids and may lose an element. Every property but the type
invariant excuses it; without the excuse TLC finds a counterexample.

### PasswordReset

| TLA+ | Code |
|---|---|
| `profile` | `PhonePasswordResetToken`, its two times as an age, `PhonePasswordResendCount` |
| `membership` | the reset token that the membership provider holds for a user |
| `SmsChecks`, `SmsStores`, `SmsSends` | `GetPassWordByPhone` with `CreatePhonePasswordResetToken` and `SendSMS`; `ResendSms` calls the same |
| `ReadsToken`, `WritesToken` | the two statements of `WebSecurity.GeneratePasswordResetToken` |
| `MailBegins`, `MailWrites`, `MailSends` | `GetPassWordByEmail` |
| `EmailBegins`, `EmailClears` | `ResetPasswordByEmailToken` |
| `ResetChecks`, `ResetGenerates`, `ResetWrites`, `ResetApplies`, `ResetClears`, `ResetCounts` | `ResetPasswordByPhoneToken` and `ResetTokenCount` |
| `Fails` | a message or a save that fails, at any point |
| `TimePasses`, `TokenExpires` | the clock |

* The time of the last message is overwritten *before* it is compared with an hour ago
  (`UserProfileRepository.cs:59-62`), so only a reset ever clears the count: after the limit was
  reached once, every hour admits one message. `Counted` therefore only adds.
* The database context of a request may return the row as the request first read it, and writes only
  the columns that differ from that. Hence the choice of counts in `SmsStores` and the second
  disjunct of `ResetCounts`.
* The code stays in the profile after a reset and works again until it expires; for a user who has
  none the comparison throws. The model has both, no text of the repository says otherwise.
* The membership provider is not in the repository. It is taken to read a row in one statement and to
  update it in another, with no transaction around them, so two requests that both find no valid
  token both write one, and the second write makes the first token void. `crossed` has the users
  for whom that happened, and `ResetFailsOnlyWhenOvertaken` excuses them and nobody else.
* `failed` is history: the users whose last code was stored and its message did not arrive. The
  code they have in hand was replaced in the profile before (`UserService.cs:114`), so it does not
  work; `LastMessageWorks` says that nothing else does this.
* `overlapped` is history: the users for whom one request prepared a message while another did.
  For them the limit of messages does not hold, nor that the last message works; `MessagesAreSpaced`
  holds for all, with the number of requests in place of one.

### Registration

| TLA+ | Code |
|---|---|
| `users` | the rows of `UserProfile`, each with what `webpages_Membership` and `UserExtend` hold for its `UserId` |
| `owner` | `webpages_OAuthMembership`: external account → `UserId` |
| `RegisterBegins`, `RegisterChecksNick`, `RegisterChecksName`, `RegisterAddsRow`, `RegisterAddsAccount`, `FindsUid`, `InsertsUid`, `RegisterMails` | `Register` |
| `ResendToken` | the method of `AccountController` |
| `ActivationBegins`, `ConfirmAccount`, `ConfirmEmail` | `Activation` |
| `ExternalBegins`, `ExternalAdds`, `CreateOrUpdateAccount`, `FindsUid`, `InsertsUid` | `ExternalLoginConfirmation` |
| `ExternalLinks`, `CreateOrUpdateAccount`, `FindsUid`, `InsertsUid` | `ExternalLoginCallback` of a user who is signed in |
| `DisassociateBegins`, `Disassociate` | `Disassociate`: the owner is read before the transaction |
| `SetsPassword` | `ChangePassword` and `Manage` of a user without a password |
| `ChangeNickChecks`, `ChangeNickSaves` | `ChangeNick` |
| `Fails` | an exception or the end of the process between any two steps |

What shapes the model:

* *Users are found by name*, again and again: `CreateUserAndAccount`, `GetUserId` (line 611) and
  `CreateOrUpdateAccount` each look the name up. Neither `UserProfileMap` nor the database makes a
  column unique, so two requests that both found a name free both write it, and a later lookup
  returns *either* row (`IdsOf`). `raced` has the names and nicks this happened to.
* *`CreateUserAndAccount` is not atomic.* The library runs a query for the name, an insert into
  `UserProfile` and then, by the name again, an insert into `webpages_Membership`: three steps.
* *`CreateOrUpdateAccount` moves an external account.* It looks for the account and updates its owner
  when it is there, whoever that was: a confirmation form that is posted again with another name, or
  two callbacks that are both past `Login`, take it from its first owner. `taken` has the users an
  external account of whom went by a request of another. Its read and its write are one step; of
  two first links that overlap the second insert fails on the key, which `Fails` covers.
* *The cookie holds a name.* `SignedIn` is whoever can log in, or could until an external account of
  hers was taken. It leaves out a user who is still signed in under a name that two rows share after
  all of them lost their logins in other ways.
* A user who has no row of `UserExtend` can log in, but `GetExtendProperty` throws for her, and with
  it every CAS 2.0 validation: `CasServer` has her outside `Extended`. `ActivatedUsersHaveUid` says
  that the order of `Register`, mail last, keeps such a user from her activation, that `ResendToken`
  is one way around it, and a shared name the other.
* The validation code of the form is left out: the session keeps a browser's requests apart, and the
  code leaves the session before it is compared.

`Disassociate` refuses to remove the last external account of a user without a local one
(`AccountController.cs:250`), and takes a local account that was never activated for one.
`LoginIsKept` says that by no request of her own does a user lose the last way to log in: whoever registered
and has not activated has no external account to remove, unless her name is that of two. What the
check of the owner does not do is hold until the deletion: `OwnersDisassociate`, violated.

## 4. The runs

Every run is `tlc -config <cfg> <module>`. Deadlock is checked in all but the last.

| Run | Instance | Checks | Shows |
|---|---|---|---|
| `cas_ticket` | 3 threads, 2 users, counter of 2 values, 3 issues, 1 restart, 1 millisecond | `TypeOK`, `PunchedTicketIsGone`, `StringsAreUnique` | a punched ticket cannot come back under any string; strings are unique while the counter is undisturbed |
| `single_use` | 2 threads | `SingleUse` | **violated**: overlapping validations of one ticket both succeed |
| `string_names_ticket` | 2 threads | `StringNamesItsTicket` | **violated**: overlapping logins share a string, and the second user's service is told the first user |
| `cas_server` | 2 login threads, 2 validations, 2 users, 1 browser, a configured and an unknown service, counter of 2 values, 2 issues, 1 restart | `ServerTypeOK`, `AnswersAreGranted`, `OwnRedirectIsHonoured`, `ImplementsPunchedTicket` | even over restarts and lost increments, a service is only told a user who was sent to it with that string, and a validation that begins after another was answered does not get the same ticket |
| `ncas_tickets` | 2 threads and the cleaner, 2 TGTs, 2 STs, two services | `TypeOK`, `UsesBounded`, `AssertionsAreTrue`, `SsoIsVisible`, `SingleLogoutIsComplete` | the service's promises under two concurrent requests |
| `ncas_timeouts` | 1 thread and the cleaner, 2 TGTs, 2 STs, 1 timeout, fairness | `HardTimeoutIsFinal`, `SingleLogoutIsComplete`, `OldTgtIsRemoved` | the same with time passing at any moment; old TGTs go, although messages fail and grants abort the enumeration |
| `ncas_destroy` | 1 thread | `DestroyInvalidates` | **violated**: the ST of a destroyed TGT still validates |
| `ncas_pgt` | 2 threads | `OnePgtPerSt` | **violated**: overlapping delegations get two PGTs from one ST |
| `services` | 2 threads, 1 configured service, 5 objects | `TypeOK`, `IdsAreUnique`, `ReloadLosesNothing`, `StoredServicesAreFound` | which overlaps the dictionary, the list and the ids survive |
| `password_reset` | 2 requests, 1 user, limit 2, 3 codes, 2 reset tokens | `TypeOK`, `MessagesAreSpaced`, `MessagesAreLimited`, `LastMessageWorks`, `ResetFailsOnlyWhenOvertaken` | the throttle holds up to the requests that overlap; a right code fails only when another reset was first, the token's day was over or two tokens crossed |
| `registration` | 2 browsers, 2 names, 1 nick, 2 users, 1 external account | `TypeOK`, `NamesAreUnique`, `UsersAreComplete`, `ActivatedUsersHaveUid`, `EmailFollowsAccount`, `LoginIsKept` | what races and failures may leave behind, and what not |
| `registration_owner` | the same without the registration form | `OwnersDisassociate` | **violated**: an external account is taken away from a user by another |

Deadlock is not checked in `registration_owner`: nobody fills in the registration form there, so that once
both names are taken and nothing is linked there is nothing left to do.

The violated properties say what a comment or an exception message of the code says; each is a
finding in `PROJECT.json` with both lines. A short trace for each:

* `single_use`: thread 1 `Get`s the ticket; thread 2 `Get`s it; both `Remove` and return the user.
* `string_names_ticket`: both threads read the counter as 0 and write 1 in the same millisecond;
  the first `Add` wins; the second caller's string leads to the first caller's ticket.
* `ncas_destroy`: create, grant, destroy, validate.
* `ncas_pgt`: both delegations pass `grantedTicketAlready` before either sets it.
* `registration_owner`: alice has an external account and a password; her `Disassociate` reads
  that she is the owner; a confirmation form posted for the same external account creates bob and moves it to
  him; the transaction of `Disassociate` deletes it.

### Bounds and why they are enough

* `MaxIssues`, `MaxTgts`, `MaxSts` bound how many tickets a behaviour creates. Three issues are
  what it takes for a slow increment to be overtaken by two others and land on a used value; two
  TGTs are a login and its proxy, or two logins; two STs are two services of one TGT, or one for
  the login and one for its proxy. `RoomForTgt` and `RoomForSt` keep a call from starting that the
  bound would strand half way.
* `CounterSize` (2^32 in the code) is 2 in `cas_ticket`, where three issues wrap it while the first ticket
  may still be cached. In `cas_server` it is 2 as well, with two issues: there the counter returns to 0, but what
  issues a string again is the restart. In the violated runs it is 4, so that no wrap is to
  blame for what they find.
* `Milliseconds` has one member in every run: the worst case, in which the token adds nothing.
* `MaxRestarts`, `MaxTimeouts` bound restarts and windows that pass. One restart suffices to meet
  an old string again; one timeout is a window that passes at any moment, for any ticket of a chain.
* `ncas_tickets` has no timeouts and `ncas_timeouts` one request thread, to keep each below a few
  million states; the cleaner, which runs on a thread of its own, is the second actor of the
  latter.

* `services`: five objects are the configured service, two that are registered, and the clones of two
  of `delete`, `enable` and `disable`; ids run up to the same bound.
* `password_reset`: `ResendLimit` is 2 (5 in the code); three codes are the limit and the message after it, two
  tokens are one that is spent, or written over, and one that is made up afterwards. One user is enough
  because two share nothing but the numbers that codes and tokens get, and all properties speak of one user.
* `registration`: two rows are two users, or one name twice. One nick is enough for two users to want
  the same; a second only lets a nick become free again, which makes no race that one has not. One
  external account is one that moves; that a user may have several, of which `Disassociate` counts the
  others, takes more states than a run has time for, and is what `CompleteUsers` and `LoginKept` prove for
  any number of them.

### Fairness

Only `CentralAuthenticationService` has a liveness property and assumes fairness: weak fairness of the next
step of a request that has begun, since ASP.NET runs its thread to the end, and of the cleaner, which is
run again and again as a scheduler would (nothing in the repository schedules it, its callers do). No
fairness is assumed of logins, validations, evictions, timeouts or of the *outcome* of a logout
message. The lock of an ST needs no strong fairness: its uses are bounded, so it cannot be taken
over and over by others.

## 5. The proofs

Every safety property that a passing run checks is also a theorem, for all values of the
constants. Each inductive invariant is defined at the end of the module it is about and was
checked by TLC on the instance of that module's run before it was proved.

| Module | Theorem | Proves | By way of |
|---|---|---|---|
| `CasTicketProofs` | `TypeCorrect` | `Spec => []TypeOK` | inductive as it stands |
| | `PunchedIsGone` | `Spec => []PunchedTicketIsGone` | `PunchInv` |
| | `UniqueStrings` | `Spec => []StringsAreUnique` | `CounterInv` |
| `CasServerProofs` | `ServerTypeCorrect` | `ServerSpec => []ServerTypeOK` | `TypeOK` of `CasTicket`, `RequestsTypeOK` |
| | `AnswersGranted` | `ServerSpec => []AnswersAreGranted` | `GrantInv` |
| | `OwnRedirectHonoured` | `ServerSpec => []OwnRedirectIsHonoured` | `GrantInv`, `UniqueStrings` |
| | `Refinement` | `ServerSpec => ImplementsPunchedTicket` | `PunchInv`, step by step |
| `CentralAuthenticationServiceProofs` | `TicketsTyped` | `Spec => []TypeInv` | `TicketsTypeOK /\ CallsInv` |
| | `UsesAreBounded` | `Spec => []UsesBounded` | `LockInv` |
| | `LogoutIsComplete` | `Spec => SingleLogoutIsComplete` | `LogOutInv` |
| `AssertionProofs` | `CasTypeCorrect` | `Spec => []TypeOK` | `CasInv` |
| | `SsoVisible` | `Spec => []SsoIsVisible` | `GrantsInv` |
| | `AssertionsTrue` | `Spec => []AssertionsAreTrue` | `TicketsInv`, `GrantsInv` |
| | `HardTimeoutFinal` | `Spec => []HardTimeoutIsFinal` | `ValidationsInv` |
| `ServicesManagerProofs` | `ServicesTypeCorrect` | `Spec => []TypeOK` | `ServicesInv` |
| | `UniqueIds` | `Spec => []IdsAreUnique` | `IdsInv`, `ObjectsInv`, `ListInv` |
| | `NothingLost` | `Spec => []ReloadLosesNothing` | `ListInv`, `LoadInv` |
| | `StoredFound` | `Spec => []StoredServicesAreFound` | `ListInv`, `LoadInv` |
| `PasswordResetProofs` | `ResetTypeCorrect` | `Spec => []TypeOK` | inductive as it stands |
| | `MessagesSpaced` | `Spec => []MessagesAreSpaced` | `SpacedInv` |
| | `MessagesLimited` | `Spec => []MessagesAreLimited` | `OnePrepares`, `LimitInv` |
| | `LastMessageIsGood` | `Spec => []LastMessageWorks` | `OnePrepares`, `MessageInv` |
| | `ResetsAreOvertaken` | `Spec => []ResetFailsOnlyWhenOvertaken` | `HoldsToken` |
| `RegistrationProofs` | `RegistrationTypeCorrect` | `Spec => []TypeOK` | `CallInv` |
| | `UniqueNames` | `Spec => []NamesAreUnique` | `CallInv`, `OpenInv` |
| | `CompleteUsers` | `Spec => []UsersAreComplete` | `CompleteInv` |
| | `ActivatedHaveUid` | `Spec => []ActivatedUsersHaveUid` | `MailInv` |
| | `EmailFollows` | `Spec => []EmailFollowsAccount` | inductive with `CallInv` |
| | `LoginKept` | `Spec => LoginIsKept` | `LinkInv` |

`NumberLemmas` holds what the others need about numbers: a set of them has a least element,
hence induction and recursion along a function that takes every number to a smaller one.

### Assumptions

`ConstantsAssumption`, `ServerAssumption`, `CasAssumption`, `ServicesAssumption`, `ResetAssumption`
and `RegistrationAssumption` say that bounds are numbers, that sets of requests are finite where they
are counted, that the configured services fit the bound, that the sets of special services,
users and threads are parts of the sets of all, and that `Null`, `None`, `NoService` and the cleaner are
none of the other values. TLC evaluates them in every run. No theorem has a
hypothesis beyond these.

### The deployed server

*`PunchedTicketIsGone` is not inductive*: nothing in it stops a thread from adding a ticket that was
already used. `PunchInv` says that each ticket object is in one place, with the thread
issuing it or under a single key of the cache, and that whoever is punching it does so under that
key. So `Remove` removes the last reference, and no later `Add` can restore it.

*`StringsAreUnique`* rests on the order in which the counter hands out its values: 1, 2, .. and 0
last (`Position`). While no increment is lost, the counter equals the number of increments
(modulo its size), every string in use has a position no greater than that, and the next string is
therefore new. Each premise (`~lost`, `restarts = 0`, `increments <= CounterSize`) is needed.

*`CasServer`.* `ServerSteps` shows first that a step of the server is a step of `CasTicket` with what the
handler adds, or touches no ticket; so `CasTicketProofs` holds of the server. `GrantInv` then follows a
ticket through the server: what a login thread is issuing is for the user and the configured page
of its request; every pair of a ticket and a string that a call of `Issue` returned was sent to that page,
and nothing else was; the cache leads a string only to a ticket it was returned with. The last is the
one that survives a lost increment, a wrapped counter and a restart: they make two tickets share a string,
but `Cache.Add` refuses the second, so that an answer is still about a redirection with that very string.
`OwnRedirectIsHonoured` adds that strings are unique while the counter is undisturbed.

*`Refinement`.* A status of `PunchedTicket` is a function of the place of a ticket (`HeldBy` a login, a key of
the cache) and of its uses; its holders are the validations that have read it. For each step of the
server the proof says which tickets change their place, and that the one that does takes the step of the
abstract ticket. By `PunchInv`, a ticket that was used is in no cache and with no login, so
that a validation only takes one that is live, and an answer leaves it redeemed for good, however many
other validations still hold it.

### NCAS tickets

*`UsesBounded`* needs that the thread between the check and the increment owns the lock and that a
use was left when it looked (`LockInv`). The check under the lock is the only thing that makes
the second conjunct survive another thread's step.

*`SingleLogoutIsComplete`* is a property of steps. What a logout in progress has enumerated and no
longer has to do is logged out, and after the enumeration all that it enumerated is (`LogOutInv`). It ends
normally only if the dictionary is what it was at the start, so when `expire` returns all of the
dictionary is logged out; when the TGT is deleted, all of it that was there then.

*Chains of delegations.* `TgtExpired`, `Chained` and `Ancestors` are recursive functions, which say nothing until
a function that satisfies their equation is known to exist. `TicketsInv` numbers tickets after their
parents, and `ParentRecursion` turns that into the existence; `AncestorsOf`, `TgtExpiredOf` and `ChainedOf` are the
equations. By `ParentInduction`, the last authentication of a chain is that of an ancestor without a
parent (`ChainsEnd`), a passed hard window expires every ticket below it (`OldExpires`), and a step changes nobody's
ancestors (`AncestorsStay`).

*`AssertionsAreTrue`*: when it is made, an assertion names the principal that the chain ends in, who is a
user because only logins create a TGT without a parent (`TicketsInv`); the service is the ST's, which was
enabled, and allowed to proxy if there was a parent (`GrantsInv`). Every TGT above with a parent was delegated
`via` an ST of that parent whose service may proxy, because a delegation in progress holds such an ST
(`MayDelegate` in `TicketsInv`). None of this changes afterwards.
*`HardTimeoutIsFinal`*: a validation that began after a window had passed carries that fact to the lock,
where the window is still passed (`ValidationsInv`) and the ticket expired. *`SsoIsVisible`*: a grant that began when an ST of
the TGT had been returned found the use counted, because `GrantRecords` comes before the return (`GrantsInv`);
so it was only let through for a service with single sign-on, and the new ST reads the count again.

### Services, resets and registrations

*`ServicesManager`.* Each conjunct of `ServicesInv` excuses just the overlaps that break it. `IdsInv`
counts: ids are handed out one above the highest in the list, so none exceeds the number of objects that have one. `ObjectsInv` gives
each call an object of its own. Without overlapping saves an id just given is higher than all in
the list (`ListInv`), hence new, and whatever is in memory, or about to be, is in the list: saves put it there first,
nothing takes it out, and what a load in progress has read is part of the list (`LoadInv`). Hence
`ReloadLosesNothing`. `StoredServicesAreFound` needs that only a load can take an id out of memory that was not
deleted, namely one that the load read the list too early for, which is what `missed` has.

*`PasswordReset`.* `MessagesAreSpaced` is a counting argument: the codes of this minute and the requests that
have passed the check and not stored theirs are together no more than there are threads, because storing moves a
request from one to the other, and nobody passes the check within the minute. `MessagesAreLimited`
needs that the count in the row, *and* the count a request read before, are never behind the codes
(`LimitInv`), which is true only as long as one request at a time prepares a message (`OnePrepares`); so is
that the code about to be sent is the one stored (`MessageInv`). `ResetFailsOnlyWhenOvertaken`: while no two
requests make up tokens at once, the one about to write a token replaces none (`HoldsToken`), so that no request
that has one loses it, unless the row is cleared, which marks all who hold it as overtaken.

*`Registration`.* The invariants are proved together, as `RegistrationInv /\ LinkInv`, since each step
needs `CallInv`, which says what the locals of a request are at each place, and most need `OpenInv`: a name that
was found free and is taken since was found free by two. So as long as a name has not raced there is one
row to find by it, and each of the lookups finds the row of the request. What a user lacks, the request
creating her is about to write (`CompleteInv`); the mail goes out after the Uid (`MailInv`). `LoginIsKept` is a
property of steps: with `LinkInv`, an account that waits for its activation has no external login beside it, nor
gets one, so that a `Disassociate` that counts it as a way to log in has nothing to take away.

### What remains with TLC alone

The liveness property `OldTgtIsRemoved`, which TLAPS cannot prove since it speaks of fairness; and the
five violated properties, which are false.

## 6. Not modelled

The components with the status `not_modelled` in `PROJECT.json`, with the reason for each. Within the
modelled ones: what responses and log entries look like, cookies' lifetimes, the XML of SAML
messages, the contents of service URLs beyond what decides a branch, and authentication, which
appears as the choice of a user who logs in.

* *Login throttling* of NCAS: nothing wires it, and it never records anything. `preHandle` looks a key
  up with `First`, which throws for every post whose key is not there, and only `postHandle`, which
  runs after it, adds keys.
* *The web flow and controllers* of NCAS: no flow definition or route wires them. That
  `ServiceValidateController` delegates before it validates is one of the orders of calls in
  `ncas_tickets`.
* *Policies that nothing wires, authentication managers, ticket ids*: pure functions, loops without
  state, and a counter whose race the random part of an id hides.
* *Scripts*: the program is written in C#. Of the JavaScript, 64 lines are the project's own
  (`Scripts/Plus/jquery.validate.unobtrusive.extends.js`), which show a message beside a field; the
  rest is jQuery, jQuery UI, Knockout, Modernizr and their plugins as published.
