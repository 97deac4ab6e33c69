# Verification of the e-commerce backend

TLA+ modules, TLC configurations and TLAPS proofs kept beside
`backend-ecommerce-nestjs` (NestJS, Prisma 5, PostgreSQL). Paths below are
relative to the repository's `src/auth/` unless they say otherwise. The
repository holds no tests and no prose documentation: every definition is
translated from the code.

## 1. The system

| Component | State it keeps | Operations | Talks to |
|---|---|---|---|
| Token service (`token/token.service.ts`) | `refresh_tokens`, `token_blacklist`, signed JWTs | generate, rotate, blacklist, invalidateSession, cleanup | sessions table |
| Sessions and devices (`services/sessions-devices.service.ts`) | `sessions` | createSession with limit and eviction, revoke, logout, logout of all | token service, audit log |
| Tokens orchestration (`services/tokens-orchestration.service.ts`) | `mfa_challenges` (write-only) | issueTokens, refreshTokens | token service, authorization |
| JWT guard (`strategies/jwt.strategy.ts`) | none | validate | blacklist, sessions |
| Credentials (`services/credentials-passwords.service.ts`) | `auth_accounts.passwordHash`, `password_resets` | login, verifyMfaCode, request and confirm a reset, change | abuse counters, sessions, mail |
| Account identity (`services/account-identity.service.ts`) | `users`, `auth_accounts`, `email_verifications`, `mfa_factors` | register, verify, resend, social upsert, TOTP set-up and confirmation | mail |
| Security and abuse (`services/security-abuse.service.ts`) | `rate_limits` | check, count, block, clear | called by guards, credentials, auth service |
| Authorization (`services/authorization.service.ts`, `guards/roles.guard.ts`) | role assignments (read only here) | getActiveRole, assertPermission, role guard | role name in the JWTs |
| Password rules (`dto/common/password-rules.ts`) | none | validators of bodies, check of the service | |
| Contact messages (`../message`) | `contact_messages` and replies | create, updateStatus, markAsRead, reply | |
| Newsletter (`../newsletter`) | subscriptions | subscribe, unsubscribe | |
| Audit, mail, social providers, health, metrics, users | write-only or none | | |

Every handler is an `async` function. Node runs it without interruption from
one `await` to the next, and between two awaits other requests, of this
process or another, work on the same tables. PostgreSQL runs at READ
COMMITTED; most handlers use no transaction, some a *batch*
(`$transaction([...])`), two an *interactive* one (`$transaction(async tx =>
...)`), which holds a connection of the Prisma pool until it ends.

What makes it hard, and what correctness means:

* **Rotation of refresh tokens.** The interactive transaction reads the token
  and its session, deletes the token's family, and then inserts the new row
  *outside* itself, through the service's own client (`token.service.ts:164`).
  The insert commits alone, needs a second connection while the first is held,
  and survives a rollback. Correct means: no token of an ended session is
  accepted, an active session never loses its last one, what a rotation replaces
  is gone, the server never stops for good.
* **Ending sessions.** Logout, revocation, logout of all devices, eviction,
  password change and reset end sessions in up to four queries each, in
  competition with rotations, logins and each other. Correct means: an answer
  of success is true of every session that was to end, nobody's sessions are
  ended by somebody else, and what has ended stays ended.
* **Time.** Sessions, refresh tokens, JWTs and blacklist rows expire between
  any two queries; cleanup deletes rows a handler has just read.
* **Faults.** A query may throw, a transaction time out, an answer get lost.
* **Limits.** Counters are read before and written after what they count, blocks
  and windows end between two queries, and a success clears counters others
  are working on. Correct means: blocks and exhausted counters hold, and nobody
  is refused without one.
* **Accounts.** Registration writes the user, the verification link and the mail
  one after the other, and may stop between any two; a link is renewed while it
  is being used; a social login makes a user while somebody registers the same
  address; a second factor is set up again half-way through a confirmation.
  Correct means: what is verified was proven, a link that was promised works, an
  address is taken by a user nobody can be in known cases only, and a second
  factor stays on.
* **Passwords.** Login, reset and change read a hash or a link, compute for a
  while and write. Correct means: an old password is of no use but to logins
  that overlapped the change, a link works once, an answer of success is true.
* **Messages.** Administrators decide on a status read before, while others
  mark, answer and page through the list. Correct means: status, replies and who
  replied last stay in step, and nobody loses what another has recorded.
* **Roles.** A role is looked up once and travels in a token. Correct means: a
  lost role is honoured for no longer than a token lives.

`PROJECT.json` lists all of these as hazards, each at its line.

## 2. The modules

| Module | What it models |
|---|---|
| `AuthStore` | The tables `sess`, `refresh`, `blk`; the JWTs signed (`jwt`), the pairs clients received (`held`), the clock (`now`); per request a program counter `pc` and a frame `fr` of local variables; row locks and the pool. |
| `TokenService` | `token.service.ts`: rotation (`Rot...`, `TxTimeout`), blacklist, `invalidateSession` (`InvStart`, `InvCommit`), `Cleanup`. |
| `SessionsDevices` | `sessions-devices.service.ts`: `createSession` (`CountSessions`, `FindOldest`, `CreateSession`), `FindAll`, `FindOwn`, `InvAgain`; the sweep of a password change or reset. |
| `TokensOrchestration` | `issueTokens` (`Issue`), `refreshTokens` after the rotation (`Recheck`, `Challenge`, `Mint`). |
| `AuthSessions` | Composition: arrival of requests (controller, auth service), the JWT guard, answers, faults, the clock; `Next`, `Spec`, `FairSpec`, the properties and the refinement mapping. |
| `SessionLifecycle` | Abstract specification: sessions go from none to active to ended, requests are accepted or not. No tokens, tables, clock or locks. |
| `AuthInvariants` | The inductive invariant (`IndInv`), and what is added to it as long as the logins of a user (`CapInv`), or the rotations of a family (`ApartInv`), do not overlap. |
| `AuthSessionsProofs` | Proofs: types, ended sessions. |
| `RevocationProofs` | Proofs: blacklisted JWTs, answered revocations, whose sessions are ended, what refresh tokens stay stored and which are replaced. |
| `LifecycleProofs` | Proof that the subsystem implements `SessionLifecycle`; proofs that nothing but overlapping logins passes the session limit, and nothing but overlapping rotations loses a fresh token. |
| `SecurityAbuse` | `security-abuse.service.ts` with the guard and the callers that surround a login, social login, registration or reset request. Shares no table with the modules above. |
| `AbuseProofs` | Invariants and proofs about `SecurityAbuse`. |
| `AccountIdentity` | `account-identity.service.ts` and its routes: `register`, `resendVerification`, `verifyEmail`, `upsertSocialAccount`, `setupMfaTotp`, `confirmMfaTotp`. Shares no table with the modules above. |
| `AccountProofs` | Invariants and proofs about `AccountIdentity`. |
| `Credentials` | `credentials-passwords.service.ts`: login, `requestPasswordReset`, `confirmPasswordReset`, `changePassword`, with the sessions they open and end. |
| `CredentialsProofs` | Invariant and proofs about `Credentials`. |
| `MessageThread` | Abstract specification of a contact message: created, marked, answered. No queries, times or transactions. |
| `Messages` | `../message/messages.service.ts`, which implements it: `create`, `findAll`, `updateStatus`, `markAsRead`, `replyToMessage`. |
| `MessageProofs` | Invariants and proofs about `Messages`, and the proof that it implements `MessageThread`. |
| `AccessControl` | `getActiveRole`, the role in the access token, `JwtAuthGuard` and `RolesGuard` over one route per combination of decorators. |
| `AccessProofs` | Proofs about `AccessControl`. |
| `MC...` | Symmetry sets and settings for TLC. |

**State and code.** One action is one database call together with the code up
to the next one. A request is handled once and gives its name to the session,
refresh token and JWT it creates (the code draws random identifiers, which do
not collide). `fr[r]` holds the handler's locals: the token presented (`g`),
the session worked on (`sid`), the family, the `now` a later query compares
with (`at`), the sessions left to invalidate (`todo`). Four fields are not in
the code but record, for the properties, what was true on arrival: `dead` (the
session of the token presented had ended), `black` (the JWT was blacklisted),
`live` (the active sessions the request is asked to end), `old` (the stored
tokens of the family it is going to rotate). For the same reason a signed JWT
keeps the family (`fam`) of the refresh token it was handed out with.

`completeMfa` (`auth.controller.ts:200`, `auth.service.ts:87`) takes user and
session from the body, and `verifyMfaCode` looks at the user's factor only. So
`BeginCompleteMfa` takes any user with a verified factor and any session: one
that has ended, or is another user's, gets a token pair all the same. Pairs of a
user and a session that do not belong together therefore exist, and only the
checks of the guard (`jwt.strategy.ts:56`, which compares the two) and of the
rotation stand between them and a service. `dead` is about tokens that are
presented, and `completeMfa` presents none.

A rotation goes through `rotFind`, `rotSession`, `rotDelete` (the DELETE takes
its READ COMMITTED snapshot, `snap`), `rotLock` (it waits for rows another
transaction is deleting, then skips those that are gone), `rotInsert` (needs
another connection), `rotCommit` (the deletions `del` become visible). A
transaction's writes are applied at its commit; until then its rows are
locked. `TxTimeout` rolls back; at `rotInsert` the insert is already under way
and commits afterwards (`RotLate`). `Fail` is any exception.

**What is abstracted.**
* Passwords, profiles, TOTP codes and reset tokens: a login, MFA completion or
  reset arrives once its secret has been accepted. Passwords and reset links
  are modelled in `Credentials`, the abuse counters around a login in
  `SecurityAbuse`.
* Reads merged into a neighbouring step because nothing the model keeps
  depends on when they happen: the user's role, the MFA factor, the update of
  `lastUsedAt`, the clearing of counters. That they may fail is `Throw`, as
  are failing audit inserts.
* Guards run globally and again per route; the model keeps one run, since a
  repeated check only refuses more. The route of `revoke` is called
  `revokeAnySession` and requires the role `admin`
  (`auth.controller.ts:154`), which suggests that an administrator ends
  anybody's session; but it passes the administrator's own `userId` on, with
  which `revokeSession` looks the session up, so that only the caller's own are
  found. The model grants the role and keeps the lookup (`FindOwn`).
* `mfa_challenges` rows are written and never read, so they are not kept;
  `Challenge` keeps the foreign key that can make the write fail.
* A batch that waits for a session's lock is taken to wait before it holds a
  connection, and it locks what it needs at once; `Cleanup` is one step that
  runs when it meets no lock. Lock waits in a cycle (PostgreSQL's deadlock
  detector) are therefore outside the model; their outcome is a failed query,
  `Throw`.
* Expiries are stamped in the step that inserts the row.
* `invalidateAllUserSessions`, `revokeAllSessions` and the orchestration's own
  `revokeSession` have no caller and are not modelled. `cleanupExpiredAuthData`
  has none either but is modelled: it is written to be scheduled, and it makes
  rows vanish under running handlers.

**Limits.** `SecurityAbuse` keeps the table `rate_limits` (`rows`, by identifier,
action and start of the window) and, as above, one action per query. A handler
works through its identifiers in the code's order (`left`): `block` and `count`
look one up, `ban` writes a block, `hit` counts a registration or reset request,
`record` counts a failure. `at` is the `now` read at the start of a round of
checks, `start` the window that is counted in; they are not always of the same
moment. A login and a registration go through two rounds because
`AuthService.login` and `credentials.login`, and the guard and
`AuthService.register`, each run the checks; a social login's second round
follows the provider's answer. `until`, `spent` and `cause` record how the
table stood on arrival. Whether the password is right and what the provider
answers is arbitrary; one provider stands for both, whose identifiers are
disjoint. Session, account and mail work behind the checks is one step, `Enter`.
An `upsert` is atomic; that two may collide on a new row is `Throw`.

**Accounts.** `AccountIdentity` keeps `users`, the accounts (`local`: is it
verified; `social`), `email_verifications` (`links`) and `mfa_factors`
(`factor`). A user is identified by the address, which is unique and never
changes, so there is at most one link row per user: only `register` inserts
one, after it has inserted the user. A request gives its name to the token or
secret it draws. `mailed` and `shown` are what reached mailboxes and screens,
and the only tokens and secrets requests present; `proven` and `at` are
recorded for the properties. `RegCreate` is the nested create of user and
account, one statement to the caller. `VerCommit` is a batch: it marks the row
it found before, by its id, even when a resend has renewed the token since. In
the interactive transaction of a social login the user inserted is invisible
to others until the commit, but their inserts of that address wait for it
(`Inserting`); the upsert and the commit are one step. `Throw` rolls such a
transaction back, and leaves alone what a handler outside one has written. Left
out: user names (a second unique column, refused like the address), phone and
profile, password strength, encryption, `lastUsedAt`, the limits (modelled in
`SecurityAbuse`), and `verifiedAt` of social accounts, which nothing reads. Profiles
without a verified address do not get here. A profile signs in with any
address, and another one the next time: the code finds the user by the address
and the account by the profile, and where the two differ the account keeps its
user, a user of the new address is made if there is none, and the session is
opened for that one (`auth.service.ts:219`; `CanLogIn`). An account is not made
for a user who has one of the same provider (`HasProvider`, a unique index;
`ProviderOf` says whose profile is whose). `signed` records who has signed in
with which address, `stranded` the users whose registration has failed between
user and link.

**Passwords.** `Credentials` keeps the hash of each local account (`password`),
`password_resets` (`resets`) and the sessions. A request gives its name to the
password it sets, so that two passwords are equal only when they are the same
one; `Typed` are the passwords anybody can present. The transaction of reset
and change is a batch: `Account` updates the account, and the link in a reset,
and waits while another holds the row; `Sweep` takes the sessions it sees;
`Commit` makes all of it visible. `met` records which changes of the user's
password a request has overlapped, `had`, `was` and `at` what it came in to.
The table of sessions is that of `AuthSessions`, of which this module needs
only whether a session is active; there, a reset or change arrives as its
sweep. The limits around a login or reset request are in `SecurityAbuse`.

**Messages.** A message is its row and its replies; name, text and search words
are left out, so that the list is filtered by status only, by any of them or
none. `fr[r].readAt` is the `readAt` that `updateStatus` found. `by` and `setBy`
record which request wrote the time of reading and the status. The reply transaction holds the row
from its update (`RepUpdate`) to its commit. `findAll` is a batch of two
statements, each with its own view; `FindAll` repeats it for the pages one
after the other, as a client does that uses `totalPages`. Times of creation
are distinct (`clock`).

**Roles.** `Administer` stands for whoever gives and takes roles: nothing in the
repository does. An assignment expires, is revoked, or its role is switched
off. The JWT guard's look at the session is `AuthSessions`' business. Whether
a route is called with a token or without is arbitrary, and a stranger's token
is any token.

Definitions named as a *variant* in a comment (`RotDeleteOne`,
`AuthSessionAnyUser`, ...) are plausible bugs of the definition that follows: with the
variant in its place the property `PROJECT.json` pairs it with fails.

## 3. Plan

In this order; each module is written to be checked and proved about
(constants with assumptions, one action per operation, no recursive operator).

1. **Core (done):** sections 2, 4 and 5.
2. **Proofs about the core (done):** every safety property the runs check, and
   the refinement: section 5.
3. **Credentials, AccessControl (done):** modelled, checked, proved.
4. **Messages (done):** modelled, checked; safety and refinement proved.
5. **SecurityAbuse (done):** modelled, checked, proved.
6. **Account (modelled, checked, safety proved):** left is an abstract
   specification of what an account goes through: none, unverified, verified,
   and never back.

## 4. What is checked

All runs are exhaustive, with deadlock checking on:
once all requests are answered the system stutters (`Finished`), so any other
stop is reported.

| Run | Shows | Instance |
|---|---|---|
| `rotation` | `EndedTokensRefused`, `SessionKeepsToken`, `RotationReplaces` | 1 user, 2 devices, 4 requests, 3 at a time; login, MFA, refresh, logout; throw, timeout, lost answer |
| `sessions` | `TypeOK`, `AnsweredRevocationHolds`, `ImplementsLifecycle`, `OnlyOwnerEndsSession` | 2 users, 4 requests, 3 at a time; logins, MFA, logout of one and of all, revoke, change, reset; limit of 2 sessions |
| `expiry` | `BlacklistIsFinal`, `ImplementsLifecycle` | 1 user with MFA, 2 devices, 4 requests, 2 at a time; login, MFA, refresh, revoke, read, cleanup; 3 ticks |
| `overlap` | `CapOnlyRaced`, `LossOnlyRaced` | 1 user, 4 requests, 2 at a time; login, refresh, logout; timeout; limit of 1 session |
| `pool` | `EveryRequestAnswered` under `FairSpec` | 4 requests, 3 at a time on 2 connections; timeouts |
| `abuse` | `BlockedIsRefused`, `ExhaustedIsRefused`, `OvershootBounded`, `RefusedForCause` | 4 logins, 2 at a time, 2 accounts, 1 address; 2 ticks |
| `abuseMixed` | `TypeOK`, `OvershootBounded`, `RefusedForCause` | 3 social logins, registrations or reset requests, 2 at a time; failing queries; 2 ticks |
| `accounts` | `TypeOK`, `VerifiedByMailbox`, `OrphansHaveCause`, `FactorStaysVerified`, `AnsweredLinkIsGood` | 4 requests of any of the six operations, 3 at a time; 2 addresses, 2 profiles of one provider, each with either address; failing queries and mails; 1 tick |
| `passwords` | `TypeOK`, `OldPasswordOverlaps`, `LinkUsedOnce`, `AnsweredChangeHolds`, `PasswordIsProven` | a local account, a social user, an unknown address; 4 requests of any operation, 2 at a time; failing queries and mails; 1 tick |
| `messages` | `TypeOK`, `ThreadConsistent`, `MarkLosesOnlyOverlaps`, `ReadTimeKept`, `NoMessageMissed`, `ImplementsThread` | 2 administrators, 4 requests of any operation, 3 at a time; lists of any status; pages of one message; failing queries |
| `roles` | `TypeOK`, `LostRoleFades` | 1 user, 2 roles, 3 logins or calls, 2 at a time; 2 changes of roles, 2 ticks |
| `capRace` | violates `SessionCap` | 2 concurrent logins, limit of 1 |

* `EndedTokensRefused`: a request that presents a token, access or refresh, of a
  session that had ended when it came in is never answered with success. A
  logout that runs between the checks and the insert of a rotation leaves a
  refresh token row on the ended session, and `completeMfa` signs a new pair for
  one, and is itself answered with success; the property says that no check of a
  presented token is fooled by either.
* `SessionKeepsToken`: every active session a client has tokens for has a
  refresh token stored. The deletions before "device mismatch" and "Session
  revoked" (`token.service.ts:139`, `:154`) are rolled back by the throw that
  follows. The code reads as if it meant to revoke the family there; the
  property depends on its not happening.
* `RotationReplaces`: when a refresh is answered, no token of the family that was
  stored when it came in is stored any more. Rotations that were rolled back or
  timed out leave rows behind, and overlapping ones may leave two; the next
  rotation removes them all, and what is left is its own row or that of a
  rotation it overlapped.
* `AnsweredRevocationHolds`: a successful logout (of one or all sessions),
  revocation, change or reset has ended all the sessions that were active when
  it came in.
* `OnlyOwnerEndsSession`: the only step that revokes a session is one of a
  request of its user, also when a JWT names a user and another user's session:
  a logout with such a JWT would end that session, but the guard refuses it.
* `BlacklistIsFinal`: a JWT blacklisted before a request came in is accepted
  only if it has expired since the check of the signature.
* `ImplementsLifecycle`: the subsystem implements `SessionLifecycle` under the
  mapping at the end of `AuthSessions`: active rows are active sessions; a row
  revoked, expired or deleted is an ended one.
* `CapOnlyRaced`: `SessionCap`, the limit on active sessions, does not hold
  (`capRace`, see findings). This property says why: as long as no two logins of
  a user have been between count and insert at once, the user is within the
  limit, whatever revocations, refreshes, failures and logins of others come in
  between, with eviction order and boundary. It is stated per user; the run has
  one.
* `LossOnlyRaced`: `FreshTokenUsable`, that the token of an answer is stored as
  long as its session is active, does not hold either: two rotations of one
  token both find it, the second waits for the first's deletions, and its
  snapshot may or may not hold the row the first has inserted, so that both are
  answered with either two rows in the family or a row deleted that was just
  handed out. No text of the repository promises otherwise, so this is recorded
  as a hazard and not as a finding. The property says that it takes such an
  overlap: as long as no two rotations of a family have been at work at once (a
  late insert counts as work), nothing else loses a fresh token, time-outs and
  what they leave included.
* `BlockedIsRefused`, `ExhaustedIsRefused`: who comes in blocked, or at a
  limit, does not get its password compared (or is not let in) before the block
  is over, or a successful login has cleared the counter, even when other
  requests block, clear and count between its queries and windows end under it.
* `OvershootBounded`: checks and counts are separate queries, so a limit L is
  passed when requests are concurrent; never beyond L - 1 plus the requests in
  flight. Serially (`MaxInFlight` 1) that is L. Excepted are identifiers under
  which a social login without verified e-mail is counted unchecked.
* `RefusedForCause`: nobody is refused who did not come in blocked or at a
  limit, unless another request was at work at the same time: blocks and
  counters end by themselves, whatever races and failures there were before.
  For a registration, counted twice, the limit is one less.
* `VerifiedByMailbox`: a local account is verified only when a link mailed to
  its own address has been presented. Logins trust this.
* `OrphansHaveCause`: an address is taken by a user without an account to log in
  with only if a registration has failed between user and link (the account
  can never be verified then, and the address not be registered again), or a
  profile has signed in with it whose account is another user's. Both do happen;
  no other failure, expiry or race of registrations, links and social logins
  does this.
* `FactorStaysVerified`: once verified, a second factor is asked for ever after.
  The other side of this is not a property: `setupMfaTotp` keeps `verifiedAt`
  when it replaces the secret, so a secret that was never confirmed counts.
* `AnsweredLinkIsGood`: when a registration or resend is answered and nothing
  else is in flight, the account is verified or the stored link is in the
  mailbox, with its full time to live, unless some request has failed. After a
  failure it is false: a registration that stops after the user is inserted
  leaves no link row, resending then updates nothing and mails a link that is
  not stored, and the address can not be registered again. No text promises a
  repair, so this is listed as a hazard.
* `OldPasswordOverlaps`: a session opened with a password that is not the
  account's any more belongs to a login that overlapped a change. Such a
  session does exist: `login` opens it after the comparison, without looking
  again, and the sweep may have been in between.
* `LinkUsedOnce`: a reset link is used by one request, or by several that
  overlapped. `confirmPasswordReset` looks the link up before it computes the
  hash and does not look at `usedAt` in the transaction, so overlapping ones
  all succeed.
* `AnsweredChangeHolds`: a change or reset that was answered has ended every
  session the user had when it came in, has spent its link, and its password is
  the account's, or that of another change that overlapped it.
* `PasswordIsProven`: a password is changed by the holder of a mailed link, or
  by who gave a password that was current at some time of the request.
* `ThreadConsistent`, `ImplementsThread`: a message is answered, has a last
  replier and a reply together or not at all, wherever the transaction fails.
* `MarkLosesOnlyOverlaps`: `markAsRead` looks at the status and writes READ in a
  later query, so a status given in between is lost, also REPLIED: the abstract
  `Mark` has no guard on the status. What it replaces was NEW, or was given by a
  request at work together with the marking (`setBy`).
* `ReadTimeKept`: `updateStatus` writes back the `readAt` it found, perhaps long
  ago. A recorded time is replaced or lost only by a request that was at work
  together with the one that wrote it (`by`).
* `NoMessageMissed`: who reads the pages one after the other sees all that was
  there at the beginning. New messages push rows to later pages, never to
  earlier ones. A filtered list from which messages vanish does skip rows, and
  is excepted.
* `LostRoleFades`: a call of a route that asks for roles is served only with a
  token whose user held such a role while it was issued, and that had not
  expired when the call came in.
* `EveryRequestAnswered`: whenever requests are in flight, there comes a time
  when none is.

**Bounds.** `MaxInFlight`, `MaxTime` and the number of requests bound a
behaviour. Two requests race in each of the interactions above (rotation and
logout, rotation and rotation, eviction and sweep); a third is enough for one to
observe what two others left, and the fourth to have opened the session they
all work on. Time-to-live values are 1 or 2 so that each kind of row can
expire before, with and after the others; three ticks let a session and the
JWT issued in its last moment both expire. In `overlap` four requests are the
most at which two rotations of one family with a third before or after them, or a
login, a refresh and an eviction, can meet. `PoolSize` is large where the pool
is not the question and equal to the number of rotations in flight where it is.
For the limits, windows and blocks have the ratios of the defaults (a login's
block is two windows long, a registration's half a window) and last one or two
ticks, so that each boundary is met in mid-handler; limits of 1 to 3 are reached
by the attempts at hand, of which the fourth meets the block that one made when
another had failed and a third passed the checks.
For accounts, four requests are a registration or social login, a set-up, a
confirmation and a competitor, a profile that signs in with one address and
then another while the first is registered, or two resends that race with a verification
after a registration. The time to live of a link is 0, so that one tick makes
it expire between any two steps. For passwords, four requests are a reset
request, two resets or changes that race with its link, and a login before or
after. For messages, four are a creation, a reply and two competitors, or two
messages, a marking and a reader, of pages of one message. What these two
runs check is proved for any number of requests. For roles, a token that lives
one tick and two ticks let it expire before, during and after a call.
Symmetry is used in safety runs only, over requests and
devices, users, e-mails or addresses, which `Init` and `Next` treat alike. Requests of the runs
with only active `Operations` still meet every step of these operations'
handlers.

**Fairness.** `FairSpec` has weak fairness of each request's handler steps and
of its transaction timer: the event loop and PostgreSQL serve every call that
can be served, and Prisma's timer fires. Nothing is assumed of arrivals, of
faults other than the timer, or of the clock. Without the timer the property
fails: two rotations, each holding one of two connections, wait for a third.

## 5. What is proved

Proved for all values of the constants that satisfy `ConstantsAssumption` (any
users, devices, requests, limits and pool size):

| Theorem | Statement |
|---|---|
| `BasicInvariant` | `Spec => []BasicInv` |
| `TypeCorrect` | `Spec => []TypeOK` |
| `EndedStaysEnded` | `Spec => []EndedTokensRefused` |
| `BlacklistedStaysRefused` | `Spec => []BlacklistIsFinal` |
| `RevocationsHold` | `Spec => []AnsweredRevocationHolds` |
| `OwnersEndSessions` | `Spec => OnlyOwnerEndsSession` |
| `SessionsKeepTokens` | `Spec => []SessionKeepsToken` |
| `SubsystemImplementsLifecycle` | `Spec => ImplementsLifecycle` |
| `RotationsReplace` | `Spec => []RotationReplaces` |
| `SessionsAreCapped` | `Spec => CapOnlyRaced` |
| `FreshTokensAreUsable` | `Spec => LossOnlyRaced` |

and, for all that satisfy `AccountAssumption`, about `AccountIdentity`:

| Theorem | Statement |
|---|---|
| `AccountTypes` | `Spec => []TypeOK` |
| `VerifiedWasProven` | `Spec => []VerifiedByMailbox` |
| `OrphansAreExplained` | `Spec => []OrphansHaveCause` |
| `FactorsStayVerified` | `Spec => FactorStaysVerified` |
| `AnswersAreGood` | `Spec => []AnsweredLinkIsGood` |

for all that satisfy `AccessAssumption` and `CredentialsAssumption`:

| Theorem | Statement |
|---|---|
| `AccessTypes` | `Spec => []TypeOK` (of `AccessControl`) |
| `AccessFades` | `Spec => []LostRoleFades` |
| `CredentialsTypes` | `Spec => []TypeOK` (of `Credentials`) |
| `OldPasswordsEnd` | `Spec => []OldPasswordOverlaps` |
| `LinksAreSpent` | `Spec => []LinkUsedOnce` |
| `AnswersHold` | `Spec => []AnsweredChangeHolds` |
| `PasswordsAreProven` | `Spec => PasswordIsProven` |

and, for all that satisfy `MessagesAssumption`, about `Messages`:

| Theorem | Statement |
|---|---|
| `MessagesTypes` | `Spec => []TypeOK` |
| `MarksLoseOnlyOverlaps` | `Spec => MarkLosesOnlyOverlaps` |
| `ReadTimesKept` | `Spec => ReadTimeKept` |
| `ThreadsConsistent` | `Spec => []ThreadConsistent` |
| `MessagesImplementThread` | `Spec => ImplementsThread` |
| `NothingIsMissed` | `Spec => []NoMessageMissed` |

and, for all limits, windows and block times (`SettingsAssumption`), about
`SecurityAbuse`:

| Theorem | Statement |
|---|---|
| `AbuseTypes` | `Spec => []TypeOK` |
| `BlockedRefused` | `Spec => []BlockedIsRefused` |
| `ExhaustedRefused` | `Spec => []ExhaustedIsRefused` |
| `NoneRefusedInVain` | `Spec => []RefusedForCause` |
| `OvershootIsBounded` | `Spec => []OvershootBounded` |

`EndedTokensRefused` is not inductive. The strengthening has three parts,
each checked with TLC before it was proved.
`BasicInv` adds to the types what each step finds in the frame (`FrameOK`: a
request at `recheck` is a refresh with a session, one that is `done` has a
blank frame) and that the token presented exists. `ReferencesOK` says that
rows, JWTs and frames name only sessions whose login has passed its insert
(`Opened`), hence a session identifier that is dead can not be inserted again;
and that the row and the JWT of one pair agree on the session, so that a
refresh is judged by the session its token belongs to. `DeadInv` says a
request that came in dead presents a token of an inactive session and is not past
the check (`authSession` for access tokens, `recheck` for refreshes). The
argument: an opened inactive session never becomes active (`InactiveStays`),
and no step passes the check without the session being active then
(`CheckSteps`). The check inside the rotation is not needed for it; the one
after the rotation is.

`BlacklistIsFinal` needs `BlacklistInv`: a JWT that was blacklisted on arrival
is still blacklisted, unless cleanup has removed the row after it expired, and
a request past the blacklist check holds one that has expired.
`AnsweredRevocationHolds` needs `RevocationInv`: a session that a request
promised to end and that is still active lies *ahead* of it (`Ahead`): in the
list it works through, or a query that will find it is still to come. The query
of `FindAll` compares with a time `at` read earlier, so the invariant also
says that time is not in the future. An action that drops a session from the
list without ending it breaks the invariant at that step, long before the
answer.

`OnlyOwnerEndsSession` needs `OwnerInv`: the sessions a request is past choosing
(`Ending`) belong to its user. A logout takes its session from the JWT before
the guard has compared the two users, so the invariant says of a request before
the guard only which JWT its list came from, and the guard's step has to give
the rest: nothing else relates the user of a JWT to its session. The action property follows because whatever sets `revoked` is in
`Ending` (`RevokeSteps`).

`SessionKeepsToken` needs `TokenInv`. The naive strengthening, that an active
session has a row, breaks inside a rotation, which holds deletions it has not
committed; what is invariant is that there is a row which *no* rotation is about
to delete (`Safe`), for every JWT signed and not only for those received
(`KeptOK`). A rotation keeps it because its own new row is `Safe`: it is
inserted after every other transaction took its snapshot, and a snapshot holds
only tokens inserted before (`Minted` in `DeletesOK`). The row is one of the JWT's own family and not of its
session only, since `completeMfa` may have started several families on one
session. That the rows a rotation deletes are of its family and session follows
from families keeping their session (`FamiliesOK`); that `cleanup` takes no row of an active session from
`ExpiriesOK`, which is where refresh tokens must outlive sessions: `LongRefresh`,
the property's own hypothesis. Sessions last 30 days
(`sessions-devices.service.ts:9`); `JWT_REFRESH_TTL` is a setting without a
default, so the hypothesis is a demand on the deployment, and with a shorter one
a client that pauses for longer loses its session early.

`RotationReplaces` needs `ReplaceInv`: the tokens of the family that were stored
on arrival, and still are, are in the snapshot or the deletions of the rotation
(`Replacing`), and gone after its commit. A row once deleted does not come back,
since a request inserts once.

`CapOnlyRaced` and `LossOnlyRaced` are implications between what has been so at
all times, so their premises (`LoginsApart`, `RotationsApart`) are assumed of
the state before a step, and nothing is assumed of the number of requests.
`CapInv` counts the active sessions of a user without those an eviction has
chosen, and they are fewer than the limit from the count to the insert; the
sessions `FindOldest` looks at are compared with an earlier `at`, so it has one
part for each of the two times. Every other request only takes sessions away.
`ApartInv` is about one family: a rotation at work deletes all of it but its own
row (`ClearedOK`), a token committed and not yet handed out is the only one of
its family and nobody rotates that (`AloneOK`), since a refresh presents what
was handed out before (`HandedOK`), and the row is there (`FreshInv`), which
`KeptOK` gives again when cleanup or a revocation has taken others.

The refinement combines `BasicInv` with `ReferencesOK`, `DeadInv` and
`RevocationInv`. A step moves at most one request
(`OneMover`), and what it does to that request is one of four cases, written
in the abstract terms: nothing, `ComesIn`, `IsAccepted`, `IsClosed`.
`IsAccepted` is where `DeadInv` and `RevocationInv`, in the state after the
step, give the two guards of the abstract `Accept`; sessions go forward by
`OpenedSteps` and `InactiveStays`. What a request presents does not change
under it because JWTs are never rewritten (`JwtSteps`).

For accounts, the basic invariant (`BasicInv` of `AccountProofs`) says what each
step finds in its frame, which stays true because no row is ever deleted
(`Grows`). `OrphansHaveCause` needs `OrphanInv`, which follows both kinds of user
to where they came from: a local account without a link has its registration at
work, or that has failed (`UnlinkedOK`); a user without a local account has a
social one, or was signed in by a profile that has (`SocialUsersOK`). That a used
link is one of a verified account comes from `LinkInv`. `VerifiedByMailbox` needs `MailboxInv`: a token is
mailed once, by the request that stored it and to the user it was stored for,
and a request past the lookup of `verifyEmail` works for a user whose mailbox
is proven. Without the part on requests whose mail is still to come, a token
stored by one request could be mailed to the user of another.
`AnsweredLinkIsGood` needs `LinkInv`: as long as no request has failed, an account
without a link has a registration that is about to insert it (`StoredOK`), a
stored token is in its mailbox or its request is about to mail it
(`ReachedOK`), a used link is one of a verified account (`UsedOK`), and a request
that has stored a link, or found none to store, leaves one of full length
(`RenewedOK`), also when another has renewed it since.

For passwords, the invariant says of each request what its step has
established (`Fits`): who it works for, that its link exists, is addressed to
its user and was used at most by requests it has met, that the password it
checked is the account's or a change has come in since, and which sessions its
transaction is going to leave. All of these speak of `met`, so the core is
`MetOK`: of two requests of one user that are at work, each knows the other if
that one changes the password. `OldPasswordOverlaps` then follows at the
commit: a session the sweep did not take was opened after it, by a login that
was at work with the change. For roles, the invariant adds that every signed
token's user held the role since its request came in (`AccessProofs`).

For messages, every step is first sorted into one of five kinds by what it does
to the tables (`Comes`, `GoesOn`, `Inserts`, `Writes`, `Replies`; lemma
`StepKinds`), and the invariants are proved about the kinds. `MetOK` says that
two requests at work on one message know each other. `GivenOK` says that a
message found new is still new, or has its status from a request that was met;
it is kept because of `MetOK`, and gives `MarkLosesOnlyOverlaps` for the step. `ReadOK` says that
the time of reading a writer found is still there, or that the writer has met
the one who wrote another; with `MetOK` it is inductive, and `ReadTimeKept` is
its consequence for the step. `StampOK` says that a reply which is stamped and
not committed was met by every newer one that is: without it the last replier
could be the author of a reply that nothing relates to the newest. For the
refinement `Inserts` is `Create`, `Writes` is `Mark` and `Replies` is `Reply`;
the other kinds change nothing that `MessageThread` sees.

`NoMessageMissed` is about positions: `ListInv` says that a message which was
there at the beginning and was not seen yet has at least as many newer ones
before it as the pages read so far hold (`Behind`). A page keeps it, because what
is not on the page and was behind the earlier ones is behind this one too; a
new row only adds to the count, at whatever place it comes in; a row that leaves
the list counts as an exit, after which nothing is claimed (`Grows`). On the
last page nothing can be behind (`PagesReach`, the arithmetic of `totalPages`).

For the limits, `StepKinds` again sorts the steps (`Comes`, `Checks`, `Ends`,
`GoesOn`), and `TableStep` says what all of them do to the table: blocks stay,
counters grow or are cleared for every request at once. `BlockInv` says that a
block met on arrival is over or lies under an identifier the request has yet to
look at (`Heed`): all of them while the first round lasts, then those left in
the list. `SpentInv` says the same of full counters, which are found in the
first round already; that the window may end meanwhile does not matter because
the round keeps the time it began with. For `RefusedForCause` a request without
a cause must be shown to be alone and `Free`: the blocks of its identifiers are
over, and the counter of each in *every* window it may look at is below the
limit, by one more while its own increment is to come (`Allow`). That windows of
the future are empty follows from `TimesOK` and `BucketNext`; that it counts each
identifier only once, from the entries of its list being distinct.
`OvershootBounded` needs `OverInv`: a counter *plus the number of requests that
may still add to it without another look* (`Entitled`) is at most the limit less
one plus `MaxInFlight`. A check that passes makes a request entitled when the
counter is below the limit, and there are never more than `MaxInFlight` of
them; an increment moves one request from the second number to the first. What
is hard is who is entitled to what: to the windows that began after a
request looked, and for a login only to identifiers its list is past.

**Only model-checked:** liveness under fairness (`EveryRequestAnswered`), which the
prover does not cover. All other properties of the passing runs are proved.

## 6. Findings

* `MAX_ACTIVE_SESSIONS` (`services/sessions-devices.service.ts:8`) is exceeded
  by concurrent logins: both count before either inserts (run `capRace`).

## 7. Not modelled

Password rules: predicates on one string, without state or order, for which a
table of examples is enough. Reading them shows a disagreement: the message of
the validator (`dto/common/password-rules.ts:30`) allows 16 characters of any
kind, which `assertStrongPassword` (`services/credentials-passwords.service.ts:25`)
refuses in a reset or change unless all four kinds are there.

Newsletter: each operation is one statement on one row, nothing is read before
it is written. Who may call a route is part of `AccessControl`: the routes under
the comment "Public" (`../newsletter/newsletter.controller.ts:24`) are not marked
as such, so that the global guard refuses visitors. `getEffectivePermissions`
and `assertPermission` have no caller. Audit log (write-only), mail, social
providers (stateless calls), health, metrics, logging and bootstrap have no
behaviour of their own to check. The reasons are given per component in
`PROJECT.json`.
