# Formal models of Secure-Login

TLA+ specifications of the authentication server in `src/api` and of the clients in `src/sdk`
that talk to it, checked with TLC on small instances, and proofs that every safety property and
every refinement the runs check holds of instances of any size, checked with TLAPS.
Paths below are relative to `src/api/src/` unless they start with `src/`.

The server is an axum application over PostgreSQL or SQLite, with an optional Redis. What
makes it hard to get right is one fact that every model here shares:

> **No handler opens a transaction.** Each SQL statement commits on its own, the task yields
> at every `.await`, and a request can stop after any statement: a database error is returned
> with `?` (the pool has 10 connections and a 10 s acquire timeout, `db.rs:58`, `db.rs:68`),
> and axum drops the future of a client that hangs up. Several errors are swallowed with
> `let _ =`.

So an action of a model is one statement together with the local computation that follows
it, requests are slots with a program counter, and each module has an `Abort` action that
ends a request between any two of its statements. A value a handler has read and uses later
is kept in the request's record.

The commit does not build as it stands (`block_ip` in `routes/admin.rs:141` has no body, a
stray brace at `routes/login.rs:111`, `save_recovery_hashes` awaits in a function that is not
`async`, `touch_login` is in another module than its caller names, `main.rs:52` passes a `state`
that is made on line 77, `services/passkeys.rs:184` takes apart as a pair a result that is not one). The models follow the
text of the handlers, as it would run with those slips repaired; for blocks of addresses they
follow `services/adminsvc.rs`.

## Inventory

| Component | State | Operations | Interacts with | Hard behaviour | What makes it correct |
|---|---|---|---|---|---|
| Sessions and refresh rotation (`services/sessions.rs`, `routes/login.rs`) | `sessions`, `tokens` rows of kind `refresh_rotated` | login, refresh, revocation of one or all, reuse alarm | access tokens, credentials, deletion | check-then-update in four statements; stops in between | a refresh token is exchanged once; nothing for a dead session; alarms are justified |
| Access tokens and logout (`services/auth_flow.rs`, `services/tokens_svc.rs`, `crypto/jwt.rs`) | the signed JWTs, `revoked_jti` | sign, `require_auth`, logout, logout-all | every authenticated handler | two clocks (token and blacklist row), ignored errors, `sessions.revoked` is never read | a listed token is refused while its row lasts, an orphaned one always; a revocation takes hold in bounded time |
| Credentials (`routes/account.rs`, `services/users.rs`) | `users.password_hash`, `tokens` rows of kind `pw_reset`, sessions | login, forgotten and assisted reset, reset, change, deletion | sessions | a login in flight during a reset; a loop with a `LIMIT` and ignored errors | sessions do not outlive the password or the account, except for known reasons |
| Addresses (`routes/auth.rs`, `routes/account.rs`) | `users.email`, `email_verified`, `deleted_at`, `tokens` rows of kind `email_verify` | register, resend, verify, change, delete | mailer | a link used after the address changed; a change racing a deletion | verified means that a link mailed to that address was used |
| Lockout (`services/auth_flow.rs:130-215`) | `login_attempts`, a clock | count, last failure, record | login, captcha | count and record are separate; window against cooldown | the failures recorded in a window are bounded; nobody is locked out without recent failures |
| Network guard (`middleware.rs`, `services/store.rs`, `services/ipintel.rs`) | `blocked_ips`, the counter of each address in memory or Redis | address check, hit, block and unblock, restart | every request | two limiters behind one interface, fail-open | what a window lets through is bounded, failures of Redis counted apart; a refusal only when the limit was reached |
| Second factor (`services/mfa.rs`) | one `mfa` row per user | setup, confirm, challenge | login | setup racing confirm; the list of codes is rewritten whole | the secret in force was proved; a spent code stays spent |
| Login in two steps (`routes/login.rs`, `services/auth_flow.rs`) | the signed pending tokens, `users.password_hash` | password, pending token, challenge, session | second factor, credentials, deletion | a stateless token that outlives what it says; reads of the factor and of the user before the session | a session rests on a password, a factor and an account that held when they were last asked for |
| Passkeys and challenges (`services/passkeys.rs`, kv part of `services/store.rs`) | `passkeys`, challenges with a TTL in memory or Redis | options and finish, of registration and login | login, deletion, restart | one registration challenge per user; last counter wins; a store that loses calls or is another one after a restart | a challenge yields one result, its own user's |
| Bootstrap (`services/bootstrap.rs`) | `users` | create the owner at start-up | addresses | two instances at once, a crash, a failed COUNT that reads as zero | one owner |
| SQL dialects (`db.rs`) | the same tables in two databases | rewrite placeholders, bind, execute | all | PostgreSQL takes arguments by number, SQLite by position | both databases hold the same rows |
| Client SDKs (`src/sdk`) | one pair of tokens per client | login, refresh, logout | refresh rotation | lost and late answers, a 15 s timeout, two calls at once | the client keeps the token the server expects; every call ends |
| Audit log, mailer, captcha, geolocation, statistics, configuration, CSRF, headers, dashboard | - | - | - | their results decide nothing in the modelled handlers, or they are pure I/O | not modelled |

`PROJECT.json` lists them all with the reasons, and under `hazards` what is hard to test in
this code, line by line.

## Modules

| Module | Models | State and actions |
|---|---|---|
| `RefreshRotation` | `rotate_refresh` and `token_refresh`, with the other writers of the same rows | `sessions`, `traces`, `deleted` are the tables. `Find`, `CheckTrace`, `Update`, `InsertTrace`, `Respond` are the statements of a refresh in order, `RevokeReused` the alarm branch. `Login`, `RevokeSession`, `RevokeAll`, `SoftDelete` are the single statements of other handlers |
| `OneTimeTokens` | what rotation promises, without a database | `Mint`, `Exchange` |
| `AccessTokens` | `require_auth`, signing, logout, logout-all, the blacklist | `status` abstracts a session row to absent, live, expired or revoked. `Admit` and `Grant` are a login or a refresh that obtains a token, `Arrive`, `CheckJti`, `CheckUser` are `require_auth`, `Logout`, `LogoutAll`, `Blacklist` the handlers behind it |
| `AccessTokensProofs` | the proofs about it | |
| `Credentials` | login, forgot, reset, change, delete of one account | one action per statement; `List`, `RevokeNext`, `EndLoop` are the loop of `change_password` |
| `CredentialsProofs` | the proofs about it | |
| `Emails` | register, resend, verify, change of address, deletion, and `bootstrap_owner` in every starting instance | `users` and `tokens` are the tables; `CountUsers`, `CreateOwner`, `VerifyOwner` are the statements of the bootstrap |
| `Lockout` | `POST /auth/login` up to the recording of a failure | `CountEmail`, `LastEmail`, `CountIp`, `LastIp`, `Verify`, `Record`; `failures` is the set of failed rows of `login_attempts`, the rows of one tick told apart by a number for their id |
| `LockoutProofs` | the proofs about it | |
| `NetworkGuard` | `network_guard`, `ip_mode`, `rl_hit` for one address | `count` and `mark` are the limiter, `hits` and `allowed` (*history*) the requests it counted and all those let through, by the count or because Redis did not answer, `losses` (*history*) when a restart lost the counters in memory; `CheckAddress`, `Hit` over `HitMemory` or `HitRedis`, `FailOpen`, `SetMode`, `Restart` |
| `Mfa` | `setup`, `confirm`, `verify_challenge` of one account | `Confirm`, `SaveBatch`, `Enable`, `Show` and `Challenge`, `SaveRest` are the statements, `Show` the answer of a confirmation after the audit log has been awaited; `cut` (*history*) has the codes of a confirmation that stopped before it |
| `Login` | extends `Mfa` with `login` and `mfa_verify`, from the password to the session | `pending` are the signed tokens, `login` the requests; `MatchPassword`, `Defer` or `Skip`, `PresentTotp` or `PresentCode` and `SpendCode`, `RequireUser`, `OpenSession` in the order of the code. `ReplacePassword`, `Delete`, `SetupAgain` are other handlers |
| `LoginProofs` | the proofs about `Mfa`, those about `Login`, and that `Login` implements `Mfa` | |
| `Passkeys` | the four WebAuthn handlers over `kv_put` and `kv_take` | `kv` has one map per backend; `PutRegistration`, `TakeRegistration`, `InsertPasskey` and `PutAuthentication`, `PostLogin`, `FindPasskey`, `UpdateCounter`, `RequireUser`, `OpenSession`. `Attest`, `Sign`, `Attests`, `Asserts` stand for authenticators and webauthn-rs, which are external |
| `PasskeysProofs`, `EmailsProofs` | the proofs about them | |
| `OneTimeChallenges` | what a WebAuthn ceremony promises, without a store | `Issue`, `Complete` |
| `Clients` | extends `RefreshRotation` with the SDK clients that call it | `held` is the stored refresh token, `call` what is on the wire; `Begin`, `Arrive`, `Statement`, `Receive`, `Lose`, `Vanish`, `ClientLogin`, `Logout`, and the other devices of the user |
| `ClientsProofs` | the proofs about `RefreshRotation` and `OneTimeTokens`, those about `Clients`, and that `Clients` implements `RefreshRotation` | |
| `Dialects` | `sqlite_sql` and the `q_` macros over the statements that write five tables | `rows` has the tables of both databases; `Execute` runs one statement on both |
| `BackendProofs` | the proofs about `NetworkGuard`; when the two databases of `Dialects` agree, and that no UPDATE by key does | |
| `MC...` | instances for TLC | symmetry sets, and the owner of each session |

The modules meet at the `sessions` table. `RefreshRotation` has its rows in full and shows that
a request is given tokens only if the session was live when the request arrived
(`LateIsRefused`); `AccessTokens` starts from that fact (`Admit`). `Credentials` looks at which
sessions are revoked and when, and leaves hashes and expiry aside; its `Abort` and the
ignored errors cover an UPDATE that passes over an expired row. `Clients` runs the handlers of
`RefreshRotation` unchanged, statement by statement, and proves that it adds nothing to them
(`ClientsImplementServer`), so what is proved of the rotation holds behind the clients. `Login` runs those of `Mfa`, and proves that it adds
nothing to them (`LoginImplementsMfa`), so what is proved of `Mfa` holds inside a login. The sessions that
`Login` and `Passkeys` open are the `Login` of `RefreshRotation`.

Abstractions common to all: a token stands for its HMAC; random values are fresh (`Fresh`,
`drawn`); a password stands for its hash and salt; time is a counter of ticks and every
duration is a constant in ticks. Variables and record fields marked *history* in the modules
are read by properties only, never by a guard. Definitions introduced by "A bug:" are not
used by any specification: each is a faulty variant of the definition that follows it, and
`PROJECT.json` says which property rejects it. They are how we know that a property says
something about the code.

## Runs

All runs use `CHECK_DEADLOCK FALSE`: the clocks and the pools of fresh tokens are bounded, so an
instance does stop.

| Run | Shows | States |
|---|---|---|
| `rotation` | `SingleUse`, `CurrentHashIsLive`, `LateIsRefused`, `AlarmIsJustifiedAndFinal` and the refinement of `OneTimeTokens` | 435k |
| `replay` | fails on `ReplayRevokesAll` (finding 1) | |
| `clients` | `InStepUnlessCut`, `AlarmNeedsCrossing`, `SerialCrossesOnlyWhenCut`, and under fairness `RefreshReturns` | 549k |
| `access` | `ListedIsRefusedForItsTtl`, `DeletedIsRefused`, `RevocationFades` | 1.9M |
| `credentials` | `SupersededIsExcused`, `DeletedIsExcused`, `ResetTokenOnceUnlessOverlapped` | 664k |
| `emails` | `VerifiedWasMailed`, `DeletedIsAnonymousUnlessOverlapped`, `OneOwnerUnlessMisled` | 2.2M |
| `verified` | fails on `VerifiedIsCurrent` (finding 2) | |
| `lockout` | `RecordedFailuresAreBounded`, `LockNeedsRecentFailure` | 180k |
| `guard` | `BurstIsBounded`, `RefusedOnlyOverLimit` | 1.2M |
| `login` | `EnabledIsConfirmed`, `ShownCodesWork`, `SpentIsGone`, `SecondFactorHeld`, `GroundsHeld` | 682k |
| `passkeys` | `ReplacedRegistersNothing`, `LateIsRefused`, `CounterFallsOnlyWhenOvertaken` and the refinement of `OneTimeChallenges` | 1.0M |
| `dialects` | fails on `SameRows` (finding 3) | |

### Bounds

- *Two requests* in every passing run. The races of this code are between two requests (a
  reader of a row and a writer of it); other handlers that matter are single statements and
  are not counted among the two. The proofs remove
  this and all other bounds from every safety property; `RefreshReturns`, which is about
  liveness, stays with TLC.
- `rotation`: two sessions and four tokens let a session rotate while another exists and let
  both requests mint; `RefreshTtl` 1 and `MaxTime` 2 reach live, last moment and expired. One user:
  users are independent except through `revoke_all_for_user`, whose effect on several sessions
  needs one user.
- `clients`: two clients, one that waits for its calls and one that does not, two calls and two
  activations of the handler over one session at a time (the clients of a session are what matters; other
  sessions are in `rotation`). Three tokens let a session rotate twice. `RefreshTtl` 0 lets a
  session expire between two statements. No symmetry, because of the liveness property.
- `access`: `AccessTtl`, `Leeway` and `BlacklistTtl` are 1, in the order the code has them (900, 30 and 900 s):
  a row lapses before the leeway of its token is over. Three more ticks let a token and its row lapse in turn, and the
  state in which a listed token is admitted again is reached (see "Also seen").
- `credentials`: three sessions with `ListLimit` 2 reach the case past the `LIMIT`.
- `lockout`: the window is two ticks and the limit two failures, so failures can age out and a lock
  can be met, waited for, and met again. `Base >= Window` is the shipped proportion
  (`lockout_base_secs` 900 against 15 minutes), and a hypothesis of `RecordedFailuresAreBounded`.
- `guard`: `Limit` 2 and `Window` 2 over four ticks contain the border of two windows, and a restart on either
  side of it. `MaxHits` bounds the requests of one tick above the limit. A memory restart loses the counters once a tick
  at most: a tick is shorter than a start-up, which the theorem leaves to the choice of `Window`.
- `emails`: `OWNER_EMAIL` is one of the two addresses, so the bootstrap competes with registrations
  and changes of address for it; a request slot is also a starting instance.
- `login`: two secrets and four codes in batches of two: a setup over a confirmed factor, two
  confirmations of one setup and two logins with one pending token or with two codes all happen.
  One pending token is signed (`MaxPending`) and can be presented by any number of requests, before and
  after the password is replaced; `PendingTtl` 0 and `Leeway` 0 leave it good for the tick it was
  signed in and not for the next. A password that was replaced is not chosen again (`PasswordsAreNew`, a
  constraint of this run), and TLC does not go on from a second kind of overlap in `raced` (`FewOverlaps`): each kind
  is reached and followed alone, and what comes after two of them is left to the proofs, which have none of these bounds.
- `passkeys`: two users, two challenges of each kind, one credential and two uses of its
  authenticator: replaced challenges, a second answer, the credential of another user and two
  overlapping logins need no more. `Ttl` 1 and `MaxTime` 1 reach live and lapsed challenges.
- `dialects`: two values, and the statements of the code; the counterexample has two calls.

### What the properties leave out on purpose

Several properties name what the code does not exclude instead of pretending that it does:

- `SupersededIsExcused` and `DeletedIsExcused`: a session that outlives its password or account was opened by a login in
  flight, is the one `change_password` keeps, is past the `LIMIT`, or belongs to a request that failed or stopped. After a
  deletion little more is left than that the completed handler revoked the sessions that were open.
- `ResetTokenOnceUnlessOverlapped`: the second request had read the token before the first marked it. What is left is that
  a marked token is refused.
- `VerifiedWasMailed`: accounts that never changed their address. What is left is that only a link mailed to it verifies
  it; `VerifiedIsCurrent` (finding 2) is about the others.
- `DeletedIsAnonymousUnlessOverlapped`: a change of address in flight at the deletion. What is left is the check that
  `change_email` makes for itself.
- `OneOwnerUnlessMisled`: a bootstrap that counted wrong, or whose address was given up after the count.
- `EnabledIsConfirmed`, `ShownCodesWork`, `SpentIsGone`: the overlaps in `raced`. What is left is that a setup starts over
  and a confirmation checks its own secret, and that a login on its own spends its code. `ShownCodesWork` also
  names the confirmation that enabled the factor and has not answered, or never did because the client hung up while
  the audit log was awaited (`services/mfa.rs:249`): the codes that work are then its own, and nobody has them.
- `CounterFallsOnlyWhenOvertaken`: a login that another one has overtaken. What is left is that a login on its own does not
  put the counter back.
- `InStepUnlessCut`, `SerialCrossesOnlyWhenCut`: calls that crossed, or whose answer was lost. The second is close to the
  guard of `refreshToken()`; it adds that no other client has a token of the session.
- `LateIsRefused` of the rotation: a session that is revoked or expires after the request arrived. That one is prolonged by
  the UPDATE, which checks neither.
- `RecordedFailuresAreBounded`: tries that leave no row, because their INSERT fails (`services/auth_flow.rs:137`) or the
  client hangs up first (`routes/login.rs:49`). It bounds rows and not the passwords tried.
- `BurstIsBounded`: requests let through because Redis did not answer are counted and added to the limit
  (`services/store.rs:88`), and each restart that lost the counters in memory adds one limit.

The hazards whose outcome is one of these exceptions have no property in `PROJECT.json`, and a note. The runs show that
there is no other way; each mutant shows that losing one statement of the handler is another way. The type
invariants only keep the modules honest about what their tables and requests hold.

## Findings

1. **Reuse is not detected** (`replay`). `rotate_refresh` finds the session by the presented hash, which
   the previous rotation has overwritten, and answers `Invalid` before it looks for the trace
   (`services/sessions.rs:84`). The alarm can only be raised when two refreshes overlap, which is
   when it is least likely to mean theft. `src/docs/SECURITY.md:45` and `src/docs/API.md:53` promise
   the revocation of all sessions.
2. **An old link verifies a new address** (`verified`), sequentially: `change_email` leaves the links of the
   former address in force and `mark_email_verified` is keyed by user.
3. **On SQLite an UPDATE by key misses its row** (`dialects`). The statements write `SET ... = $2, ... WHERE id = $1`;
   `sqlite_sql` (`db.rs:33`) turns both into `?`, and the macros bind the key first. The row is not found, nothing
   is reported, and a rotation, a new password, a deletion or a used token leaves no trace in the database.
   `UpdateByKeyMisplaced` proves it of every statement of that form. `list_admin_sessions`
   (`services/sessions.rs:214`) has the same fault in a SELECT (`$3` stands before `$1`).

Also seen while modelling, without a failing run of its own:

- *Rotation.* Overlapping rotations hand one client a token that the other has overwritten and answer 500 to the
  other (`clients`, `InStepUnlessCut` excuses them as crossed). The alarm can only be raised by the client
  itself (`AlarmNeedsCrossing`).
- *Logout.* The blacklist row lasts 900 s (`routes/login.rs:246`, a literal), the token up to 930 s because of the leeway
  (`crypto/jwt.rs:60`), more if `ACCESS_TOKEN_TTL_SECS` is raised (`config.rs:63`): a token signed just before its logout is
  accepted again at its end, against `src/docs/SECURITY.md:42` ("Logout / logout-all ⇒ blacklist du `jti`"). The run `access`
  has lifetimes in this order and reaches that state; `ListedIsRefusedForItsTtl` says how long a listed token is refused,
  which is all that the row gives, and the theorem says it for every choice of lifetimes.
- *Reset.* Two requests that both read a reset token before either marks it (`services/tokens_svc.rs:67`) each store
  their password, against the comment "usage unique" at line 44.
- *Rate limit.* With Redis every hit restarts the expiry (`services/store.rs:82`), so the window is not fixed as
  `src/README.md:234` says, and a client that never exceeds the limit in any window is refused once its hits
  add up; `RefusedOnlyOverLimit` states what does hold. A whitelisted address is limited like any other
  (`middleware.rs:78`).
- *Lockout.* A wrong password whose row is not written is not counted, so the number of passwords tried has no bound in
  this module. The exponential cooldown of `src/docs/SECURITY.md:11` never exceeds the 15-minute window that counts the
  failures (`LockNeedsRecentFailure` is that fact). A failed challenge of the second factor is audited and not
  recorded as an attempt (`routes/login.rs:168`), so it never leads to a lock.
- *Second factor.* The pending token survives a reset of the password and can be presented any number of times in its
  five minutes (`GroundsHeld` gives it just that time), and a TOTP code is not marked as used. A client that hangs up
  before the answer of its confirmation has a factor in force and no recovery codes, and a second confirmation is
  refused (`services/mfa.rs:223`).
- *Passkeys.* The column `counter` is written at every login and read by nothing; the counter that webauthn-rs compares
  with is in `public_key_enc`, which is never updated, so it remains the one of the registration and a cloned
  authenticator is not noticed. Abandoned challenges stay in the memory store for good.
- *Bootstrap.* After an error of the INSERT other than a conflict it goes on and prints the password of an
  owner that does not exist (`services/bootstrap.rs:51`).

## Proofs

Every safety property and refinement of a passing run is the consequence of a theorem below. The proof modules
use nothing but the assumptions on the constants, which TLC evaluates on each run.

`ClientsProofs` proves of `RefreshRotation`, for any sets of users, sessions, tokens and requests, any
`RefreshTtl` and `MaxTime`, and from `ConstantsAssumption` alone (the constants are naturals, and `None` is
none of the values it stands beside):

| Theorem | Statement |
|---|---|
| `Invariance` | `Spec => []IInv` |
| `TypeCorrect` | `Spec => []TypeOK` |
| `TokensSingleUse` | `Spec => []SingleUse` |
| `HashesLive` | `Spec => []CurrentHashIsLive` |
| `LateRefused` | `Spec => []LateIsRefused` |
| `AlarmsJustified` | `Spec => []AlarmIsJustifiedAndFinal` |
| `Refinement` | `Spec => Contract!Spec` |

None of the properties is inductive. `SingleUse`, for instance, needs that a trace exists exactly
for each exchanged token; that the hash of a row was minted for that row; and that a request
between its UPDATE and its INSERT holds a new token of the same session that no other request
holds and no exchange mentions. `IInv` is the conjunction of those facts by name (see the module):
types, what is known of each token (its family, whether it is a current hash), what a request in
each state knows, and what the history says. The proof has one lemma per action about its
effect on each part, and one step per action under `[Next]_vars`. The unique index on the trace
is used once, in `InsertTrace`, and is what makes the theorem true: the mutant that ignores it
is rejected by TLC.

The same module proves of `Clients`, for any clients, serial ones among them or not:

| Theorem | Statement |
|---|---|
| `ClientsImplementServer` | `ClientsSpec => Spec` (of `RefreshRotation`) |
| `ClientsInvariance` | `ClientsSpec => []ClientsIInv` |
| `ClientsTypeCorrect` | `ClientsSpec => []ClientsTypeOK` |
| `InStep` | `ClientsSpec => []InStepUnlessCut` |
| `AlarmIsCrossing` | `ClientsSpec => []AlarmNeedsCrossing` |
| `SerialCrossings` | `ClientsSpec => []SerialCrossesOnlyWhenCut` |

`ClientsIInv` follows the one token of a session that neither crossed nor lost an answer: no two clients have tokens
of one session (`OwnedOnce`), such a session has one call under way at most (`AloneUnlessCrossed`), made
with the token its client still holds (`HeldFollowsCall`), and the row has that token's hash until the UPDATE of this
call and the new token's from then on (`RowFollowsRequest` while the handler runs, `RowFollowsCall` before it starts and
after it answered). So the client that stores the answer is in step again. The alarm needs the trace of a token
that the SELECT has just found as the hash of a row, which takes another call in between. It takes the whole
invariant of the rotation (`IInv`), which is why `Clients` extends that module.

`AccessTokensProofs` proves, for any users, sessions, tokens and requests and any lifetimes,
from that module's `ConstantsAssumption`:

| Theorem | Statement |
|---|---|
| `Invariance` | `Spec => []IInv` |
| `TypeCorrect` | `Spec => []TypeOK` |
| `ListedRefused` | `Spec => []ListedIsRefusedForItsTtl` |
| `DeletedRefused` | `Spec => []DeletedIsRefused` |
| `RevocationTakesHold` | `Spec => []RevocationFades` |

The argument is about dates. A row of `revoked_jti` is written after its token was signed, so it lasts at
least until `iat + BlacklistTtl` (`RowsDated`), and a request compares it with the time of its own arrival: so a listed
token gets past the check (`Passed`) only if it arrived no earlier than that. For `RevocationFades`, `QuietIsFinal` says that a revoked session
for which nothing is granting stays so (no statement sets `revoked` back to false, and a request is
admitted to a grant only on a live row), and that its tokens are no younger than that moment.

`CredentialsProofs` proves, for any passwords, sessions, reset tokens and requests and any limit
of the session list:

| Theorem | Statement |
|---|---|
| `Invariance` | `Spec => []IInv` |
| `TypeCorrect` | `Spec => []TypeOK` |
| `SupersededExcused` | `Spec => []SupersededIsExcused` |
| `DeletedExcused` | `Spec => []DeletedIsExcused` |
| `ResetOnce` | `Spec => []ResetTokenOnceUnlessOverlapped` |

Here the two properties, the types and `RequestsHold` (a request that is to store a password has
one) are inductive together. Both properties say of a session that it is *accounted for*: excused,
or still to be revoked by a request. A request that stores a password or deletes the account
accounts from then on for all live sessions (`TakesOver`); every other statement hands on what
its request accounted for, by revoking it or by excusing it, and leaves the accounts of the other
requests alone (`OthersKeep`, `KeepsBoth`).

`ResetOnce` rests on what a reset token still allows (`OneRight` in the module): a token that is unused has stored
no password and a request about to store one holds a token it found unused.

`LoginProofs` proves of `Mfa` `TypeCorrect`, `SecretConfirmed`, `CodesShown` and `CodesGone`, the four properties of
`Mfa`, for any secrets, codes, requests and size of a batch. Its invariant has what a request that
runs has found (`RowFound`), that codes are drawn before they are anywhere (`DrawnFirst`, `BatchIsFresh`), and
under the condition that nothing overlapped: the secret of the row was checked (`SecretIsChecked`),
there is one writer of the codes and what it read is what is there (`OneWriter`), and the row has the
codes that are shown, about to be shown, or cut off before they were (`CodesAreShown`).

It proves of `Login`:

| Theorem | Statement |
|---|---|
| `LoginImplementsMfa` | `LoginSpec => Spec` (of `Mfa`): every step of a login is one of `Mfa` or a stutter |
| `LoginInvariance` | `LoginSpec => []LoginIInv` |
| `LoginTypeCorrect` | `LoginSpec => []LoginTypeOK` |
| `FactorHeld` | `LoginSpec => []SecondFactorHeld` |
| `GroundsHold` | `LoginSpec => []GroundsHeld` |

`GroundsHeld` is about dates again: what a login has asked for is no later than now, a pending token expires
`PendingTtl` after the password it names was matched or, if it is late, after that password was replaced under the
login that signed it, and a date once written stays.

`LockoutProofs` proves `TypeCorrect`, `FailuresBounded` (`Spec => []RecordedFailuresAreBounded`) and `LocksRecent`
(`Spec => []LockNeedsRecentFailure`), for any emails, addresses, finite set of requests, limit, window, base and cap.
Both are counts over rows, so `failures` and the histories of `NetworkGuard` are sets, whose cardinality the library's
theorems add up, and not functions to be summed, which would need an induction. `RecordedFailuresAreBounded` is inductive with the
facts that nobody counts from the future (`NoneAhead`) and that the rows of a tick are numbered (`RowsNumbered`). A request enters
`InFlight` in two ways, and after both no more than `MaxFailed - 1` rows are recent, so that all of `Req` may be in flight. Either it
has just counted fewer than `MaxFailed`: the count is one statement and covers every recent row. Or the lock of its identity ran
out: then its last failure is at least `Base >= Window` old, and no row is recent. A row that is recorded takes its request out of flight. `LocksRecent` needs that an
identity that is held against its last failure was over the limit when it was counted (`HeldWereOverLimit`).

`BackendProofs` proves of `NetworkGuard`, for any limit, window and requests and either store: `TypeCorrect`, `BurstBounded`
(`Spec => []BurstIsBounded`) and `RefusedOverLimit` (`Spec => RefusedOnlyOverLimit`). Its invariant says what the counter has to do with
the requests it counted. In memory (`MemoryCounts`) the counter is no more than what arrived in the present window; and for every
moment no more than a `Window` ago, what was let through since then is at most what the present window let through, one
limit for the window before it, and one for each loss of the counters since (nothing but the first term if the present
window began earlier). Taking the moment a `Window` ago gives the bound. In Redis (`RedisCounts`) the key expires a
`Window` after the last arrival, and while it lives its counter is no less than what was let through by count in the last
`Window` and no more than the streak; what a failure of Redis let through is in another part of `allowed` (`FailedOpen`) and is added.

Of `Dialects` it proves `InOrderSameRows`, that the two databases hold the same rows after any calls when
every statement has its placeholders in order, and `UpdateByKeyMisplaced`, that an UPDATE by key never has: together they
say which statements of the code are safe on SQLite (the INSERTs) and which are not.

`EmailsProofs` proves `TypeCorrect`, `VerifiedMailed`, `DeletedAnonymous` and `OneOwner`, the four properties of the
run `emails`. Its invariant follows an address: a link goes to the address its user has, if that
never changed (`LinksHold`, `MailsHold`), and a late change of the address of a deleted account was in flight at the deletion
(`LateChangeIsNoted`). One owner is inductive together with where the owner stands: while an instance that counted
nobody is still to insert, whoever is the owner has `OWNER_EMAIL` (`SoleOwner`), so the UNIQUE index stops that instance.

`PasskeysProofs` proves `Refinement` (`Spec => ImplementsContract`), `LateRefused` and `TypeCorrect`. The argument is
that a challenge is in one place only (`OnePlace`): under a key of one store, with one request that answered
it, or behind one result. `kv_take` moves it from the first to the second and the last statement from the second
to the third; a lost GETDEL, a restart or another store only lets it disappear. What the places hold names the user the
challenge was made out to (`StoreHolds`, `RequestsHold`, `ResultsHold`).

It proves `ReplacedNothing` (`Spec => []ReplacedRegistersNothing`) and `CounterFalls` (`Spec => CounterFallsOnlyWhenOvertaken`) from
a second invariant on top of that one, `CounterInv`. A replaced challenge is in none of the three places (`ReplacedIsGone`), and no
statement brings a challenge back (`Onward`), while a stored passkey has a result behind the challenge of its credential
(`PasskeysBought`): so that challenge was not replaced. For the counters, what was signed is never behind the column unless its challenge was
overtaken or has written already (`CountersSigned`); a login that still has to write has not (`WrittenIsSpent`), so if it puts the
column back, another one overtook it. That authenticators count upwards is the action `Sign`, which is external.

Only model-checked: `RefreshReturns`, because liveness under fairness is out of this prover's reach, as is ENABLED; and the three
properties that fail (`ReplayRevokesAll`, `VerifiedIsCurrent`, `SameRows`), whose counterexamples TLC finds.

## Liveness

One property is about progress: `RefreshReturns`, every call of `refreshToken()` ends. It matters because the JavaScript
and Rust clients set no timeout, so nothing but the server ends their wait. It is checked in `Clients` under this
fairness, and no other:

- weak fairness of the next statement of each refresh the server is serving: tokio polls every ready
  task, and a statement returns or fails (the pool gives up after 10 s, `db.rs:58`); a failing statement is
  `Abort`, which needs no fairness of its own;
- weak fairness of the arrival of a request, or its loss once the client has given up: TCP delivers or reports
  a failure. This assumes that a connection that died silently is noticed, which is up to the system and its
  keep-alive: the clients without a timeout do nothing for it themselves;
- weak fairness of the reception of an answer the server has made.

Nothing the user decides is fair: nobody has to call, log in or out, or give up, and time need not pass. The property could fail
where a request meets other refreshes of its session, revocations, an expiry or a deletion between any two of its
statements and is left in a state no statement continues.

The other specifications state no fairness. Nothing in the server retries or is scheduled: a request that stops stays
stopped and the client decides whether to call again. The promise of the server that does depend on progress, that a
revocation takes hold, is stated as a bound on time instead (`RevocationFades`), which is stronger.

## Not modelled

- *Captcha, geolocation, unusual logins, audit log, mailer*: calls whose outcome ends a request or changes nothing that
  another handler reads. The first is a way for a login to end in `Lockout`; a mail is delivered when its token is stored.
- *Statistics, settings, aggregates* (`services/stats.rs`, most of `services/adminsvc.rs`): read-only queries and clamped
  settings. The administrator's writes (deletion, reset link, revocation, blocks) are in the modules of the rows they write.
- *Cryptographic primitives, TOTP arithmetic, WebAuthn verification*: libraries without state of this program.
- *Configuration, routing, CSRF pair, headers, scopes*: stateless conversions. A request that they refuse is one that
  does not happen in the models.
- *Dashboard*: it keeps no state the server depends on.
- *SELECTs, column types and migrations of SQLite*: `Dialects` is about arguments and placeholders; the other modules follow
  PostgreSQL, because on SQLite the rows they are about are not updated at all (finding 3).

## Running

    tlc -workers 2 -config rotation.cfg MCRefreshRotation
    tlapm ClientsProofs.tla     # and the other ...Proofs modules

Each row of "Runs" has a `.cfg` of its name; `PROJECT.json` names its module.
