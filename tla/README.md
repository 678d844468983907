# A verification project for servora-auth

TLA+ models of the authentication service in this repository, TLC
configurations that check them on small instances, and TLAPS proofs of what
matters most for every instance. Paths such as `login.ts:54` are relative to
the repository's `src/` directory (routes are under `routes/v1/auth/`).

## 1. The system

servora-auth is one Node.js process (or several behind a balancer) in front of
two stores: Postgres for accounts, sessions and tokens, Redis for rate limits,
cooldowns, phone OTP challenges and OAuth state. Two external parties take
part: Google, and the notification service that delivers mails and messages.

No route opens a transaction. A handler is a sequence of SQL statements and
Redis commands, each atomic in its store, with an `await` after each; handlers
of different requests interleave exactly at these awaits, and a handler may
fail (an exception, answered with 500) or die with its process between any two
of them. There is no job that finishes what a failed handler left half done.
This is where the behaviour is hard, and it is what the models keep.

| Component | State | Operations |
|---|---|---|
| Credentials and sessions | `users` (password hash, status), `sessions`, `password_reset_tokens`, `cooldown:password-reset-request:*` | register, login, logout, session, internal sessions/verify, password reset request and confirm |
| Accounts and email | `users` (email, `email_verified_at`), `oauth_identities`, `email_verification_tokens`, `cooldown:email-resend:*`, published events | register, Google sign-in (ID token and redirect), email verify, email resend |
| Phone OTP | `users` (phone, `phone_verified_at`), `otp:phone:challenge:*`, `cooldown:otp-request:*` | OTP request, OTP verify (a Lua script) |
| Rate limiter | `ratelimit:*` counters and their expiry | `consumeRateLimit`, `enforceRateLimit` |
| Google redirect flow | `oauth:google:state:*`, `configCache` in the process | start, callback |
| Notification publishers | an abort timer per call | `publish`, which never throws |
| Server lifecycle | readiness flag, listening socket, pool, Redis connection | start, SIGTERM/SIGINT |
| Reset script | both stores, one transaction | dry run, refusal, execution and its verification |
| Migration script | `schema_migrations`, one transaction per file | run |
| Stateless parts | none | schemas, error handler, logging, hashing, tokens, cookies |

How they interact:

- Every route but logout, session, verification and the Google ones first
  consumes one or two rate limit keys, then reads Postgres, then takes a
  cooldown in Redis, then writes Postgres or Redis, then publishes.
- `requireSession` (session cookie to user) guards the OTP routes; it returns a
  snapshot of the user's row that the handler then uses to the end.
- Register, login and both Google sign-ins end in `createSession` and a cookie.
- The reset confirm writes three tables in three statements: it consumes the
  token, updates the hash, revokes every session of the user.
- `publish` is awaited but reports nothing: a lost message loses its token.
  Its abort timer bounds how long it may hold up the handler.
- Shutdown waits for connections, and so for clients that have sent half a
  request, for the handlers whose clients wait, and for their `publish`; then it
  ends the pool and disconnects Redis.
- The Redis client sends a command again when the connection broke before its
  reply. Nobody listens to the `'error'` of the Postgres pool: an idle
  connection that breaks ends the process.
- The scripts are processes of their own. They meet the service, and each
  other, in the stores: in the locks of Postgres, and in keys of Redis that come
  and go between two commands.

What makes each component correct:

- *Credentials*: an answered logout or reset keeps its sessions out, whatever
  runs at the same time; a password changes only by a token its owner received,
  spent first; a reset reaches every session that exists.
- *Accounts*: an address is verified only on proof; a Google identity belongs
  to one account, verified; an account is announced at most once, and so is a
  sign-in.
- *Phone OTP*: a code works once, withstands a bounded number of guesses, dies
  in time, and vouches for the account's own number only.
- *Rate limiter*: no window lets more than its limit through; no key refuses
  for ever.
- *Redirect flow*: a state serves one callback; no request hangs; a past
  failure does not turn later requests away.
- *Publishers*: silence means success; no call outlasts its timer.
- *Server*: `/ready` is true; a shutdown closes nothing under a request whose
  client waits, it ends unless a client holds it, and its exit code is true.
- *Reset script*: old data is gone, rows all at once and with consent only;
  what is reported clean is clean; no row outlives its user; no handler waits
  for ever.
- *Migrations*: each file once and in order, whoever else runs; success means
  the whole schema.

`PROJECT.json` lists the hazards one by one, at their lines.

## 2. The modules

| Module | Models | Notes |
|---|---|---|
| `Credentials` | password, session and reset routes | the core; proved about |
| `SessionRegister` | what sessions promise: a register that answers at once | abstract; `Credentials` implements it |
| `CredentialsProofs` | | theorems about `Credentials`, among them the refinement |
| `Accounts` | registration, Google linking, email verification, events | |
| `AccountDirectory` | what accounts promise: a directory whose operations take one step | abstract; `Accounts` implements it |
| `PhoneOtp` | OTP routes and the Lua script | time in quarters of a second |
| `OneTimeSecret` | what a one-time secret promises | abstract; `PhoneOtp` implements it |
| `PhoneOtpProofs` | | theorems about `PhoneOtp`, among them the refinement |
| `RateLimiter` | `consumeRateLimit` command by command | |
| `FixedWindow` | what a limiter promises: windows that count a request in one step | abstract; `RateLimiter` implements it |
| `RateLimiterProofs` | | theorems about `RateLimiter`, among them the refinement |
| `AccountsProofs` | | theorems about `Accounts`, among them the refinement |
| `OAuthRedirect` | state in Redis, cached discovery | |
| `OAuthRedirectProofs` | | theorems about `OAuthRedirect` |
| `NotificationDelivery` | one POST under an abort timer, both publishers | actions and state; `Server` composes them |
| `Server` | `server.ts`: start-up, readiness, shutdown | extends `NotificationDelivery`: handlers await its calls |
| `ServerProofs` | | theorems about both |
| `ResetScript` | the reset script against a service that goes on | |
| `ResetScriptProofs` | | theorems about `ResetScript` |
| `Migrations` | any number of runs of the migration script | |
| `SchemaVersion` | what migrations promise: a version that counts up | abstract; `Migrations` implements it |
| `MigrationsProofs` | | theorems about `Migrations`, among them the refinement |
| `MC*` | | model values and symmetry for TLC; `Server`, `ResetScript` and `Migrations` need none |

Conventions shared by the modules:

- A `Request` (a `Caller` in `RateLimiter`) is a slot that runs one handler at
  a time; `req[r].at` names the statement it will execute next. A slot also
  names the row, code or state its handler creates, with its random secret, so
  it creates at most one: `Unused(r)` and `r \notin issued` say so. Handlers
  that create nothing reuse slots without limit. A slot is a bound of the
  model, not of the service.
- One action is one awaited statement or command together with the code that
  runs up to the next one. A request refused before it writes anything (wrong
  password, unknown token, rate limit) changes nothing and is a stuttering
  step.
- Hashing is injective and secrets are unguessable: a handler opens a row only
  with a secret that reached a client (`cookies`) or an owner (`mailbox`).
- Postgres constraints appear where a handler relies on them:
  `users_email_unique`, `users_phone_unique`,
  `oauth_identities_provider_subject_unique`.
- In the route modules `Fail` drops any set of handlers in flight at once: one
  exception, or a crash of the process. Both leave the stores as they are. A
  statement that executed but whose reply was lost is the statement followed by
  `Fail`.
- Expiry is an action that may happen at any time, except in `PhoneOtp` and
  `RateLimiter`, where the time itself matters and a `Tick` counts it.
- Definitions whose comment begins with *Mutant of* are plausible bugs of the
  operation they stand before. They are used by nothing; each one, put in the
  place of its original, makes TLC find the property it is paired with in
  `PROJECT.json` violated.

Correspondence to the code, in short (`PROJECT.json` has the lines):

- `Credentials`: `users`, `hash`, `active`, `session`, `token` are the tables;
  `RegisterInsertUser`, `LoginFindUser` and `GoogleResolveUser` lead to
  `InsertSession` and `ReplyWithCookie`; `ResetFindUser`, `AcquireCooldown`,
  `InsertToken`, `PublishToken` are the reset request; `ConfirmFindToken`,
  `ConsumeToken`, `UpdateHash`, `RevokeAll` the confirm; `VerifyFindSession`
  and `VerifyAccept`/`VerifyRefuse` the two reads of `verifySessionToken`.
  `SetStatus` is an operator's UPDATE: nothing in the service writes the
  column. History: `doomed`, the sessions whose revocation has been answered,
  and the field `prior` of a handler.
- `Accounts`: `GoogleFindIdentity`, `GoogleFindByEmail`, `GoogleInsertUser`,
  `GoogleLink`, `MarkVerified` are the statements of
  `resolveOrCreateUserForGoogleIdentity`. What Google says of a subject (its
  address, verified or not) may differ from one sign-in to the next. History:
  `vouched`, the addresses Google has called verified. An event carries how its
  account signed in (`authenticationMethod`).
- `PhoneOtp`: the script is atomic. `ScriptMatch`, `ScriptExceeded` and
  `ScriptInvalid` are what it does to Redis; `EvalMatch` and `EvalMismatch` are
  these with the reply, `EvalReplyLost` without it: the client, which retries a
  command twice, sends the script again. `CooldownReplyLost` is the same for
  SET NX. `Store` is the SET of a challenge, `StoreChallenge` the SET with its
  reply and the notification that follows it, `StoreReplyLost` the SET whose
  reply is lost: the one that is sent again overwrites whatever the first has
  become. A command is sent again only before the handler goes on, so only
  before the code is sent to anybody. A guess is any code that somebody has been
  sent, or a wrong one: codes are not guessed by luck before that. `TtlSeconds`
  is Redis's TTL, `(ms + 500) / 1000`, on quarters of a second. History:
  `issued` (stored), `told` (sent to its user), `wrong` (guesses at a code since
  it was stored), `spent`, and the age of a challenge.
- `RateLimiter`: `Incr`, `Expire`, `Refuse` are the three commands; a request
  consumes the keys of its route one after the other. `IncrReplyLost` and
  `ExpireReplyLost` are the Redis client sending a command again after a lost
  connection. History: `admitted`.
- `OAuthRedirect`: `configCache` is `none`, `pending`, `resolved` or
  `rejected`; it is lost with the process. History: `honoured`, `settled`, and
  the fields `replay` and `since` of a handler.
- `NotificationDelivery`: `at` is the `await` a call of `publish` is in,
  `timer` its `setTimeout`, `status` is `response.ok`, `logged` the warning it
  leaves. `wire`, `answer` and `accepted` belong to the notification service.
  `Break` has two cases, as the code has: while `fetch` is awaited the catch
  clause sees the error, while the body is, `.catch(() => undefined)` does.
- `Server`: `proc` is where `main` is or how the process ended, `conn` and
  `handler` the two lives of a request. A connection comes first and is `half`
  until the whole request is in; the two part when the client hangs up.
  `StartupCheck`, `Listen`, `BeginShutdown`, `EndPool`, `EndPoolAgain` and
  `Exit` are the statements of `server.ts`; `StopListening`, `Closed` and
  `PoolEnds` are what Fastify's `close` and pg's `end` wait for. `PoolError` is
  the pool's `'error'`, to which `pool.ts:3-6` attaches no listener. A statement
  on a pool that is ending is refused. During `close` a request whose headers
  had come in is still handled and one whose headers come later is answered 503
  (`GiveUp`); before it the HTTP server gives up on late headers, and at no time
  on a late body, as `buildApp.ts:14-19` sets no `requestTimeout`. A signal that
  comes before its handler is installed ends the process; the image runs it as
  PID 1 (`Dockerfile:37`), where such a signal does nothing, as in a behaviour
  in which the signal does not come.
- `ResetScript`: one action per statement or command; `tx` is what the open
  transaction has deleted, `found` what the first scan saw. The service
  registers, looks up a user, inserts a row for it, writes and loses keys, at
  any moment. `sessions` stands for all five tables with a `user_id`; tables
  are looked at in the order children, users. History: `written` and `fresh`,
  what the service has written since the run, and its verification, began.
- `Migrations`: one action per statement. An open transaction is a run at
  `insert` or `commit`; another that executes the same file, if it creates
  objects, or inserts the same row waits, and is refused once the first has
  committed. `times` counts how often the statements of a file took effect.

## 3. What is checked

Runs that pass:

| Run | Bounds | What it shows |
|---|---|---|
| `Credentials.cfg` | 1 account, 2 passwords, 3 slots, no failure | `AnsweredRevocationsHold`, `RevokedStaysOut`, `PasswordChangeAuthorised`, `HandlersAgreeWithRows`, and the refinement of `SessionRegister` |
| `CredentialsFailures.cfg` | 1 account, 2 passwords, 2 slots, 1 failure | `ResetReachesEverySession`, with failures and other requests after them |
| `RateLimiter.cfg` | 3 callers, 2 keys, limit 2, window 2, 1 failure | `LimitHolds`, `NoKeyIsStranded`, `WindowIsFixed`, `WindowReopens`, and the refinement of `FixedWindow` |
| `PhoneOtp.cfg` | 2 users, 2 numbers, 2 slots, TTL 2 s, 2 attempts, 1 failure | `CodeIsSingleUse`, `GuessesAreBounded`, `GuessesDoNotRenew`, `NumberIsTheAccounts`, and the refinement of `OneTimeSecret` |
| `Accounts.cfg` | 1 address, 2 subjects, 3 slots, 1 failure | `WelcomedAtMostOnce`, `VerifiedOnProof`, `LinkedIsVerified`, `OneEventPerSignIn`, and the refinement of `AccountDirectory` |
| `OAuthRedirect.cfg` | 2 slots, 2 failures | `ReplayIsRefused`, `EveryRequestIsAnswered` |
| `Server.cfg` | 2 requests, 2 signals | `SilenceMeansAccepted`, `ReadyOnlyWhileServing`, `AwaitedRequestsKeepStores`, `ExitCodeIsTrue`, `ShutdownEnds`, `RequestsEnd` |
| `ResetScript.cfg` | 2 users, 1 row, 2 keys, chunks of 1, 1 failure | `OldDataIsGone`, `CleanIsTrue`, `SessionsHaveUsers`, `RowsVanishTogether`, `HandlersGoOn` |
| `Migrations.cfg` | 3 runs, 3 files of which 2 create objects, 1 failure | `AppliedAtMostOnce`, `UpToDateIsTrue`, the refinement of `SchemaVersion`, `RunsEnd`, `SchemaArrives` |

`PhoneOtp.cfg` also checks `TypeOK`, which there says how long a challenge may
live; that of every module is proved, and so is `WaitIsTimed` of
`NotificationDelivery` (section 4). Counters in `RateLimiter`
stop at `MaxCount`, above the limit: counts from there on are all refused and
not told apart.

Why these bounds are enough for the cases that matter. A race in this service
is between two handlers over one row, prepared by a third that created the row:
three slots, one account, where slots create rows (`Credentials`, `Accounts`).
In `PhoneOtp` and `OAuthRedirect` a slot that has stored a code or a state goes
on to submit it, so two slots make every race of two handlers. A second account
or address would only show a handler that touches the wrong one; the proofs of
`Credentials` and `Accounts` cover any number. A limit of two is the least at
which a window is neither empty nor full after one request; three callers
overfill it. Two seconds let a challenge be rewritten with its time rounded up,
down and to nothing, two attempts let it be rewritten and exhausted; the proofs
cover longer lives and more attempts. One failure is enough to leave any
handler at any statement; what a second would add is another handler that stops
there, except in `OAuthRedirect`, where the discovery and the process may each
fail. Even without a failure a handler may stop for good, since safety is
checked without using fairness; `Fail` only frees its slot for later requests.
The proofs of `Credentials` cover any number of failures. Slots, passwords,
addresses and users are symmetric; symmetry is used in runs without liveness
properties only.

In `Server` a second signal is the least that starts a second shutdown, and two
requests let one be served while the other's client has gone, or has sent half
of it. In `ResetScript`
two users let one be deleted and another registered in its transaction, two
keys in chunks of one let a failure fall between two UNLINKs; one row is enough
because rows do not meet each other, only their users. In `Migrations` three
runs let one wait for a second while a third has read an older
`schema_migrations`; of three files the one that creates nothing has only its
row to keep it from taking effect twice. Runs of both scripts may be started
again without limit. The proofs cover every size.

Deadlock checking is off in `Accounts` and `OAuthRedirect`, where the slots run
out: each names one row or state. It is off in `Server`, whose process ends.

Runs that show the code at odds with its documentation (one property each, a
violation is expected; `PROJECT.json` quotes the line):

| Run | What happens |
|---|---|
| `CredentialsOldPassword.cfg` | among accounts that exist already (`ExistingAccountsSpec`), a login that checked the old password opens its session after the reset revoked the others; that session stays (`login.ts:54`) |
| `RateLimiterSelfHeals.cfg` | with no other failure (`MissedExpirySpec`), a caller that fails between INCR and EXPIRE leaves a key that refuses for ever (`rateLimiter.ts:21-24`); under `FairSpec` a lost reply to the INCR that creates the key does so too |
| `PhoneOtpExpiry.cfg` | a wrong guess in the last half second leaves the challenge without an expiry (`otpChallenge.ts:85-90`) |

More statements, of the documentation or of what the design suggests, stand in
their modules and have no run of their own. Added as an INVARIANT to the
module's passing run, or, where it is an action or a temporal formula, as a
PROPERTY, each gives a counterexample:

- `ResetTokenIsSingleUse` (`Credentials`), README.md:323-324: two confirms both
  find a reset token valid and both change the password
  (`passwordResetConfirm.ts:25-37`);
- `WelcomedExactlyOnce` (`Accounts`), `events.ts:70`: two first sign-ins with
  one Google identity create an account nobody announces
  (`googleIdentityService.ts:64-76`);
- `LinkingVerifies` (`Accounts`): a failure between link and mark leaves the
  address unverified for good (`googleIdentityService.ts:50-57`);
- `EventsFollowSessions` (`Accounts`): registration announces the account
  before its session exists (`register.ts:85`);
- `OldFailureHarmsNoRequest` (`OAuthRedirect`), README.md:144: a rejected
  discovery is cached and fails every later request (`googleClient.ts:22`);
- `StateIsSingleUse` (`OAuthRedirect`): two callbacks both read one state
  before either deletes it (`googleOAuthState.ts:21-25`);
- `ExhaustedStaysGone` (`PhoneOtp`): a code that was guessed at too often is live
  again, with a new count, when the SET that stored it is sent again
  (`otpChallenge.ts:62`);
- `UnreachableMeansUndelivered` (`NotificationDelivery`, in the run of
  `Server`), `HttpNotificationPublisher.ts:73`: the service handles the request
  after the abort, and the log says that the event was not delivered;
- `ShutdownCutsNothing` (`Server`): a handler whose client has hung up is not
  waited for and loses its pool half way (`server.ts:47-48`);
- `SecondSignalIsHarmless` (`Server`): a second signal makes `pool.end` reject,
  and the process exits with 1 (`server.ts:48-54`);
- `ShutdownNeedsNoClient` (`Server`): `app.close` waits for ever for a client that
  has sent half of its request (`server.ts:47`, `buildApp.ts:14-19`).

### Fairness

`FairSpec` of `Credentials`, `RateLimiter` and `OAuthRedirect` assumes weak
fairness of each handler's next statement: the stores answer every command or
fail it, and Node's event loop resumes every handler whose reply is in. It is
assumed of no client, of no operator and of no failure. `RateLimiter` adds that
time passes (`Tick`), `OAuthRedirect` that the discovery request settles, which
its HTTP client guarantees by a timeout. `ResetReachesEverySession` and
`WindowReopens` excuse failures: after one the code leaves the work undone, and
no line of it says otherwise. `EveryRequestIsAnswered` does not.

`FairSpec` of `Server` assumes that the event loop runs what is due: the steps
of `main` and of every shutdown, handlers whose replies are in, and armed
timers; that the pool closes its connections once nobody uses them, and that an
idle connection is closed, by the client, by Fastify or by Node's keep-alive
timeout. Nothing is assumed of clients with a request in flight, half sent or
whole, of signals or of the notification service. So `ShutdownEnds` says that a
shutdown ends or waits, from some moment on for ever, for a request that is half
sent: with such a client the code does not end by itself. That a shutdown ends
although the service never answers is due to the timer, and without it
(`PublishWithoutSignal`) both liveness properties fail. `FairSpec` of `ResetScript` and `Migrations` assumes
that Postgres and Redis answer what does not wait for another transaction. In
`ResetScript` one weak fairness condition for the script is enough, since a
failure also ends it; handlers are fair once their INSERT can run, which leaves
`HandlersGoOn` to the transaction's end. `SchemaArrives` excuses failures after
the start it speaks of, not those before.

## 4. What is proved

All proofs are for every value of the constants that the named assumptions of
the module allow. TLC evaluates these assumptions in every run.

### Credentials

`CredentialsProofs` proves, for every set of accounts, passwords and handlers
and every number of failures:

| Theorem | Statement |
|---|---|
| `Invariance` | `Spec => []IndInv` |
| `TypeCorrect` | `Spec => []TypeOK` |
| `HandlersAgree` | `Spec => []HandlersAgreeWithRows` |
| `RevocationsHold` | `Spec => []AnsweredRevocationsHold` |
| `RevokedSessionsStayOut` | `Spec => RevokedStaysOut` |
| `PasswordAuthorised` | `Spec => PasswordChangeAuthorised` |
| `Refinement` | `Spec => SessionsAreARegister` |
| `ResetsLetNothingGo` | the safety core of `ResetReachesEverySession` |

The assumptions: `Null` is none of the other values, `MaxFailures` is a natural
number.

The argument. `AnsweredRevocationsHold` says that every session in `doomed` is
a row that is revoked. It is not inductive by itself, for three reasons:

1. A logout dooms a session whose secret a client holds. That it is a row at
   all is `SecretsOpenRows`: secrets in circulation open rows.
2. A reset dooms the sessions it saw when it changed the password. That its
   `RevokeAll` revokes all of these is a clause of `HandlersAgreeWithRows`:
   they still belong to the account the handler works on.
3. A doomed row must not be replaced by a fresh one. That is another clause:
   the slot of a handler about to insert has no row yet.

So `IndInv` is the conjunction of `TypeOK`, `HandlersAgreeWithRows`,
`SecretsOpenRows` and `AnsweredRevocationsHold`. There is one lemma per action,
with one step per conjunct that the action can disturb; `NextInv` puts them
together, and each theorem projects what it states. For
`PasswordChangeAuthorised` the clauses about `consumeToken` and `updateHash`
say that the token in hand is the account's, reached its owner and is spent. For
`RevokedStaysOut` the clause about `verifyUser` says that a verification in
flight started before its session was doomed: `VerifyFindSession` requires an
unrevoked row, and `AnsweredRevocationsHold` says a doomed one is revoked.

`Refinement`: the tables and the handlers are a `SessionRegister`, in which a
reset ends all sessions of an account in one step and reports them with it.
`InsertSession` is `Open` (the slot has no row, by `HandlersAgreeWithRows`);
`RevokeAll`, `Logout` and `ExpireSession` are `End`; `VerifyFindSession` is
`LookUp`, and the second read of a verification is the register's answer, as
the session it found belongs to the account it reads. `Fail` is `Abandon`; what
changes neither sessions nor verifications is `SetStatus`. The register says
what clients may rely on and what not: a verification has two instants, and a
session that ends between them is accepted once more.

`ResetsLetNothingGo`: as long as nothing fails, a session of the account whose
password a reset changes stays in that reset's reach or is revoked, whatever
other handlers, clients, operators and the clock do. It needs that a row keeps
its owner (`OwnersStay`), and so that no slot inserts twice.

### PhoneOtp

`PhoneOtpProofs`, for any users, numbers and handlers, any `OtpTtl`, `Cooldown`
and `MaxAttempts` of at least one:

| Theorem | Statement |
|---|---|
| `Invariance` | `Spec => []IndInv` |
| `TypeCorrect` | `Spec => []TypeOK` |
| `SingleUse` | `Spec => []CodeIsSingleUse` |
| `BoundedGuesses` | `Spec => []GuessesAreBounded` |
| `BoundedRenewal` | `Spec => []GuessesDoNotRenew` |
| `NumbersAgree` | `Spec => []NumberIsTheAccounts` |
| `Refinement` | `Spec => OtpIsOneTimeSecret` |

`TypeOK` itself needs `GuessesDoNotRenew`: that a challenge's age and time left
stay below `MaxLife` follows from the half second per guess only. The
strengthening is `CodesAreFresh` (a code that has not been issued has not been
guessed at, a live one belongs to one user) and `HandlersAgree` (a handler that
is to issue a code has not, and the number in its hands is the account's).
`RewrittenBounds` and `AgedBounds` say what the script's rewriting and the
passing of time do to a challenge. A code that is not told yet may be stored
again and again by its own handler; `CodesHaveOwners` says that it then is in
nobody's challenge but that user's. The refinement maps `StoreChallenge` and
`StoreReplyLost` to `Issue`, `ScriptMatch` to `Use`, `ScriptInvalid` and
`ScriptExceeded` to `Try`, whether or not the reply arrives, `Tick` to `Expire`;
every other action leaves `told`, `LiveCodes`, `spent` and `wrong` as they are.
Its need for the invariant is `CodesAreFresh`: deleting one user's challenge
must not leave its code alive with another.

### RateLimiter

`RateLimiterProofs`, for any callers, keys, limit and window:

| Theorem | Statement |
|---|---|
| `Invariance` | `Spec => []IndInv` |
| `TypeCorrect` | `Spec => []TypeOK` |
| `LimitIsKept` | `Spec => []LimitHolds` |
| `NoneStranded` | `Spec => []NoKeyIsStranded` |
| `WindowsAreFixed` | `Spec => WindowIsFixed` |
| `Refinement` | `Spec => KeysAreFixedWindows` |

`LimitHolds` needs `Counted`: a window has counted every request it admitted.
`WindowIsFixed` needs `CreatorsDiffer`: as long as nothing has failed, at most
one caller owes a key its expiry, and that key has none yet, so no second EXPIRE
moves the end of a window. `NoneStranded` and `WindowsAreFixed` together are the
safety core of `WindowReopens`: each window has a clock, or a caller about to
start it, and nothing turns the clock back.

`Refinement`: an `Incr` that is admitted is `Admit`, and opens the window if it
is the first; one that is refused is a stutter; `Expire` is `StartClock`; a lost
reply, a failed caller and a Flush are `Mishap`. That an INCR is admitted only
below the limit is `Counted` again, that the first one opens a window is the
second half of `LimitHolds` (no count without a key), and that its clock is
started once is `CreatorsDiffer`.

### Accounts

`AccountsProofs`, for any addresses, Google subjects, handlers and failures:

| Theorem | Statement |
|---|---|
| `Invariance` | `Spec => []IndInv` |
| `TypeCorrect` | `Spec => []TypeOK` |
| `WelcomedOnce` | `Spec => []WelcomedAtMostOnce` |
| `ProofFirst` | `Spec => []VerifiedOnProof` |
| `LinkingMarks` | `Spec => []LinkedIsVerified` |
| `SignInEvents` | `Spec => []OneEventPerSignIn` |
| `Refinement` | `Spec => AccountsAreADirectory` |

Each property speaks of what has been written; the invariant adds what a
handler carries from one statement to the next. `Proof`: whoever is about to
mark an address holds Google's word for it or a token of its owner's, and
whoever links without marking has seen the address marked. `Announcements`:
whoever will announce an account has created it, there is one such handler, and
nobody has announced it before: creation is an INSERT that `users_email_unique`
lets succeed once. `Events`: a handler on the way to its event has published
none, a Google sign-in that is about to has its session, and a registration
opens its session after an event that says it used a password.

`Refinement`: the statements of the handlers are the operations of an
`AccountDirectory`, each in one step. `Proof` gives `Prove` and `Link` their
evidence, which the directory requires before it marks an address or links an
identity; `Announcements` makes `Welcome` happen once. `Entering`, proved beside
`IndInv`, says that a handler with a Google identity enters the account this
identity is linked to, however many sign-ins link at the same time.

### OAuthRedirect

`OAuthRedirectProofs`: `TypeCorrect` and `NoReplay` (`Spec =>
[]ReplayIsRefused`), for any handlers and failures. A callback past its DEL has
removed its state (`States`), a state is stored once, before its start is
answered, so what served an answered callback is not stored (`SettledAreGone`),
and a GET that begins later finds nothing.

Behind `EveryRequestIsAnswered` stand `AwaitersHaveADiscovery` (who awaits the
cached promise awaits one that was started: only a crash forgets it, and with it
whoever waits) and `HandlersCountDown` (a handler has at most three steps before
it, and nobody else adds any).

### Server

`ServerProofs`, for any number of requests and signals:

| Theorem | Statement |
|---|---|
| `Invariance` | `Spec => []IndInv` |
| `TypeCorrect` | `Spec => []TypeOK` |
| `NoSilentLoss` | `Spec => []SilenceMeansAccepted` |
| `WaitsAreTimed` | `Spec => []WaitIsTimed` |
| `ReadyIsServing` | `Spec => []ReadyOnlyWhileServing` |
| `StoresOutliveRequests` | `Spec => AwaitedRequestsKeepStores` |
| `ExitCode` | `Spec => ExitCodeIsTrue` |
| `ShutdownIsNeverStuck` | the safety core of `ShutdownEnds` |
| `RequestsCountDown` | the measure behind `RequestsEnd` |

The publisher's part of the invariant is kept by every action of
`NotificationDelivery`, whatever the process does around it; `AnswersAreTrue`
is what the service is assumed to mean by "accepted". The part of the process,
`Stages`, says that a socket that listens or an open connection means a process
that serves with open stores, and that once the pool is ending one shutdown is
past `app.close`. So every step that closes the pool or exits finds no
connection to take it from, which is `StoresOutliveRequests`, and another
shutdown that gets there is a second one, which `ExitCode` needs. Both name the
one exception, `PoolError`.

`ShutdownIsNeverStuck`: from the first signal to the end of the process some
step is due that waits for no client and not for the notification service
(`SomethingIsDue`): the socket's closing, a handler that a connection waits for,
a call of `publish` whose timer is armed, the pool, or the exit; or else a
request is half sent (`HalfSent`). It rests on `Turns`, which says that a
shutdown that ends the pool has called its end and that a connection whose
request is in has a handler, and on `WaitIsTimed`.
`RequestsCountDown`: a request has at most 13 steps before it (`Work`), each of
its own takes one away, and nobody adds any.

### ResetScript

`ResetScriptProofs`, for any users, rows, keys, chunk and number of failures:

| Theorem | Statement |
|---|---|
| `Invariance` | `Spec => []IndInv` |
| `TypeCorrect` | `Spec => []TypeOK` |
| `OldDataGone` | `Spec => []OldDataIsGone` |
| `CleanTrue` | `Spec => []CleanIsTrue` |
| `NoOrphans` | `Spec => []SessionsHaveUsers` |
| `OneTransaction` | `Spec => RowsVanishTogether` |
| `WaitersHaveACommit`, `WaitsAreForOneTransaction` | the safety core of `HandlersGoOn` |

`OldKeys` and `OldRows` say at every step where the old data still is: before
the scan's cursor, in its result, in the transaction, or nowhere. `Seen` does
the same for the verification. `NoOrphans` needs `TransactionInv`: when the
COMMIT comes, every row whose user goes with it is in the transaction too,
those by the cascade that were inserted after their table had been emptied.

A handler with a user can go on, or is told that the user is gone, or waits, and
then the script has come to its COMMIT (`WaitersHaveACommit`); that, or a
rollback, is the script's next step and ends the wait
(`WaitsAreForOneTransaction`).

### Migrations

`MigrationsProofs`, for any runs, files, failures and any set of files that
create objects:

| Theorem | Statement |
|---|---|
| `Invariance` | `Spec => []IndInv` |
| `TypeCorrect` | `Spec => []TypeOK` |
| `AppliedOnce` | `Spec => []AppliedAtMostOnce` |
| `UpToDate` | `Spec => []UpToDateIsTrue` |
| `Refinement` | `Spec => MigrationsCountUp` |
| `RunsCountDown`, `WaitsEndInATurn` | the safety core of `RunsEnd` |
| `TheLeadIsKept` | the safety core of `SchemaArrives` |

`Ladder` says that the rows are an initial segment of the files and that these
took effect once each. It holds because of what a run may still conclude from
rows it read long ago (`Knows`: they are there, and so is everything before its
file), and because of `OneCommits`: two open transactions have not both
inserted one file. A `Commit` is the abstract `Apply`, all else stutters.

`RunsCountDown`: a run has at most `4 * Files + 3` statements before it
(`Rank`), each takes one away, and only its start adds any. `WaitsEndInATurn`:
whoever waits for another's transaction waits for runs of which one waits for
nobody and has fewer statements before it, so there is no circle of waits.
`TheLeadIsKept`: a run is `Ahead` if nothing recorded so far will be refused to
it, as every run is when it starts; while one is, one stays so until the schema
is complete, unless something fails: the run that overtakes it, and makes it end
with an error, is ahead by then. A run that was started before a failure need
not be ahead, which is why `SchemaArrives` speaks of runs started after it.

### Only model-checked

Liveness throughout: the prover has no rule for fairness or ENABLED here. Each
liveness property has the part of its argument that is about steps proved for
every size: that something is due, or that nobody waits but for one who can go
on, and that what is left gets less. What remains to TLC is that steps which are
due are enabled, and that a step which fairness grants is taken. On the
instances of `Migrations.cfg` and `Server.cfg`, TLC also confirms in every state
that a run under way waits (`Waiting`) exactly if its `Proceed` is not enabled,
and that `SomethingIsDue` during a shutdown means that a fair action is.

And the eleven refuted statements and three violations above, which only TLC's
counterexamples support.

`AccountsAreADirectory` was also checked with two addresses, two subjects and
two slots (96,912 states).

## 5. What is not modelled

- The translation of an event to a path and a body, and
  `InMemoryNotificationPublisher`, which tests use.
- The clients' HTTP cookies beyond holding a secret, CORS and headers, schemas,
  the error envelope, logging, row mapping, what the scripts print: stateless.
- Argon2, SHA-256, random generation, constant-time comparison: outside what a
  state machine says. Hashes are injective, secrets unique.
- Google's own protocol: its answers are inputs.
- The rate limits are not composed with the routes: a limiter only removes
  behaviours of a route (the request is refused before it reads anything), so
  what the route modules show holds with it. `WindowReopens` shows that it does
  not refuse for ever.
- The routes are not composed with `Server` or `ResetScript` in full: there a
  handler is the statements that matter to its pool, or to the tables deleted
  under it. What a shutdown or a reset cuts short is for a route module a
  handler that fails.
- Two `CREATE TABLE IF NOT EXISTS` at the same moment may make Postgres refuse
  one: in `Migrations` that is `Fail`, so `SchemaArrives` excuses it.
- Other processes than the service and the two scripts that write to the
  stores, except an operator who changes a user's status.

## 6. Plan

What the plan of this project set out to model is done: `Credentials`,
`RateLimiter`, `PhoneOtp`, `Accounts`, `OAuthRedirect`, `ResetScript`,
`NotificationDelivery` with `Server`, `Migrations`, the abstract specifications
`SessionRegister`, `FixedWindow`, `OneTimeSecret`, `AccountDirectory` and
`SchemaVersion`, the proofs of their safety properties and of the refinements,
and the safety cores of the liveness properties. What is left, in
order:

1. Wider runs of `Accounts`, from initial states with rows of earlier days, so
   that two addresses with a history fit.
2. The registration of `Accounts` composed with `Server`: which of its rows a
   shutdown leaves behind without a client.
3. An abstract readiness and shutdown that `Server` implements, as a balancer
   that polls `/ready` sees it.
