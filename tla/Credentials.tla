---------------------------- MODULE Credentials ----------------------------
(***************************************************************************)
(* Passwords, sessions and password reset tokens, and the HTTP handlers    *)
(* that read and write them.  A handler is a sequence of steps: each step  *)
(* is one awaited SQL statement or Redis command (atomic in the store)     *)
(* with the code that runs up to the next await, so handlers of different  *)
(* requests interleave exactly at their awaits.  No route opens a          *)
(* transaction.                                                            *)
(*                                                                         *)
(* A Request is the slot a handler runs in.  It also names the one row the *)
(* handler may insert (session[r] or token[r]) and the random secret that  *)
(* opens it, so a slot that has inserted a row starts no handler that      *)
(* inserts another; other handlers reuse it.  A request refused without a  *)
(* write (a wrong password, an unknown token, a rate limit) changes        *)
(* nothing and is a stuttering step.                                       *)
(***************************************************************************)
EXTENDS Integers

CONSTANTS
    Account,     \* email addresses, each the key of at most one users row
    Password,    \* passwords; hash[a] = p stands for "argon2 verifies p"
    Request,     \* handler slots
    Null,        \* SQL NULL, and "no row"
    MaxFailures  \* bound: how many failures (errors or crashes) may happen

ASSUME NullAssumption == Null \notin Account \cup Password \cup Request
ASSUME MaxFailuresAssumption == MaxFailures \in Nat

VARIABLES
    users,     \* accounts that have a users row
    hash,      \* users.password_hash
    active,    \* accounts whose users.status is ACTIVE
    session,   \* sessions, by the request that inserted the row
    token,     \* password_reset_tokens, likewise
    cooldown,  \* accounts whose cooldown:password-reset-request key exists
    mailbox,   \* reset tokens that reached the account's owner
    cookies,   \* session tokens that reached a client
    req,       \* handlers in flight
    failures,  \* failures so far
    doomed     \* history: sessions whose revocation has been answered

tables == <<users, hash, active, session, token>>
vars == <<tables, cooldown, mailbox, cookies, req, failures, doomed>>

Step == {"idle", "insertSession", "setCookie",
         "acquireCooldown", "insertToken", "publishToken",
         "consumeToken", "updateHash", "revokeAll", "verifyUser"}

SessionRow == [user : Account \cup {Null}, revoked : BOOLEAN, expired : BOOLEAN]
TokenRow == [user : Account \cup {Null}, consumed : BOOLEAN, expired : BOOLEAN]
Handler == [at : Step, account : Account \cup {Null},
            password : Password \cup {Null}, ref : Request \cup {Null},
            prior : SUBSET Request]

Idle == [at |-> "idle", account |-> Null, password |-> Null, ref |-> Null,
         prior |-> {}]
NoSession == [user |-> Null, revoked |-> FALSE, expired |-> FALSE]
NoToken == [user |-> Null, consumed |-> FALSE, expired |-> FALSE]

\* Any accounts may exist already; one without a hash signs in with Google.
Init ==
    /\ users \in SUBSET Account
    /\ hash \in [Account -> Password \cup {Null}]
    /\ \A a \in Account \ users : hash[a] = Null
    /\ active = users
    /\ session = [r \in Request |-> NoSession]
    /\ token = [r \in Request |-> NoToken]
    /\ cooldown = {}
    /\ mailbox = {}
    /\ cookies = {}
    /\ req = [r \in Request |-> Idle]
    /\ failures = 0
    /\ doomed = {}

InFlight == {r \in Request : req[r].at # "idle"}
Unused(r) == /\ req[r].at = "idle"
             /\ session[r].user = Null
             /\ token[r].user = Null

\* Mutant of ActiveSession: revoked_at IS NULL is missing.
ActiveSessionIfRevoked(s) == session[s].user # Null /\ ~session[s].expired

\* The WHERE clauses of findActiveSessionByTokenHash and
\* findValidPasswordResetTokenByHash.
ActiveSession(s) == session[s].user # Null /\ ~session[s].revoked /\ ~session[s].expired
ValidToken(t) == token[t].user # Null /\ ~token[t].consumed /\ ~token[t].expired

SessionsOf(a) == {s \in Request : session[s].user = a}

\* UPDATE sessions SET revoked_at = now() WHERE ... AND revoked_at IS NULL
Revoke(S) == session' = [s \in Request |->
                [session[s] EXCEPT !.revoked = @ \/ s \in S]]

Start(r, step, a, p, t) ==
    req' = [req EXCEPT ![r] = [Idle EXCEPT !.at = step, !.account = a,
                                           !.password = p, !.ref = t]]
Continue(r, step) == req' = [req EXCEPT ![r].at = step]
Answer(r) == req' = [req EXCEPT ![r] = Idle]

-----------------------------------------------------------------------------
(* POST /auth/register, POST /auth/login and the Google sign-ins: they end  *)
(* in createSession and a cookie.                                           *)

\* insertUser; users_email_unique refuses an address that has a row.
RegisterInsertUser(r, a, p) ==
    /\ Unused(r)
    /\ a \notin users
    /\ users' = users \cup {a}
    /\ hash' = [hash EXCEPT ![a] = p]
    /\ active' = active \cup {a}
    /\ Start(r, "insertSession", a, p, Null)
    /\ UNCHANGED <<session, token, cooldown, mailbox, cookies, failures, doomed>>

\* The row that findUserByEmail returns is a snapshot: the password and the
\* status are judged against it, whatever other handlers do meanwhile.
LoginFindUser(r, a, p) ==
    /\ Unused(r)
    /\ a \in users
    /\ hash[a] = p
    /\ a \in active
    /\ Start(r, "insertSession", a, p, Null)
    /\ UNCHANGED <<tables, cooldown, mailbox, cookies, failures, doomed>>

\* A Google identity resolves to an account, a new one if need be; neither its
\* password nor its status is looked at.
GoogleResolveUser(r, a) ==
    /\ Unused(r)
    /\ users' = users \cup {a}
    /\ active' = IF a \in users THEN active ELSE active \cup {a}
    /\ Start(r, "insertSession", a, Null, Null)
    /\ UNCHANGED <<hash, session, token, cooldown, mailbox, cookies,
                   failures, doomed>>

InsertSession(r) ==
    /\ req[r].at = "insertSession"
    /\ session' = [session EXCEPT ![r] = [NoSession EXCEPT !.user = req[r].account]]
    /\ Continue(r, "setCookie")
    /\ UNCHANGED <<users, hash, active, token, cooldown, mailbox, cookies, failures, doomed>>

\* publish never throws; the response then hands the raw token to the client.
ReplyWithCookie(r) ==
    /\ req[r].at = "setCookie"
    /\ cookies' = cookies \cup {r}
    /\ Answer(r)
    /\ UNCHANGED <<tables, cooldown, mailbox, failures, doomed>>

-----------------------------------------------------------------------------
(* POST /auth/password/reset/request                                        *)

ResetFindUser(r, a) ==
    /\ Unused(r)
    /\ a \in users
    /\ Start(r, "acquireCooldown", a, Null, Null)
    /\ UNCHANGED <<tables, cooldown, mailbox, cookies, failures, doomed>>

\* SET key 1 EX seconds NX: a request inside the cooldown is answered as if
\* it had been sent.
AcquireCooldown(r) ==
    /\ req[r].at = "acquireCooldown"
    /\ cooldown' = cooldown \cup {req[r].account}
    /\ IF req[r].account \in cooldown THEN Answer(r) ELSE Continue(r, "insertToken")
    /\ UNCHANGED <<tables, mailbox, cookies, failures, doomed>>

InsertToken(r) ==
    /\ req[r].at = "insertToken"
    /\ token' = [token EXCEPT ![r] = [NoToken EXCEPT !.user = req[r].account]]
    /\ Continue(r, "publishToken")
    /\ UNCHANGED <<users, hash, active, session, cooldown, mailbox, cookies,
                   failures, doomed>>

\* A notification that is not delivered is logged and forgotten.
PublishToken(r) ==
    /\ req[r].at = "publishToken"
    /\ mailbox' \in {mailbox, mailbox \cup {r}}
    /\ Answer(r)
    /\ UNCHANGED <<tables, cooldown, cookies, failures, doomed>>

-----------------------------------------------------------------------------
(* POST /auth/password/reset/confirm                                        *)

\* Mutant of ConfirmFindToken: the token is not consumed before the update.
ConfirmSkipsConsume(r, t, p) ==
    /\ req[r].at = "idle"
    /\ t \in mailbox
    /\ ValidToken(t)
    /\ Start(r, "updateHash", token[t].user, p, t)
    /\ UNCHANGED <<tables, cooldown, mailbox, cookies, failures, doomed>>

\* Validity is read here and acted upon three statements later.
ConfirmFindToken(r, t, p) ==
    /\ req[r].at = "idle"
    /\ t \in mailbox
    /\ ValidToken(t)
    /\ Start(r, "consumeToken", token[t].user, p, t)
    /\ UNCHANGED <<tables, cooldown, mailbox, cookies, failures, doomed>>

\* An unconditional UPDATE: it does not look at consumed_at again.
ConsumeToken(r) ==
    /\ req[r].at = "consumeToken"
    /\ token' = [token EXCEPT ![req[r].ref].consumed = TRUE]
    /\ Continue(r, "updateHash")
    /\ UNCHANGED <<users, hash, active, session, cooldown, mailbox, cookies,
                   failures, doomed>>

\* Mutant of UpdateHash: the handler answers without revoking the sessions.
UpdateHashAndAnswer(r) ==
    /\ req[r].at = "updateHash"
    /\ hash' = [hash EXCEPT ![req[r].account] = req[r].password]
    /\ Answer(r)
    /\ UNCHANGED <<users, active, session, token, cooldown, mailbox, cookies,
                   failures, doomed>>

\* prior remembers the sessions that exist when the password changes.
UpdateHash(r) ==
    /\ req[r].at = "updateHash"
    /\ hash' = [hash EXCEPT ![req[r].account] = req[r].password]
    /\ req' = [req EXCEPT ![r].at = "revokeAll", ![r].prior = SessionsOf(req[r].account)]
    /\ UNCHANGED <<users, active, session, token, cooldown, mailbox, cookies,
                   failures, doomed>>

\* Mutant of RevokeAll: it is given the token's id for the account's.
RevokeAllByToken(r) ==
    /\ req[r].at = "revokeAll"
    /\ Revoke({req[r].ref})
    /\ doomed' = doomed \cup req[r].prior
    /\ Answer(r)
    /\ UNCHANGED <<users, hash, active, token, cooldown, mailbox, cookies, failures>>

RevokeAll(r) ==
    /\ req[r].at = "revokeAll"
    /\ Revoke(SessionsOf(req[r].account))
    /\ doomed' = doomed \cup req[r].prior
    /\ Answer(r)
    /\ UNCHANGED <<users, hash, active, token, cooldown, mailbox, cookies, failures>>

-----------------------------------------------------------------------------
(* POST /auth/logout, and verifySessionToken: GET /auth/session,            *)
(* POST /internal/v1/sessions/verify, and every route behind requireSession *)

\* One statement; the slot is taken and given back within the step.
Logout(s) ==
    /\ s \in cookies
    /\ Revoke({s})
    /\ doomed' = doomed \cup {s}
    /\ UNCHANGED <<users, hash, active, token, cooldown, mailbox, cookies, req,
                   failures>>

\* Mutant of VerifyFindSession: expires_at > now() is missing.
VerifyFindExpired(r, s) ==
    /\ req[r].at = "idle"
    /\ s \in cookies
    /\ ~session[s].revoked
    /\ req' = [req EXCEPT ![r] = [at |-> "verifyUser", account |-> session[s].user,
                                  password |-> Null, ref |-> s, prior |-> doomed \cap {s}]]
    /\ UNCHANGED <<tables, cooldown, mailbox, cookies, failures, doomed>>

\* prior remembers whether the session's revocation was answered by then.
VerifyFindSession(r, s) ==
    /\ req[r].at = "idle"
    /\ s \in cookies
    /\ ActiveSession(s)
    /\ req' = [req EXCEPT ![r] = [at |-> "verifyUser", account |-> session[s].user,
                                  password |-> Null, ref |-> s, prior |-> doomed \cap {s}]]
    /\ UNCHANGED <<tables, cooldown, mailbox, cookies, failures, doomed>>

VerifyAccept(r) ==
    /\ req[r].at = "verifyUser"
    /\ req[r].account \in active
    /\ Answer(r)
    /\ UNCHANGED <<tables, cooldown, mailbox, cookies, failures, doomed>>

VerifyRefuse(r) ==
    /\ req[r].at = "verifyUser"
    /\ req[r].account \notin active
    /\ Answer(r)
    /\ UNCHANGED <<tables, cooldown, mailbox, cookies, failures, doomed>>

-----------------------------------------------------------------------------
(* The clock, operators and failures                                        *)

\* Time passes for a row only while that can still be observed.
ExpireSession(s) ==
    /\ ActiveSession(s)
    /\ session' = [session EXCEPT ![s].expired = TRUE]
    /\ UNCHANGED <<users, hash, active, token, cooldown, mailbox, cookies, req,
                   failures, doomed>>

ExpireToken(t) ==
    /\ ValidToken(t)
    /\ token' = [token EXCEPT ![t].expired = TRUE]
    /\ UNCHANGED <<users, hash, active, session, cooldown, mailbox, cookies, req,
                   failures, doomed>>

CooldownExpires(a) ==
    /\ a \in cooldown
    /\ cooldown' = cooldown \ {a}
    /\ UNCHANGED <<tables, mailbox, cookies, req, failures, doomed>>

\* Nothing in the service writes users.status once the row exists: an operator
\* locks, disables or reactivates an account.  LOCKED and DISABLED are refused
\* alike, with different answers.
SetStatus(a) ==
    /\ a \in users
    /\ active' \in {active \cup {a}, active \ {a}}
    /\ UNCHANGED <<users, hash, session, token, cooldown, mailbox, cookies, req,
                   failures, doomed>>

\* A statement of one handler fails (the client gets a 500), or the process
\* dies with every handler it was running.
Fail(R) ==
    /\ failures < MaxFailures
    /\ failures' = failures + 1
    /\ req' = [r \in Request |-> IF r \in R THEN Idle ELSE req[r]]
    /\ UNCHANGED <<tables, cooldown, mailbox, cookies, doomed>>

-----------------------------------------------------------------------------
\* What a handler in flight does next.
Handle(r) ==
    \/ InsertSession(r)
    \/ ReplyWithCookie(r)
    \/ AcquireCooldown(r)
    \/ InsertToken(r)
    \/ PublishToken(r)
    \/ ConsumeToken(r)
    \/ UpdateHash(r)
    \/ RevokeAll(r)
    \/ VerifyAccept(r)
    \/ VerifyRefuse(r)

\* What a client may ask for.
Receive(r) ==
    \/ \E a \in Account, p \in Password : RegisterInsertUser(r, a, p) \/ LoginFindUser(r, a, p)
    \/ \E a \in Account : GoogleResolveUser(r, a) \/ ResetFindUser(r, a)
    \/ \E t \in Request, p \in Password : ConfirmFindToken(r, t, p)
    \/ \E s \in Request : VerifyFindSession(r, s)

Environment ==
    \/ \E s \in Request : Logout(s) \/ ExpireSession(s) \/ ExpireToken(s)
    \/ \E a \in Account : CooldownExpires(a) \/ SetStatus(a)
    \/ \E R \in (SUBSET InFlight) \ {{}} : Fail(R)

Next == Environment \/ \E r \in Request : Handle(r) \/ Receive(r)

Spec == Init /\ [][Next]_vars

\* The event loop resumes a handler once the awaited reply is in, and the
\* stores answer every command: no handler waits for ever.
FairSpec == Spec /\ \A r \in Request : WF_vars(Handle(r))

-----------------------------------------------------------------------------
\* The types of the variables.
TypeOK ==
    /\ users \subseteq Account
    /\ hash \in [Account -> Password \cup {Null}]
    /\ active \subseteq users
    /\ session \in [Request -> SessionRow]
    /\ token \in [Request -> TokenRow]
    /\ cooldown \subseteq Account
    /\ mailbox \subseteq Request
    /\ cookies \subseteq Request
    /\ req \in [Request -> Handler]
    /\ failures \in 0..MaxFailures
    /\ doomed \subseteq Request

\* What a handler in flight may rely on between its statements: the row it is
\* about to insert does not exist, the account it read still does, the token
\* it is spending is the account's own, reached the owner and is consumed
\* before the password changes, and the sessions it will answer for belong to
\* the account.  A verification's session is the account's, and had not been
\* revoked when it began.
HandlersAgreeWithRows ==
    \A r \in Request :
        /\ req[r].at = "insertSession" => session[r].user = Null
        /\ req[r].at \in {"insertToken", "acquireCooldown"} => token[r].user = Null
        /\ req[r].at \notin {"idle", "setCookie", "publishToken"} => req[r].account \in users
        /\ req[r].at \in {"consumeToken", "updateHash"} =>
              req[r].ref \in mailbox /\ token[req[r].ref].user = req[r].account
        /\ req[r].at = "updateHash" => token[req[r].ref].consumed
        /\ req[r].at = "revokeAll" => req[r].prior \subseteq SessionsOf(req[r].account)
        /\ req[r].at = "verifyUser" =>
              /\ req[r].ref # Null
              /\ session[req[r].ref].user = req[r].account
              /\ req[r].prior = {}

\* A revocation that has been answered (204 to a logout, { reset: true } to a
\* reset confirm) holds: the session it names, and after a reset each session
\* that existed when the password changed, is revoked and stays so whatever
\* runs concurrently (logout.ts, passwordResetConfirm.ts:36-44).
AnsweredRevocationsHold ==
    \A s \in doomed : session[s].user # Null /\ session[s].revoked

\* A verification that begins after a session's revocation was answered never
\* accepts that session, although it reads the session and the user in two
\* statements (sessionService.ts:37-49).
RevokedStaysOut ==
    [][\A r \in Request : VerifyAccept(r) => req[r].prior = {}]_vars

\* Sessions are what SessionRegister promises, although opening, ending and
\* verifying them takes several statements of handlers that interleave; in
\* particular a verification accepts only as that register would
\* (sessions.ts:17-42, sessionService.ts:37-49).
Register == INSTANCE SessionRegister WITH
    Session <- Request, Verifier <- Request, None <- Null,
    owner <- [s \in Request |-> session[s].user],
    valid <- {s \in Request : ActiveSession(s)},
    enabled <- active,
    lookedUp <- [r \in Request |-> IF req[r].at = "verifyUser" THEN req[r].ref ELSE Null],
    ended <- doomed
SessionsAreARegister ==
    /\ Register!Spec
    /\ [][\A r \in Request : VerifyAccept(r) => Register!Accept(r)]_vars

\* The password of an existing account changes only by the authority of a
\* reset token of that very account that reached its owner and is already
\* spent (passwordResetConfirm.ts:25-37): a crash between the two statements
\* leaves a spent token, never a reusable one.
PasswordChangeAuthorised ==
    [][\A a \in users : hash'[a] # hash[a] =>
          \E t \in mailbox : token[t].user = a /\ token[t].consumed]_vars

\* Once a reset is about to change the password, every session that the
\* account has by then is eventually revoked, unless something fails
\* (passwordResetConfirm.ts:37-42).
ResetReachesEverySession ==
    \A r, s \in Request :
        (req[r].at = "updateHash" /\ session[s].user = req[r].account)
            ~> (session[s].revoked \/ failures > 0)

-----------------------------------------------------------------------------
(* What the repository says and the interleavings of the handlers refute.   *)

Resetting(a) == \E r \in Request : req[r].at = "revokeAll" /\ req[r].account = a

\* passwordResetConfirm.ts:39-40, "revoke every existing session so a
\* credential compromise doesn't survive the password change": with no reset
\* half way, a password opens a session only while it is the current one.
\* Refuted: a login that has checked the old password inserts its session
\* after the reset has revoked the others.
OldPasswordOpensNothing ==
    [][\A r \in Request : InsertSession(r) /\ req[r].password # Null =>
          \/ hash[req[r].account] = req[r].password
          \/ Resetting(req[r].account)]_vars

\* README.md:323-324, "consumed_at (single-use)": one token never serves two
\* confirms.  Refuted: both find it valid before either consumes it.
ResetTokenIsSingleUse ==
    \A r, q \in Request : req[r].ref = req[q].ref /\ r # q =>
        ~({req[r].at, req[q].at} \subseteq {"updateHash", "revokeAll"})

=============================================================================
