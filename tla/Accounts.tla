------------------------------ MODULE Accounts ------------------------------
(***************************************************************************)
(* How accounts come to be, get linked to Google identities and have their *)
(* email address verified: POST /auth/register, the two Google sign-ins,   *)
(* POST /auth/email/verify and /email/resend, with the notifications they  *)
(* publish.  A handler is a sequence of steps, one per awaited statement,  *)
(* command or notification.                                                *)
(*                                                                         *)
(* A Request is the slot a handler runs in; it names the token and the     *)
(* session the handler inserts.  A slot that has inserted or published     *)
(* something starts no handler that would do so again.                     *)
(***************************************************************************)
EXTENDS Integers, FiniteSets

CONSTANTS
    Email,       \* addresses, each the key of at most one users row
    Subject,     \* Google's identifiers of its users
    Request,     \* handler slots
    Null,        \* no row
    MaxFailures  \* bound: failures and crashes

ASSUME NullAssumption == Null \notin Email \cup Subject \cup Request
ASSUME MaxFailuresAssumption == MaxFailures \in Nat

VARIABLES
    users,       \* addresses that have a users row
    verified,    \* those whose email_verified_at is set
    identity,    \* oauth_identities: the account of each Google subject
    token,       \* email_verification_tokens, by the request that inserted it
    session,     \* the account of the session each request has created
    cooldown,    \* accounts whose cooldown:email-resend key exists
    mailbox,     \* tokens that reached the address
    published,   \* AccountCreated and AuthLogin events
    req,         \* handlers in flight
    failures,
    vouched      \* history: addresses that Google has reported as verified

rows == <<users, verified, identity, token, session>>
vars == <<rows, cooldown, mailbox, published, req, failures, vouched>>

TokenRow == [user : Email \cup {Null}, consumed : BOOLEAN, expired : BOOLEAN]
NoToken == [user |-> Null, consumed |-> FALSE, expired |-> FALSE]
Event == [type : {"AccountCreated", "AuthLogin"}, method : {"password", "google"},
          account : Email, by : Request]
Step == {"idle", "insertToken", "publishToken", "publishCreated", "acquireCooldown",
         "consumeToken", "markVerified", "findByEmail", "insertUser", "link",
         "linkMark", "insertSession", "publishEvent"}
Flow == {"none", "register", "resend", "verify", "google"}
Handler == [at : Step, flow : Flow, email : Email \cup {Null},
            subject : Subject \cup {Null}, isNew : BOOLEAN, ref : Request \cup {Null}]
Idle == [at |-> "idle", flow |-> "none", email |-> Null, subject |-> Null,
         isNew |-> FALSE, ref |-> Null]

Init ==
    /\ users = {}
    /\ verified = {}
    /\ identity = [s \in Subject |-> Null]
    /\ token = [r \in Request |-> NoToken]
    /\ session = [r \in Request |-> Null]
    /\ cooldown = {}
    /\ mailbox = {}
    /\ published = {}
    /\ req = [r \in Request |-> Idle]
    /\ failures = 0
    /\ vouched = {}

InFlight == {r \in Request : req[r].at # "idle"}
Unused(r) == /\ req[r].at = "idle"
             /\ token[r].user = Null
             /\ session[r] = Null
             /\ \A event \in published : event.by # r

ValidToken(t) == token[t].user # Null /\ ~token[t].consumed /\ ~token[t].expired

Start(r, flow, step, e) ==
    req' = [req EXCEPT ![r] = [Idle EXCEPT !.at = step, !.flow = flow, !.email = e]]
Continue(r, step) == req' = [req EXCEPT ![r].at = step]
Answer(r) == req' = [req EXCEPT ![r] = Idle]

Publish(r, type, method) ==
    published' = published \cup
        {[type |-> type, method |-> method, account |-> req[r].email, by |-> r]}

-----------------------------------------------------------------------------
(* POST /auth/register                                                      *)

\* insertUser, refused by users_email_unique if the address has a row.
RegisterInsertUser(r, e) ==
    /\ Unused(r)
    /\ e \notin users
    /\ users' = users \cup {e}
    /\ Start(r, "register", "insertToken", e)
    /\ UNCHANGED <<verified, identity, token, session, cooldown, mailbox, published,
                   failures, vouched>>

\* Registration and POST /auth/email/resend.
InsertToken(r) ==
    /\ req[r].at = "insertToken"
    /\ token' = [token EXCEPT ![r] = [NoToken EXCEPT !.user = req[r].email]]
    /\ Continue(r, "publishToken")
    /\ UNCHANGED <<users, verified, identity, session, cooldown, mailbox, published,
                   failures, vouched>>

\* publish never throws, whether or not the notification is delivered.
PublishToken(r) ==
    /\ req[r].at = "publishToken"
    /\ mailbox' \in {mailbox, mailbox \cup {r}}
    /\ IF req[r].flow = "register" THEN Continue(r, "publishCreated") ELSE Answer(r)
    /\ UNCHANGED <<rows, cooldown, published, failures, vouched>>

RegisterPublishCreated(r) ==
    /\ req[r].at = "publishCreated"
    /\ Publish(r, "AccountCreated", "password")
    /\ Continue(r, "insertSession")
    /\ UNCHANGED <<rows, cooldown, mailbox, failures, vouched>>

\* createSession: the last statement of a registration; a Google sign-in goes
\* on to publish its event.
InsertSession(r) ==
    /\ req[r].at = "insertSession"
    /\ session' = [session EXCEPT ![r] = req[r].email]
    /\ IF req[r].flow = "google" THEN Continue(r, "publishEvent") ELSE Answer(r)
    /\ UNCHANGED <<users, verified, identity, token, cooldown, mailbox, published,
                   failures, vouched>>

-----------------------------------------------------------------------------
(* POST /auth/google and GET /auth/google/callback, from the moment Google's *)
(* claims are verified: subject s, address e, email_verified v.             *)

\* Mutant of GoogleFindIdentity: an address Google does not vouch for is used.
GoogleFindIdentityUnverified(r, s, e, v) ==
    /\ Unused(r)
    /\ vouched' = IF v THEN vouched \cup {e} ELSE vouched
    /\ req' = [req EXCEPT ![r] =
            [Idle EXCEPT !.flow = "google", !.subject = s,
                         !.at = IF identity[s] = Null THEN "findByEmail" ELSE "insertSession",
                         !.email = IF identity[s] = Null THEN e ELSE identity[s]]]
    /\ UNCHANGED <<rows, cooldown, mailbox, published, failures>>

\* A linked subject signs in to its account; any other must have a verified
\* address.
GoogleFindIdentity(r, s, e, v) ==
    /\ Unused(r)
    /\ identity[s] # Null \/ v
    /\ vouched' = IF v THEN vouched \cup {e} ELSE vouched
    /\ req' = [req EXCEPT ![r] =
            [Idle EXCEPT !.flow = "google", !.subject = s,
                         !.at = IF identity[s] = Null THEN "findByEmail" ELSE "insertSession",
                         !.email = IF identity[s] = Null THEN e ELSE identity[s]]]
    /\ UNCHANGED <<rows, cooldown, mailbox, published, failures>>

\* Mutant of GoogleFindByEmail: an account whose address is verified is entered
\* without a link.
GoogleFindByEmailSkipsLink(r) ==
    /\ req[r].at = "findByEmail"
    /\ Continue(r, IF req[r].email \notin users THEN "insertUser"
                   ELSE IF req[r].email \in verified THEN "insertSession" ELSE "linkMark")
    /\ UNCHANGED <<rows, cooldown, mailbox, published, failures, vouched>>

\* Whether the address still has to be marked is judged by the row found here.
GoogleFindByEmail(r) ==
    /\ req[r].at = "findByEmail"
    /\ Continue(r, IF req[r].email \notin users THEN "insertUser"
                   ELSE IF req[r].email \in verified THEN "link" ELSE "linkMark")
    /\ UNCHANGED <<rows, cooldown, mailbox, published, failures, vouched>>

\* users_email_unique: an address registered meanwhile makes it a 500.
GoogleInsertUser(r) ==
    /\ req[r].at = "insertUser"
    /\ IF req[r].email \in users
       THEN Answer(r) /\ UNCHANGED <<users, verified>>
       ELSE /\ users' = users \cup {req[r].email}
            /\ verified' = verified \cup {req[r].email}
            /\ req' = [req EXCEPT ![r].at = "link", ![r].isNew = TRUE]
    /\ UNCHANGED <<identity, token, session, cooldown, mailbox, published, failures, vouched>>

\* Mutant of GoogleLink: the address is not marked after linking.
GoogleLinkOnly(r) ==
    /\ req[r].at \in {"link", "linkMark"}
    /\ IF identity[req[r].subject] # Null
       THEN Answer(r) /\ UNCHANGED identity
       ELSE /\ identity' = [identity EXCEPT ![req[r].subject] = req[r].email]
            /\ Continue(r, "insertSession")
    /\ UNCHANGED <<users, verified, token, session, cooldown, mailbox, published,
                   failures, vouched>>

\* insertOAuthIdentity; a subject linked meanwhile makes it a 500.
GoogleLink(r) ==
    /\ req[r].at \in {"link", "linkMark"}
    /\ IF identity[req[r].subject] # Null
       THEN Answer(r) /\ UNCHANGED identity
       ELSE /\ identity' = [identity EXCEPT ![req[r].subject] = req[r].email]
            /\ Continue(r, IF req[r].at = "link" THEN "insertSession" ELSE "markVerified")
    /\ UNCHANGED <<users, verified, token, session, cooldown, mailbox, published,
                   failures, vouched>>

\* Mutant of GooglePublish: a new account's first sign-in is announced twice.
GooglePublishBoth(r) ==
    /\ req[r].at = "publishEvent"
    /\ published' = published \cup
            {[type |-> t, method |-> "google", account |-> req[r].email, by |-> r] :
                t \in IF req[r].isNew THEN {"AccountCreated", "AuthLogin"} ELSE {"AuthLogin"}}
    /\ Answer(r)
    /\ UNCHANGED <<rows, cooldown, mailbox, failures, vouched>>

\* Mutant of GooglePublish: every sign-in counts as a new account.
GooglePublishCreated(r) ==
    /\ req[r].at = "publishEvent"
    /\ Publish(r, "AccountCreated", "google")
    /\ Answer(r)
    /\ UNCHANGED <<rows, cooldown, mailbox, failures, vouched>>

GooglePublish(r) ==
    /\ req[r].at = "publishEvent"
    /\ Publish(r, IF req[r].isNew THEN "AccountCreated" ELSE "AuthLogin", "google")
    /\ Answer(r)
    /\ UNCHANGED <<rows, cooldown, mailbox, failures, vouched>>

-----------------------------------------------------------------------------
(* POST /auth/email/verify and POST /auth/email/resend                      *)

VerifyFindToken(r, t) ==
    /\ req[r].at = "idle"
    /\ t \in mailbox
    /\ ValidToken(t)
    /\ req' = [req EXCEPT ![r] = [Idle EXCEPT !.at = "consumeToken", !.flow = "verify",
                                              !.email = token[t].user, !.ref = t]]
    /\ UNCHANGED <<rows, cooldown, mailbox, published, failures, vouched>>

ConsumeToken(r) ==
    /\ req[r].at = "consumeToken"
    /\ token' = [token EXCEPT ![req[r].ref].consumed = TRUE]
    /\ Continue(r, "markVerified")
    /\ UNCHANGED <<users, verified, identity, session, cooldown, mailbox, published,
                   failures, vouched>>

\* markEmailVerified, after a token or after linking a Google identity.
MarkVerified(r) ==
    /\ req[r].at = "markVerified"
    /\ verified' = verified \cup {req[r].email}
    /\ IF req[r].flow = "google" THEN Continue(r, "insertSession") ELSE Answer(r)
    /\ UNCHANGED <<users, identity, token, session, cooldown, mailbox, published,
                   failures, vouched>>

ResendFindUser(r, e) ==
    /\ Unused(r)
    /\ e \in users \ verified
    /\ Start(r, "resend", "acquireCooldown", e)
    /\ UNCHANGED <<rows, cooldown, mailbox, published, failures, vouched>>

AcquireCooldown(r) ==
    /\ req[r].at = "acquireCooldown"
    /\ cooldown' = cooldown \cup {req[r].email}
    /\ IF req[r].email \in cooldown THEN Answer(r) ELSE Continue(r, "insertToken")
    /\ UNCHANGED <<rows, mailbox, published, failures, vouched>>

-----------------------------------------------------------------------------
ExpireToken(t) ==
    /\ ValidToken(t)
    /\ token' = [token EXCEPT ![t].expired = TRUE]
    /\ UNCHANGED <<users, verified, identity, session, cooldown, mailbox, published, req,
                   failures, vouched>>

CooldownExpires(e) ==
    /\ e \in cooldown
    /\ cooldown' = cooldown \ {e}
    /\ UNCHANGED <<rows, mailbox, published, req, failures, vouched>>

\* A statement of one handler fails, or the process dies with all of its own.
Fail(R) ==
    /\ failures < MaxFailures
    /\ failures' = failures + 1
    /\ req' = [r \in Request |-> IF r \in R THEN Idle ELSE req[r]]
    /\ UNCHANGED <<rows, cooldown, mailbox, published, vouched>>

Handle(r) ==
    \/ InsertToken(r)
    \/ PublishToken(r)
    \/ RegisterPublishCreated(r)
    \/ InsertSession(r)
    \/ GoogleFindByEmail(r)
    \/ GoogleInsertUser(r)
    \/ GoogleLink(r)
    \/ GooglePublish(r)
    \/ ConsumeToken(r)
    \/ MarkVerified(r)
    \/ AcquireCooldown(r)

Receive(r) ==
    \/ \E e \in Email : RegisterInsertUser(r, e) \/ ResendFindUser(r, e)
    \/ \E s \in Subject, e \in Email, v \in BOOLEAN : GoogleFindIdentity(r, s, e, v)
    \/ \E t \in Request : VerifyFindToken(r, t)

Next ==
    \/ \E r \in Request : Handle(r) \/ Receive(r) \/ ExpireToken(r)
    \/ \E e \in Email : CooldownExpires(e)
    \/ \E R \in (SUBSET InFlight) \ {{}} : Fail(R)

Spec == Init /\ [][Next]_vars

-----------------------------------------------------------------------------
\* The types of the variables.
TypeOK ==
    /\ users \subseteq Email
    /\ verified \subseteq users
    /\ identity \in [Subject -> Email \cup {Null}]
    /\ token \in [Request -> TokenRow]
    /\ session \in [Request -> Email \cup {Null}]
    /\ cooldown \subseteq users
    /\ mailbox \subseteq Request
    /\ published \subseteq Event
    /\ req \in [Request -> Handler]
    /\ failures \in 0..MaxFailures
    /\ vouched \subseteq Email

Created(e) == {event \in published : event.type = "AccountCreated" /\ event.account = e}

\* No account is announced as new twice, however its creators race
\* (events.ts:70-72).
WelcomedAtMostOnce == \A e \in Email : Cardinality(Created(e)) <= 1

\* An address is marked verified only on proof: a token that reached it and has
\* been spent, or Google's word for it (emailVerify.ts:26-27,
\* googleIdentityService.ts:40-58).
VerifiedOnProof ==
    \A e \in verified :
        \/ e \in vouched
        \/ \E t \in mailbox : token[t].user = e /\ token[t].consumed

\* Linking a Google identity leaves the address verified, once the handler that
\* linked it is through and unless something failed
\* (googleIdentityService.ts:50-57).
LinkedIsVerified ==
    \A s \in Subject : identity[s] # Null =>
        \/ identity[s] \in verified
        \/ \E r \in Request : req[r].at = "markVerified" /\ req[r].email = identity[s]
        \/ failures > 0

\* A sign-in announces at most one thing, a new account or a login, and a Google
\* sign-in announces either only when the session it opened for that account
\* exists (googleCallback.ts:48-50, googleAuthenticate.ts:49-52).
OneEventPerSignIn ==
    \A event \in published :
        /\ event.method = "google" => session[event.by] = event.account
        /\ \A other \in published : other.by = event.by => other = event

\* Accounts are what AccountDirectory promises, although creating, linking,
\* verifying, entering and announcing one takes several statements of handlers
\* that race: a session opened for a Google identity is for the account that
\* identity is linked to at that moment, and each announcement of a new account
\* is its first (googleIdentityService.ts:26-76, register.ts:59-100).
Directory == INSTANCE AccountDirectory WITH
    Account <- Email, Identity <- Subject, Visit <- Request, None <- Null,
    accounts <- users,
    evidence <- {e \in Email : \/ e \in vouched
                               \/ \E t \in mailbox : token[t].user = e /\ token[t].consumed},
    proven <- verified,
    owner <- identity,
    entered <- session,
    welcomed <- {e \in Email : Created(e) # {}}
EntersAsLinked(r) ==
    InsertSession(r) /\ req[r].flow = "google" => Directory!EnterAs(r, req[r].subject)
WelcomesFirst(r) ==
    RegisterPublishCreated(r) \/ (GooglePublish(r) /\ req[r].isNew) =>
        Directory!Welcome(req[r].email)
AccountsAreADirectory ==
    Directory!Spec /\ [][\A r \in Request : EntersAsLinked(r) /\ WelcomesFirst(r)]_vars

-----------------------------------------------------------------------------
(* What the documentation says and interleavings or failures refute.        *)

Busy(e) == \E r \in Request : req[r].email = e

\* events.ts:70, "Published exactly once per account".  Refuted: of two first
\* sign-ins with one Google identity, the second links the row the first has
\* inserted and signs in to an "existing" account; the first then fails to link
\* it and answers 500, so nobody announces the account.
WelcomedExactlyOnce == \A e \in users : Busy(e) \/ Cardinality(Created(e)) = 1

\* README.md:428, "mark the account's email verified if it wasn't already".
\* Refuted: after a failure between linking and marking, later sign-ins find the
\* link and never mark the address.
LinkingVerifies ==
    \A s \in Subject : identity[s] # Null => identity[s] \in verified \/ Busy(identity[s])

\* README.md:260-261, events are published "at the exact point each operation
\* has actually succeeded (session created), never earlier".  Refuted: a
\* registration announces the account before it creates the session.
EventsFollowSessions == \A event \in published : session[event.by] = event.account

=============================================================================
