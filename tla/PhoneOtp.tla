------------------------------ MODULE PhoneOtp ------------------------------
(***************************************************************************)
(* Phone verification: POST /auth/phone/otp/request puts a one-time code   *)
(* in Redis and sends it, POST /auth/phone/otp/verify checks it with one   *)
(* Lua script and marks the number verified.  Handlers are sequences of    *)
(* steps, one per awaited statement or command.  A request slot names the  *)
(* code its handler generates, so a slot that has stored a code starts no  *)
(* other request.                                                          *)
(*                                                                         *)
(* Time is counted in quarters of a second, because the script reads TTL,  *)
(* which Redis rounds to the nearest second: (ms + 500) / 1000.            *)
(***************************************************************************)
EXTENDS Integers, FiniteSets

CONSTANTS
    User,         \* users rows
    Phone,        \* numbers
    Request,      \* handler slots, and the codes their handlers generate
    Null,         \* SQL NULL, a missing key
    WrongCode,    \* a guess that is nobody's code
    OtpTtl,       \* OTP_TTL_SECONDS
    Cooldown,     \* OTP_RESEND_COOLDOWN_SECONDS
    MaxAttempts,  \* OTP_MAX_ATTEMPTS
    MaxFailures   \* bound: failures, crashes and lost replies

ASSUME NullAssumption == {Null, WrongCode} \cap (User \cup Phone \cup Request) = {}
ASSUME SettingsAssumption ==
    /\ OtpTtl \in Nat \ {0} /\ Cooldown \in Nat \ {0}
    /\ MaxAttempts \in Nat \ {0} /\ MaxFailures \in Nat

VARIABLES
    phone,      \* users.phone
    verified,   \* accounts whose users.phone_verified_at is set
    challenge,  \* otp:phone:challenge:<user>, Null when there is no key
    cooldown,   \* quarters left of cooldown:otp-request:<user>
    req,        \* handlers in flight
    failures,
    issued,     \* history: codes that have been stored
    told,       \* history: codes that have been sent to their users
    wrong,      \* history: guesses counted against each code since it was stored
    spent       \* history: codes that have been matched

vars == <<phone, verified, challenge, cooldown, req, failures, issued, told, wrong, spent>>

Second == 4
Persistent == -1
\* The TTL command, for a key with q quarters left.
TtlSeconds(q) == (q + 2) \div Second
\* However often the time left is rounded up, no challenge is older than this.
MaxLife == Second * OtpTtl + 2 * (MaxAttempts - 1)

Challenge == [code : Request, phone : Phone, attempts : 0..(MaxAttempts - 1),
              ttl : {Persistent} \cup 1..MaxLife, age : 0..MaxLife]
ASSUME ChallengeAssumption == Null \notin Challenge
Handler == [at : {"idle", "checkOwner", "acquireCooldown", "storeChallenge",
                  "evalScript", "markVerified"},
            user : User \cup {Null}, phone : Phone \cup {Null},
            code : Request \cup {Null, WrongCode}]
Idle == [at |-> "idle", user |-> Null, phone |-> Null, code |-> Null]

\* users_phone_unique
Unique(f) == \A u, w \in User : f[u] = f[w] /\ f[u] # Null => u = w

Init ==
    /\ phone \in [User -> Phone \cup {Null}] /\ Unique(phone)
    /\ verified = {}
    /\ challenge = [u \in User |-> Null]
    /\ cooldown = [u \in User |-> 0]
    /\ req = [r \in Request |-> Idle]
    /\ failures = 0
    /\ issued = {}
    /\ told = {}
    /\ wrong = [c \in Request |-> 0]
    /\ spent = {}

InFlight == {r \in Request : req[r].at # "idle"}
Answer(r) == req' = [req EXCEPT ![r] = Idle]
Continue(r, step) == req' = [req EXCEPT ![r].at = step]
Pending(r) == challenge[req[r].user]

-----------------------------------------------------------------------------
(* POST /auth/phone/otp/request                                             *)

\* Mutant of RequestOtp: the number is the client's, not the account's.
RequestOtpForAnyPhone(r, u) ==
    /\ req[r].at = "idle" /\ r \notin issued
    /\ u \notin verified
    /\ \E p \in Phone : req' = [req EXCEPT ![r] =
            [at |-> "checkOwner", user |-> u, phone |-> p, code |-> Null]]
    /\ UNCHANGED <<phone, verified, challenge, cooldown, failures, issued, told, wrong, spent>>

\* requireSession returns a snapshot of the user's row; the number in it is
\* the one the code will go to.
RequestOtp(r, u) ==
    /\ req[r].at = "idle" /\ r \notin issued
    /\ u \notin verified
    /\ phone[u] # Null
    /\ req' = [req EXCEPT ![r] = [at |-> "checkOwner", user |-> u, phone |-> phone[u],
                                  code |-> Null]]
    /\ UNCHANGED <<phone, verified, challenge, cooldown, failures, issued, told, wrong, spent>>

\* A number that another account has verified is refused.
CheckOwner(r) ==
    /\ req[r].at = "checkOwner"
    /\ IF \E u \in verified \ {req[r].user} : phone[u] = req[r].phone
       THEN Answer(r)
       ELSE Continue(r, "acquireCooldown")
    /\ UNCHANGED <<phone, verified, challenge, cooldown, failures, issued, told, wrong, spent>>

\* SET key 1 EX seconds NX
AcquireCooldown(r) ==
    /\ req[r].at = "acquireCooldown"
    /\ IF cooldown[req[r].user] > 0
       THEN Answer(r) /\ UNCHANGED cooldown
       ELSE /\ Continue(r, "storeChallenge")
            /\ cooldown' = [cooldown EXCEPT ![req[r].user] = Second * Cooldown]
    /\ UNCHANGED <<phone, verified, challenge, failures, issued, told, wrong, spent>>

\* The connection breaks after SET: the client sends it again and finds the key.
CooldownReplyLost(r) ==
    /\ req[r].at = "acquireCooldown"
    /\ cooldown[req[r].user] = 0
    /\ cooldown' = [cooldown EXCEPT ![req[r].user] = Second * Cooldown]
    /\ failures < MaxFailures
    /\ failures' = failures + 1
    /\ UNCHANGED <<phone, verified, challenge, req, issued, told, wrong, spent>>

\* SET key payload EX seconds: a fresh code overwrites the user's challenge,
\* whatever its state.
Store(r) ==
    /\ req[r].at = "storeChallenge"
    /\ challenge' = [challenge EXCEPT ![req[r].user] =
            [code |-> r, phone |-> req[r].phone, attempts |-> 0,
             ttl |-> Second * OtpTtl, age |-> 0]]
    /\ issued' = issued \cup {r}
    /\ wrong' = [wrong EXCEPT ![r] = 0]

\* The reply arrives and the code is sent; the notification that carries it
\* never fails the request.
StoreChallenge(r) ==
    /\ Store(r)
    /\ told' = told \cup {r}
    /\ Answer(r)
    /\ UNCHANGED <<phone, verified, cooldown, failures, spent>>

\* Mutant of StoreReplyLost: the code is sent before the reply to the SET is in.
StoreReplyLostTold(r) ==
    /\ Store(r)
    /\ failures < MaxFailures
    /\ failures' = failures + 1
    /\ told' = told \cup {r}
    /\ UNCHANGED <<phone, verified, cooldown, req, spent>>

\* The connection breaks after SET: the client sends it again, and whatever has
\* been done to the challenge is undone.
StoreReplyLost(r) ==
    /\ Store(r)
    /\ failures < MaxFailures
    /\ failures' = failures + 1
    /\ UNCHANGED <<phone, verified, cooldown, req, told, spent>>

-----------------------------------------------------------------------------
(* POST /auth/phone/otp/verify                                              *)

\* The session's user submits a code: one that somebody has been told, maybe
\* another user, or a wrong one.  The account may be verified already.
SubmitOtp(r, u, guess) ==
    /\ req[r].at = "idle"
    /\ req' = [req EXCEPT ![r] = [at |-> "evalScript", user |-> u, phone |-> Null,
                                  code |-> guess]]
    /\ UNCHANGED <<phone, verified, challenge, cooldown, failures, issued, told, wrong, spent>>

\* VERIFY_OTP_SCRIPT, which Redis runs atomically, and its four outcomes.
EvalNotFound(r) ==
    /\ req[r].at = "evalScript"
    /\ Pending(r) = Null
    /\ Answer(r)
    /\ UNCHANGED <<phone, verified, challenge, cooldown, failures, issued, told, wrong, spent>>

\* Mutant of ScriptMatch: the challenge is left in Redis.
ScriptMatchWithoutDel(r) ==
    /\ req[r].at = "evalScript"
    /\ Pending(r) # Null
    /\ Pending(r).code = req[r].code
    /\ spent' = spent \cup {req[r].code}
    /\ UNCHANGED <<phone, verified, challenge, cooldown, issued, told, wrong>>

ScriptMatch(r) ==
    /\ req[r].at = "evalScript"
    /\ Pending(r) # Null
    /\ Pending(r).code = req[r].code
    /\ challenge' = [challenge EXCEPT ![req[r].user] = Null]
    /\ spent' = spent \cup {req[r].code}
    /\ UNCHANGED <<phone, verified, cooldown, issued, told, wrong>>

\* A guess that does not match is counted against the challenge.
Mismatch(r) ==
    /\ req[r].at = "evalScript"
    /\ Pending(r) # Null
    /\ Pending(r).code # req[r].code
    /\ wrong' = [wrong EXCEPT ![Pending(r).code] = @ + 1]
    /\ UNCHANGED <<phone, verified, cooldown, issued, told, spent>>

ScriptExceeded(r) ==
    /\ Mismatch(r)
    /\ Pending(r).attempts + 1 >= MaxAttempts
    /\ challenge' = [challenge EXCEPT ![req[r].user] = Null]

\* Mutant of Rewritten: the count of attempts is not written back.
RewrittenUncounted(c) ==
    LET ttl == IF c.ttl = Persistent THEN 0 ELSE TtlSeconds(c.ttl)
    IN  [c EXCEPT !.ttl = IF ttl > 0 THEN Second * ttl ELSE Persistent]

\* Mutant of Rewritten: a wrong guess renews the challenge.
RewrittenAfresh(c) == [c EXCEPT !.attempts = @ + 1, !.ttl = Second * OtpTtl]

\* The challenge the script writes back: it lives for the whole seconds that
\* TTL answered, or for ever when TTL answered none.
Rewritten(c) ==
    LET ttl == IF c.ttl = Persistent THEN 0 ELSE TtlSeconds(c.ttl)
    IN  [c EXCEPT !.attempts = @ + 1,
                  !.ttl = IF ttl > 0 THEN Second * ttl ELSE Persistent]

\* Mutant of ScriptInvalid: one wrong guess too many leaves the challenge alive.
ScriptInvalidOneMore(r) ==
    /\ Mismatch(r)
    /\ Pending(r).attempts + 1 <= MaxAttempts
    /\ challenge' = [challenge EXCEPT ![req[r].user] = Rewritten(@)]

ScriptInvalid(r) ==
    /\ Mismatch(r)
    /\ Pending(r).attempts + 1 < MaxAttempts
    /\ challenge' = [challenge EXCEPT ![req[r].user] = Rewritten(@)]

\* The script's reply arrives.
EvalMatch(r) ==
    /\ ScriptMatch(r)
    /\ req' = [req EXCEPT ![r].at = "markVerified", ![r].phone = Pending(r).phone]
    /\ UNCHANGED failures

EvalMismatch(r) ==
    /\ ScriptExceeded(r) \/ ScriptInvalid(r)
    /\ Answer(r)
    /\ UNCHANGED failures

\* The connection breaks after the script has run: the client sends it again.
EvalReplyLost(r) ==
    /\ ScriptMatch(r) \/ ScriptExceeded(r) \/ ScriptInvalid(r)
    /\ failures < MaxFailures
    /\ failures' = failures + 1
    /\ UNCHANGED req

\* UPDATE users SET phone, phone_verified_at; users_phone_unique refuses a
\* number that another row has.
MarkVerified(r) ==
    /\ req[r].at = "markVerified"
    /\ LET u == req[r].user
           f == [phone EXCEPT ![u] = req[r].phone]
       IN  IF Unique(f) THEN phone' = f /\ verified' = verified \cup {u}
                        ELSE UNCHANGED <<phone, verified>>
    /\ Answer(r)
    /\ UNCHANGED <<challenge, cooldown, failures, issued, told, wrong, spent>>

-----------------------------------------------------------------------------
\* A quarter of a second passes; Redis drops what has no time left.
Aged(c) == IF c = Null \/ c.ttl = 1 THEN Null
           ELSE IF c.ttl = Persistent THEN c
           ELSE [c EXCEPT !.ttl = @ - 1, !.age = @ + 1]

Tick ==
    /\ \E u \in User : cooldown[u] > 0 \/ challenge[u] # Aged(challenge[u])
    /\ challenge' = [u \in User |-> Aged(challenge[u])]
    /\ cooldown' = [u \in User |-> IF cooldown[u] > 0 THEN cooldown[u] - 1 ELSE 0]
    /\ UNCHANGED <<phone, verified, req, failures, issued, told, wrong, spent>>

\* A command of one handler fails, or the process dies with all of its own.
Fail(R) ==
    /\ failures < MaxFailures
    /\ failures' = failures + 1
    /\ req' = [r \in Request |-> IF r \in R THEN Idle ELSE req[r]]
    /\ UNCHANGED <<phone, verified, challenge, cooldown, issued, told, wrong, spent>>

Eval(r) == EvalNotFound(r) \/ EvalMatch(r) \/ EvalMismatch(r)
ReplyLost(r) == CooldownReplyLost(r) \/ StoreReplyLost(r) \/ EvalReplyLost(r)

Handle(r) == CheckOwner(r) \/ AcquireCooldown(r) \/ StoreChallenge(r) \/ Eval(r) \/ MarkVerified(r)

Next ==
    \/ \E r \in Request : Handle(r) \/ ReplyLost(r)
    \/ \E r \in Request, u \in User : RequestOtp(r, u)
    \/ \E r \in Request, u \in User, guess \in told \cup {WrongCode} : SubmitOtp(r, u, guess)
    \/ Tick
    \/ \E R \in (SUBSET InFlight) \ {{}} : Fail(R)

Spec == Init /\ [][Next]_vars

-----------------------------------------------------------------------------
Live(u) == challenge[u] # Null
LiveCodes == {challenge[u].code : u \in {w \in User : Live(w)}}

\* A code is a one-time secret: issued by the SET of its challenge, used by the
\* script's match, tried by its mismatches (otpChallenge.ts:14-19).
OneTime == INSTANCE OneTimeSecret WITH
    Secret <- Request, MaxTries <- MaxAttempts,
    told <- told, used <- spent, tries <- wrong,
    live <- LiveCodes

\* Every step of the service is a step of the one-time secret or leaves it
\* alone: a code that its user has been told and that was used, replaced, expired
\* or exhausted is never revived, not by a slow handler, a rewrite of the
\* challenge, a command that is sent again or a crash.
OtpIsOneTimeSecret == OneTime!Spec

\* The types of the variables.
TypeOK ==
    /\ phone \in [User -> Phone \cup {Null}]
    /\ verified \subseteq User
    /\ challenge \in [User -> Challenge \cup {Null}]
    /\ cooldown \in [User -> 0..(Second * Cooldown)]
    /\ req \in [Request -> Handler]
    /\ failures \in 0..MaxFailures
    /\ issued \subseteq Request
    /\ told \subseteq issued
    /\ wrong \in [Request -> Nat]
    /\ spent \subseteq told

\* A code that has verified a number is never accepted again, whichever
\* handlers hold it and whatever is stored after it (otpChallenge.ts:14-19).
CodeIsSingleUse == \A u \in User : Live(u) => challenge[u].code \notin spent

\* A code withstands at most MaxAttempts guesses after the SET that stored it,
\* over concurrent handlers and rewrites of the challenge, also one that has lost
\* its expiry (otpChallenge.ts:78-90).  A SET whose reply was lost is sent again
\* and gives the code, which nobody has been told yet, as many guesses anew.
GuessesAreBounded ==
    /\ \A c \in Request : wrong[c] <= MaxAttempts
    /\ \A u \in User : Live(u) => wrong[challenge[u].code] = challenge[u].attempts

\* A wrong guess does not renew a challenge: while it has an expiry, it may
\* outlive OTP_TTL_SECONDS by half a second per guess, the rounding of TTL
\* (otpChallenge.ts:85-90).
GuessesDoNotRenew ==
    \A u \in User : Live(u) /\ challenge[u].ttl # Persistent =>
        challenge[u].age + challenge[u].ttl <= Second * OtpTtl + 2 * challenge[u].attempts

\* The number an account verifies is the one it already had: a code never goes
\* to, and never vouches for, another number, so users_phone_unique cannot
\* refuse the write (phoneOtpRequest.ts:16-21 and :41-45, phoneOtpVerify.ts:65-68).
NumberIsTheAccounts ==
    /\ Unique(phone)
    /\ \A u \in User : Live(u) => challenge[u].phone = phone[u]
    /\ \A r \in Request : req[r].at = "markVerified" => req[r].phone = phone[req[r].user]
    /\ \A u \in verified : phone[u] # Null

\* A code that has been guessed at MaxAttempts times is gone for good.
\* Refuted: the reply to its SET was lost, and the SET that the client sends
\* again brings it back with a new count.
ExhaustedStaysGone ==
    [][\A c \in Request : wrong[c] = MaxAttempts => c \notin LiveCodes']_vars

\* phoneOtpRequest.ts:83, "Redis's own TTL retires the new one automatically".
\* Refuted: a wrong guess in the last half second finds TTL 0, and the script
\* writes the challenge back without an expiry.
EveryChallengeExpires == \A u \in User : Live(u) => challenge[u].ttl # Persistent

=============================================================================
