---------------------------- MODULE RateLimiter ----------------------------
(***************************************************************************)
(* The fixed-window counters of redis/rateLimiter.ts behind every          *)
(* enforceRateLimit call.  A request consumes the keys of its route in     *)
(* order (its address, then the account it is about) and is refused at the *)
(* first one over its limit.  Each Redis command is a step, so the INCR,   *)
(* the EXPIRE of the caller that created the key, and the TTL of a refused *)
(* one interleave with those of other callers, and a caller may fail       *)
(* between any two.                                                        *)
(***************************************************************************)
EXTENDS Integers, Sequences

CONSTANTS
    Key,          \* ratelimit:<endpoint>:<ip|email|user>:<value>
    Caller,       \* requests in flight
    Route,        \* the sequences of keys a request may have to consume
    Limit,        \* requests allowed in a window
    Window,       \* windowSeconds
    MaxCount,     \* bound: counts from here on, all refused, are not told apart
    MaxFailures   \* bound: failures, crashes, lost replies and flushes of Redis

ASSUME RouteAssumption == Route \subseteq Seq(Key) /\ <<>> \notin Route
ASSUME BoundsAssumption ==
    /\ Limit \in Nat \ {0} /\ Window \in Nat \ {0}
    /\ MaxCount \in Nat /\ MaxCount > Limit
    /\ MaxFailures \in Nat

VARIABLES
    count,     \* the value of the key
    ttl,       \* its time to live in seconds, rounded up
    caller,    \* what each request is about to do, and the keys it has left
    failures,
    admitted   \* history: requests the key has let through since it appeared

vars == <<count, ttl, caller, failures, admitted>>

Missing == -2      \* the key does not exist
Persistent == -1   \* it exists and never expires

Idle == [at |-> "idle", keys |-> <<>>]
CallerState ==
    [at : {"idle", "incr", "expire", "ttl"}, keys : Seq(Key)]

Init ==
    /\ count = [k \in Key |-> 0]
    /\ ttl = [k \in Key |-> Missing]
    /\ caller = [c \in Caller |-> Idle]
    /\ failures = 0
    /\ admitted = [k \in Key |-> 0]

\* What INCR answers.
IncrReply(k) == IF count[k] < MaxCount THEN count[k] + 1 ELSE MaxCount

At(c, step) == caller[c].at = step
Current(c) == Head(caller[c].keys)

\* consumeRateLimit has allowed the current key: go on to the next, or leave.
Pass(c) == IF Len(caller[c].keys) > 1
           THEN [at |-> "incr", keys |-> Tail(caller[c].keys)]
           ELSE Idle

\* What follows the INCR and EXPIRE of a key whose INCR answered n.
Judge(c, n) == IF n > Limit THEN [caller[c] EXCEPT !.at = "ttl"] ELSE Pass(c)

-----------------------------------------------------------------------------
Arrive(c, keys) ==
    /\ At(c, "idle")
    /\ caller' = [caller EXCEPT ![c] = [at |-> "incr", keys |-> keys]]
    /\ UNCHANGED <<count, ttl, failures, admitted>>

\* Mutant of Incr: the limit itself is refused too late.
IncrOffByOne(c) ==
    LET k == Current(c)
        n == IncrReply(k)
    IN  /\ At(c, "incr")
        /\ count' = [count EXCEPT ![k] = n]
        /\ ttl' = [ttl EXCEPT ![k] = IF @ = Missing THEN Persistent ELSE @]
        /\ admitted' = [admitted EXCEPT ![k] = IF n <= Limit + 1 THEN @ + 1 ELSE @]
        /\ caller' = [caller EXCEPT ![c] = IF n = 1 THEN [@ EXCEPT !.at = "expire"]
                                           ELSE Judge(c, n - 1)]
        /\ UNCHANGED failures

\* Mutant of Incr: the caller that creates the key does not set its expiry.
IncrWithoutExpire(c) ==
    LET k == Current(c)
        n == IncrReply(k)
    IN  /\ At(c, "incr")
        /\ count' = [count EXCEPT ![k] = n]
        /\ ttl' = [ttl EXCEPT ![k] = IF @ = Missing THEN Persistent ELSE @]
        /\ admitted' = [admitted EXCEPT ![k] = IF n <= Limit THEN @ + 1 ELSE @]
        /\ caller' = [caller EXCEPT ![c] = Judge(c, n)]
        /\ UNCHANGED failures

\* Mutant of Incr: every caller sets the expiry again.
IncrAlwaysExpires(c) ==
    LET k == Current(c)
        n == IncrReply(k)
    IN  /\ At(c, "incr")
        /\ count' = [count EXCEPT ![k] = n]
        /\ ttl' = [ttl EXCEPT ![k] = IF @ = Missing THEN Persistent ELSE @]
        /\ admitted' = [admitted EXCEPT ![k] = IF n <= Limit THEN @ + 1 ELSE @]
        /\ caller' = [caller EXCEPT ![c] = IF n <= Limit THEN [@ EXCEPT !.at = "expire"]
                                           ELSE Judge(c, n)]
        /\ UNCHANGED failures

\* INCR creates a missing key without an expiry.  The caller decides by the
\* value its own INCR answered, not by what the key holds later.
Incr(c) ==
    LET k == Current(c)
        n == IncrReply(k)
    IN  /\ At(c, "incr")
        /\ count' = [count EXCEPT ![k] = n]
        /\ ttl' = [ttl EXCEPT ![k] = IF @ = Missing THEN Persistent ELSE @]
        /\ admitted' = [admitted EXCEPT ![k] = IF n <= Limit THEN @ + 1 ELSE @]
        /\ caller' = [caller EXCEPT ![c] = IF n = 1 THEN [@ EXCEPT !.at = "expire"]
                                           ELSE Judge(c, n)]
        /\ UNCHANGED failures

\* EXPIRE of a key that is gone does nothing.
Expire(c) ==
    /\ At(c, "expire")
    /\ ttl' = [ttl EXCEPT ![Current(c)] = IF @ = Missing THEN @ ELSE Window]
    /\ caller' = [caller EXCEPT ![c] = Judge(c, 1)]
    /\ UNCHANGED <<count, failures, admitted>>

\* Mutant of Refuse: a refused caller sets the expiry that it finds missing.
RefuseSetsExpiry(c) ==
    /\ At(c, "ttl")
    /\ caller' = [caller EXCEPT ![c] = Idle]
    /\ ttl' = [ttl EXCEPT ![Current(c)] = IF @ = Persistent THEN Window ELSE @]
    /\ UNCHANGED <<count, failures, admitted>>

\* Mutant of Refuse: a refused caller renews the expiry.
RefuseRenews(c) ==
    /\ At(c, "ttl")
    /\ caller' = [caller EXCEPT ![c] = Idle]
    /\ ttl' = [ttl EXCEPT ![Current(c)] = IF @ = Missing THEN @ ELSE Window]
    /\ UNCHANGED <<count, failures, admitted>>

\* The refusal reads TTL for retryAfterSeconds, which enforceRateLimit drops.
Refuse(c) ==
    /\ At(c, "ttl")
    /\ caller' = [caller EXCEPT ![c] = Idle]
    /\ UNCHANGED <<count, ttl, failures, admitted>>

\* A second passes; Redis drops the keys whose time to live is over.
Tick ==
    LET gone == {k \in Key : ttl[k] = 1}
    IN  /\ \E k \in Key : ttl[k] > 0
        /\ ttl' = [k \in Key |-> IF k \in gone THEN Missing
                                 ELSE IF ttl[k] > 0 THEN ttl[k] - 1 ELSE ttl[k]]
        /\ count' = [k \in Key |-> IF k \in gone THEN 0 ELSE count[k]]
        /\ admitted' = [k \in Key |-> IF k \in gone THEN 0 ELSE admitted[k]]
        /\ UNCHANGED <<caller, failures>>

\* A command fails, or the process dies, and the request with it.
Fail(c) ==
    /\ ~At(c, "idle")
    /\ failures < MaxFailures
    /\ failures' = failures + 1
    /\ caller' = [caller EXCEPT ![c] = Idle]
    /\ UNCHANGED <<count, ttl, admitted>>

\* The reply to an INCR is lost with the connection: the client reconnects and
\* sends the command again, and only the second reply counts.
IncrReplyLost(c) ==
    /\ At(c, "incr")
    /\ failures < MaxFailures
    /\ failures' = failures + 1
    /\ count' = [count EXCEPT ![Current(c)] = IncrReply(Current(c))]
    /\ ttl' = [ttl EXCEPT ![Current(c)] = IF @ = Missing THEN Persistent ELSE @]
    /\ UNCHANGED <<caller, admitted>>

\* So does the client after an EXPIRE.
ExpireReplyLost(c) ==
    /\ At(c, "expire")
    /\ failures < MaxFailures
    /\ failures' = failures + 1
    /\ ttl' = [ttl EXCEPT ![Current(c)] = IF @ = Missing THEN @ ELSE Window]
    /\ UNCHANGED <<count, caller, admitted>>

\* Redis comes back empty.
Flush ==
    /\ failures < MaxFailures
    /\ failures' = failures + 1
    /\ count' = [k \in Key |-> 0]
    /\ ttl' = [k \in Key |-> Missing]
    /\ admitted' = [k \in Key |-> 0]
    /\ UNCHANGED caller

Consume(c) == Incr(c) \/ Expire(c) \/ Refuse(c)
ReplyLost(c) == IncrReplyLost(c) \/ ExpireReplyLost(c)

Next ==
    \/ \E c \in Caller : Consume(c) \/ Fail(c) \/ ReplyLost(c)
    \/ \E c \in Caller, keys \in Route : Arrive(c, keys)
    \/ Tick
    \/ Flush

Spec == Init /\ [][Next]_vars

\* Redis answers every command, and time passes.
FairSpec == Spec /\ WF_vars(Tick) /\ \A c \in Caller : WF_vars(Consume(c))

-----------------------------------------------------------------------------
\* The types of the variables.
TypeOK ==
    /\ count \in [Key -> 0..MaxCount]
    /\ ttl \in [Key -> {Missing, Persistent} \cup 1..Window]
    /\ caller \in [Caller -> CallerState]
    /\ \A c \in Caller : ~At(c, "idle") => caller[c].keys # <<>>
    /\ failures \in 0..MaxFailures
    /\ admitted \in [Key -> 0..MaxCount]

\* From its first INCR until it expires or is flushed, a key lets at most Limit
\* requests through, however their INCRs interleave and however late a caller
\* acts on the answer (rateLimiter.ts:21-31).
LimitHolds ==
    \A k \in Key : /\ admitted[k] <= Limit
                   /\ count[k] = 0 <=> ttl[k] = Missing

ExpiryOwed(k) == \E c \in Caller : At(c, "expire") /\ Current(c) = k

\* While nothing fails, a key without an expiry is about to get one: its
\* creator is between INCR and EXPIRE (rateLimiter.ts:21-24).
NoKeyIsStranded ==
    \A k \in Key : ttl[k] = Persistent /\ failures = 0 => ExpiryOwed(k)

\* The window is fixed: while nothing fails, no later request prolongs it
\* (rateLimiter.ts:22, only the INCR that answers 1 sets the expiry).
WindowIsFixed ==
    [][\A k \in Key : ttl[k] > 0 /\ ttl'[k] > ttl[k] => failures > 0]_vars

\* Each key behaves as a fixed window that counts a request in one step,
\* although a request takes up to three Redis commands and callers interleave
\* between them (rateLimiter.ts:16-32); what failures may do to it is limited
\* to what FixedWindow says.
Ideal == INSTANCE FixedWindow WITH
    used <- admitted,
    left <- [k \in Key |-> IF ttl[k] = Missing THEN 0
                           ELSE IF ttl[k] = Persistent THEN Window ELSE ttl[k]],
    running <- {k \in Key : ttl[k] > 0},
    broken <- failures > 0
KeysAreFixedWindows == Ideal!Spec

\* A key at its limit opens again, however many requests it goes on to refuse,
\* unless something fails (rateLimiter.ts:21-29).
WindowReopens == \A k \in Key : count[k] >= Limit ~> (count[k] < Limit \/ failures > 0)

\* rateLimiter.ts:11-12, "an occasional missed expiry self-heals on the next
\* window" (also README.md:537).  Refuted: a caller that fails between INCR and
\* EXPIRE leaves a key that no later request gives an expiry, since INCR never
\* answers 1 again; once over its limit it refuses for ever.  So does a lost reply
\* to the INCR that creates the key: the INCR that is sent again answers 2.
MissedExpirySelfHeals ==
    \A k \in Key : ttl[k] = Persistent /\ ~ExpiryOwed(k) ~> ttl[k] # Persistent

=============================================================================
