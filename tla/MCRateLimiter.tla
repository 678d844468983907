--------------------------- MODULE MCRateLimiter ---------------------------
(* Small instances of RateLimiter for TLC: an address and an account key,   *)
(* and the two shapes of route (address only, address then account).        *)
EXTENDS RateLimiter

CONSTANTS ip, email, c1, c2, c3

MCKey == {ip, email}
MCRoute == {<<ip>>, <<ip, email>>}

\* The only thing that fails is a caller between its INCR and its EXPIRE.
FailBeforeExpire(c) == At(c, "expire") /\ Fail(c)
MissedExpiryNext ==
    \/ \E c \in Caller : Consume(c) \/ FailBeforeExpire(c)
    \/ \E c \in Caller, keys \in Route : Arrive(c, keys)
    \/ Tick
MissedExpirySpec ==
    /\ Init /\ [][MissedExpiryNext]_vars
    /\ WF_vars(Tick) /\ \A c \in Caller : WF_vars(Consume(c))

=============================================================================
