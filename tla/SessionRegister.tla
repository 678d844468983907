--------------------------- MODULE SessionRegister ---------------------------
(***************************************************************************)
(* What the service promises of its session tokens, as if one register     *)
(* held them all and answered at once: a session is opened once, for one   *)
(* account, and once ended it is never valid again; a password reset ends  *)
(* all the sessions of its account in one step; what has been reported as  *)
(* ended is not valid; and a verification accepts a session that was valid *)
(* when it was looked up, for an account that is enabled when it answers.  *)
(* The two instants differ: a session that ends between them is accepted   *)
(* once more.  The handlers of Credentials implement it.                   *)
(***************************************************************************)
CONSTANTS
    Session,
    Verifier,  \* verifications that may be in progress at once
    Account,
    None

VARIABLES
    owner,     \* the account each session was opened for
    valid,     \* sessions that have been opened and have not ended
    enabled,   \* accounts that may use theirs
    lookedUp,  \* the session each verification in progress has found valid
    ended      \* sessions whose end has been reported

vars == <<owner, valid, enabled, lookedUp, ended>>

Init ==
    /\ owner = [s \in Session |-> None]
    /\ valid = {}
    /\ enabled \in SUBSET Account
    /\ lookedUp = [v \in Verifier |-> None]
    /\ ended = {}

OwnedBy(a) == {s \in Session : owner[s] = a}

Open(s, a) ==
    /\ owner[s] = None
    /\ owner' = [owner EXCEPT ![s] = a]
    /\ valid' = valid \cup {s}
    /\ UNCHANGED <<enabled, lookedUp, ended>>

\* A logout, an expiry or a reset: the ends of some of the sessions are reported.
End(S) ==
    /\ valid' = valid \ S
    /\ \E reported \in SUBSET S : ended' = ended \cup reported
    /\ UNCHANGED <<owner, enabled, lookedUp>>

LookUp(v, s) ==
    /\ lookedUp[v] = None
    /\ s \in valid
    /\ lookedUp' = [lookedUp EXCEPT ![v] = s]
    /\ UNCHANGED <<owner, valid, enabled, ended>>

Answer(v) ==
    /\ lookedUp[v] # None
    /\ lookedUp' = [lookedUp EXCEPT ![v] = None]
    /\ UNCHANGED <<owner, valid, enabled, ended>>

Accept(v) == Answer(v) /\ owner[lookedUp[v]] \in enabled

Refuse(v) == Answer(v) /\ owner[lookedUp[v]] \notin enabled

\* Verifications that fail.
Abandon(V) ==
    /\ lookedUp' = [v \in Verifier |-> IF v \in V THEN None ELSE lookedUp[v]]
    /\ UNCHANGED <<owner, valid, enabled, ended>>

\* Accounts are created, locked and unlocked.
SetStatus ==
    /\ enabled' \in SUBSET Account
    /\ UNCHANGED <<owner, valid, lookedUp, ended>>

Next ==
    \/ SetStatus
    \/ \E s \in Session, a \in Account : Open(s, a)
    \/ \E s \in Session : owner[s] # None /\ End({s})
    \/ \E a \in Account : End(OwnedBy(a))
    \/ \E v \in Verifier, s \in Session : LookUp(v, s)
    \/ \E v \in Verifier : Accept(v) \/ Refuse(v)
    \/ \E V \in SUBSET Verifier : Abandon(V)

Spec == Init /\ [][Next]_vars

=============================================================================
