--------------------------- MODULE OneTimeSecret ---------------------------
(***************************************************************************)
(* What the service promises of a secret it sends to somebody: it may be   *)
(* issued anew only until somebody has been told it, works at most once    *)
(* and only while it is live, survives at most MaxTries wrong tries after  *)
(* it was issued, and, once told, is gone for good when it has been used,  *)
(* replaced, expired or guessed at too often.  The phone OTP of PhoneOtp   *)
(* implements it.                                                          *)
(***************************************************************************)
EXTENDS Integers

CONSTANTS Secret, MaxTries

VARIABLES told, live, used, tries

vars == <<told, live, used, tries>>

Init ==
    /\ told = {}
    /\ live = {}
    /\ used = {}
    /\ tries = [c \in Secret |-> 0]

\* A secret that nobody knows takes the place of one that may still be live;
\* with it, or after another Issue, its owner is told.
Issue(c) ==
    /\ c \notin told
    /\ told' \in {told, told \cup {c}}
    /\ \E kept \in SUBSET live : live' = kept \cup {c}
    /\ tries' = [tries EXCEPT ![c] = 0]
    /\ UNCHANGED used

Use(c) ==
    /\ c \in live \cap told
    /\ live' = live \ {c}
    /\ used' = used \cup {c}
    /\ UNCHANGED <<told, tries>>

\* A wrong try is counted; the last one that is allowed is fatal.
Try(c) ==
    /\ c \in live
    /\ tries' = [tries EXCEPT ![c] = @ + 1]
    /\ live' = IF tries[c] + 1 < MaxTries THEN live ELSE live \ {c}
    /\ UNCHANGED <<told, used>>

\* Time is over for some secrets.
Expire ==
    /\ live' \in SUBSET live
    /\ UNCHANGED <<told, used, tries>>

Next == Expire \/ \E c \in Secret : Issue(c) \/ Use(c) \/ Try(c)

Spec == Init /\ [][Next]_vars

=============================================================================
