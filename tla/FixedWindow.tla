---------------------------- MODULE FixedWindow ----------------------------
(***************************************************************************)
(* What a fixed-window rate limiter promises, as if it counted each        *)
(* request in one step: the first request of a key opens a window, at most *)
(* Limit requests are admitted in it, its clock is started once and runs   *)
(* for Window seconds, and the end of the window is what sets the count    *)
(* back.  Once something has failed (broken), a window may be opened by a  *)
(* request that is not admitted, have its clock started again, or be       *)
(* forgotten; the limit holds even then.  RateLimiter implements it.       *)
(***************************************************************************)
EXTENDS Integers

CONSTANTS Key, Limit, Window

VARIABLES
    used,     \* requests admitted in the window of each key
    left,     \* seconds left of it, 0 if the key has none
    running,  \* keys whose clock has started
    broken    \* something has failed

vars == <<used, left, running, broken>>

Init ==
    /\ used = [k \in Key |-> 0]
    /\ left = [k \in Key |-> 0]
    /\ running = {}
    /\ broken = FALSE

Opened(k) == [left EXCEPT ![k] = IF @ = 0 THEN Window ELSE @]

Admit(k) ==
    /\ used[k] < Limit
    /\ used' = [used EXCEPT ![k] = @ + 1]
    /\ left' = Opened(k)
    /\ UNCHANGED <<running, broken>>

StartClock(k) ==
    /\ left[k] > 0
    /\ k \notin running \/ broken
    /\ left' = [left EXCEPT ![k] = Window]
    /\ running' = running \cup {k}
    /\ UNCHANGED <<used, broken>>

Tick ==
    LET over == {k \in running : left[k] = 1}
    IN  /\ left' = [k \in Key |-> IF k \in running THEN left[k] - 1 ELSE left[k]]
        /\ used' = [k \in Key |-> IF k \in over THEN 0 ELSE used[k]]
        /\ running' = running \ over
        /\ UNCHANGED broken

Mishap ==
    /\ broken' = TRUE
    /\ \/ UNCHANGED <<used, left, running>>
       \/ \E k \in Key : left' = Opened(k) /\ UNCHANGED <<used, running>>
       \/ \E k \in Key : /\ left[k] > 0
                         /\ left' = [left EXCEPT ![k] = Window]
                         /\ running' = running \cup {k}
                         /\ UNCHANGED used
       \/ /\ used' = [k \in Key |-> 0]
          /\ left' = [k \in Key |-> 0]
          /\ running' = {}

Next ==
    \/ Mishap
    \/ Tick
    \/ \E k \in Key : Admit(k) \/ StartClock(k)

Spec == Init /\ [][Next]_vars

=============================================================================
