------------------------ MODULE NotificationDelivery ------------------------
(***************************************************************************)
(* HttpNotificationPublisher.publish: one POST to the notification service *)
(* under an abort timer.  A call awaits the response's headers, then its   *)
(* body; the timer covers both and is cleared when the call returns, and   *)
(* the call returns in every case without an exception.  Aborting a call   *)
(* takes nothing back: what has been sent may still reach the service.     *)
(*                                                                         *)
(* A Call publishes one event.  NullNotificationPublisher logs and returns *)
(* at once.                                                                *)
(***************************************************************************)

CONSTANT Call  \* events to publish, each by one call

VARIABLES
    configured, \* NOTIFICATION_SERVICE_URL is set; never changes
    at,        \* where the call is
    timer,     \* calls whose abort timer is armed
    status,    \* response.ok, once the headers are in
    logged,    \* what the call has logged about its event
    wire,      \* events on their way to the service, or being handled there
    answer,    \* what the service has answered
    accepted   \* events the service has accepted

delivery == <<configured, at, timer, status, logged, wire, answer, accepted>>

Answer == {"accepted", "malformed", "rejected"}
Warning == {"rejected", "unexpected", "unreachable", "notConfigured"}

DeliveryInit ==
    /\ configured \in BOOLEAN
    /\ at = [c \in Call |-> "idle"]
    /\ timer = {}
    /\ status = [c \in Call |-> "none"]
    /\ logged = [c \in Call |-> "none"]
    /\ wire = {}
    /\ answer = [c \in Call |-> "none"]
    /\ accepted = {}

\* publish returns: finally clears the timer.
Return(c, log) ==
    /\ at' = [at EXCEPT ![c] = "returned"]
    /\ timer' = timer \ {c}
    /\ logged' = [logged EXCEPT ![c] = log]

\* Mutant of Publish: the signal of the controller is not passed to fetch.
PublishWithoutSignal(c) ==
    /\ configured
    /\ at[c] = "idle"
    /\ at' = [at EXCEPT ![c] = "fetch"]
    /\ wire' = wire \cup {c}
    /\ UNCHANGED <<configured, timer, status, logged, answer, accepted>>

\* The timer is set before fetch sends the request.
Publish(c) ==
    /\ configured
    /\ at[c] = "idle"
    /\ at' = [at EXCEPT ![c] = "fetch"]
    /\ timer' = timer \cup {c}
    /\ wire' = wire \cup {c}
    /\ UNCHANGED <<configured, status, logged, answer, accepted>>

\* NullNotificationPublisher.publish: a warning and nothing else.
PublishNowhere(c) ==
    /\ ~configured
    /\ at[c] = "idle"
    /\ at' = [at EXCEPT ![c] = "returned"]
    /\ logged' = [logged EXCEPT ![c] = "notConfigured"]
    /\ UNCHANGED <<configured, timer, status, wire, answer, accepted>>

\* fetch resolves with the headers; response.json() is awaited next.
Headers(c) ==
    /\ at[c] = "fetch"
    /\ answer[c] # "none"
    /\ status' = [status EXCEPT ![c] = IF answer[c] = "rejected" THEN "error" ELSE "ok"]
    /\ at' = [at EXCEPT ![c] = "body"]
    /\ UNCHANGED <<configured, timer, logged, wire, answer, accepted>>

\* Mutant of Body: response.ok alone decides.
BodyUnread(c) ==
    /\ at[c] = "body"
    /\ Return(c, IF status[c] = "ok" THEN "none" ELSE "rejected")
    /\ UNCHANGED <<configured, status, wire, answer, accepted>>

\* The whole body is in; only { accepted: true } is a success.
Body(c) ==
    /\ at[c] = "body"
    /\ Return(c, CASE status[c] = "error" -> "rejected"
                   [] answer[c] = "accepted" -> "none"
                   [] OTHER -> "unexpected")
    /\ UNCHANGED <<configured, status, wire, answer, accepted>>

\* The connection breaks, or the timer aborts the call.  While fetch is awaited
\* this rejects into the catch clause; while the body is, .catch(() => undefined)
\* swallows it, and a body that is undefined is no { accepted: true }.
Break(c) ==
    /\ \/ at[c] = "fetch" /\ Return(c, "unreachable")
       \/ at[c] = "body" /\ Return(c, IF status[c] = "error" THEN "rejected"
                                                             ELSE "unexpected")
    /\ UNCHANGED <<configured, status, wire, answer, accepted>>

TimerFires(c) == c \in timer /\ Break(c)
ConnectionBreaks(c) == Break(c)

\* The service, which is not part of this repository: it may answer late, or
\* never, and what it answers "accepted" it has accepted.
ServiceHandles(c) ==
    /\ c \in wire
    /\ wire' = wire \ {c}
    /\ \E a \in Answer :
        /\ answer' = [answer EXCEPT ![c] = a]
        /\ accepted' \in IF a = "accepted" THEN {accepted \cup {c}}
                         ELSE {accepted, accepted \cup {c}}
    /\ UNCHANGED <<configured, at, timer, status, logged>>

ServiceLoses(c) ==
    /\ c \in wire
    /\ wire' = wire \ {c}
    /\ UNCHANGED <<configured, at, timer, status, logged, answer, accepted>>

-----------------------------------------------------------------------------
DeliveryTypeOK ==
    /\ configured \in BOOLEAN
    /\ at \in [Call -> {"idle", "fetch", "body", "returned"}]
    /\ timer \subseteq Call
    /\ status \in [Call -> {"none", "ok", "error"}]
    /\ logged \in [Call -> Warning \cup {"none"}]
    /\ wire \subseteq Call
    /\ answer \in [Call -> Answer \cup {"none"}]
    /\ accepted \subseteq Call

\* A call that returns without a warning has had its event accepted by the
\* service: there is no silent loss (HttpNotificationPublisher.ts:37-79).
SilenceMeansAccepted ==
    \A c \in Call : at[c] = "returned" /\ logged[c] = "none" => c \in accepted

\* A call waits only while its timer is armed: whatever the service does, the
\* time a route spends in publish is bounded.
WaitIsTimed == \A c \in Call : at[c] \in {"fetch", "body"} => c \in timer

\* HttpNotificationPublisher.ts:73, "notification service unreachable; event was
\* not delivered".  Refuted: the service handles the request after the abort.
UnreachableMeansUndelivered ==
    \A c \in Call : logged[c] = "unreachable" => c \notin accepted

=============================================================================
