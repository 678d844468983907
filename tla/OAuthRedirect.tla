--------------------------- MODULE OAuthRedirect ---------------------------
(***************************************************************************)
(* The authorization-code redirect: GET /auth/google/start stores a state  *)
(* in Redis and sends the browser to Google, GET /auth/google/callback     *)
(* consumes the state with a GET and a DEL and exchanges the code.  Both   *)
(* await Google's discovery document, which one process fetches once and   *)
(* caches as a promise.  A Request is the slot a handler runs in and names *)
(* the state a start generates.                                            *)
(***************************************************************************)
EXTENDS Integers

CONSTANTS
    Request,     \* handler slots, and the states their handlers generate
    Null,
    MaxFailures  \* bound: failures of a command or of the discovery

ASSUME NullAssumption == Null \notin Request
ASSUME MaxFailuresAssumption == MaxFailures \in Nat

VARIABLES
    config,    \* configCache: the promise of the discovery document
    issued,    \* states that have been stored
    stored,    \* states whose key oauth:google:state:<state> exists
    req,       \* handlers in flight
    failures,
    honoured,  \* history: how often each state was returned by consumeOAuthState
    settled    \* history: states whose callback has been answered

vars == <<config, issued, stored, req, failures, honoured, settled>>

Config == {"none", "pending", "resolved", "rejected"}
Step == {"idle", "startConfig", "storeState", "del", "callbackConfig", "exchange"}
\* replay and since are history: whether a callback with this state has been
\* answered before, and how many failures there had been when this one began.
Handler == [at : Step, state : Request \cup {Null}, replay : BOOLEAN,
            since : 0..MaxFailures]
Idle == [at |-> "idle", state |-> Null, replay |-> FALSE, since |-> 0]

Init ==
    /\ config = "none"
    /\ issued = {}
    /\ stored = {}
    /\ req = [r \in Request |-> Idle]
    /\ failures = 0
    /\ honoured = [s \in Request |-> 0]
    /\ settled = {}

At(r, step) == req[r].at = step
InFlight == {r \in Request : ~At(r, "idle")}
Answer(r) == req' = [req EXCEPT ![r] = Idle]
Continue(r, step) == req' = [req EXCEPT ![r].at = step]

\* configCache ??= oidc.discovery(...): only the first caller starts it.
Discover == config' = IF config = "none" THEN "pending" ELSE config

-----------------------------------------------------------------------------
(* GET /auth/google/start                                                   *)

Begin(r) ==
    /\ At(r, "idle") /\ r \notin issued
    /\ Discover
    /\ req' = [req EXCEPT ![r] = [Idle EXCEPT !.at = "startConfig", !.state = r,
                                              !.since = failures]]
    /\ UNCHANGED <<issued, stored, failures, honoured, settled>>

\* Mutant of AwaitConfig: a rejected promise is not handled.
AwaitConfigOnlyResolved(r) ==
    /\ At(r, "startConfig") \/ At(r, "callbackConfig")
    /\ config = "resolved"
    /\ Continue(r, IF At(r, "startConfig") THEN "storeState" ELSE "exchange")
    /\ UNCHANGED <<config, issued, stored, failures, honoured, settled>>

\* await getConfig: the promise settles once, for every caller.
AwaitConfig(r) ==
    /\ At(r, "startConfig") \/ At(r, "callbackConfig")
    /\ \/ /\ config = "resolved"
          /\ Continue(r, IF At(r, "startConfig") THEN "storeState" ELSE "exchange")
       \/ config = "rejected" /\ Answer(r)
    /\ UNCHANGED <<config, issued, stored, failures, honoured, settled>>

StoreState(r) ==
    /\ At(r, "storeState")
    /\ issued' = issued \cup {r}
    /\ stored' = stored \cup {r}
    /\ Answer(r)
    /\ UNCHANGED <<config, failures, honoured, settled>>

-----------------------------------------------------------------------------
(* GET /auth/google/callback                                                *)

\* The GET of consumeOAuthState; a state whose key is gone is refused.
GetState(r, s) ==
    /\ At(r, "idle")
    /\ s \in stored
    /\ req' = [req EXCEPT ![r] = [at |-> "del", state |-> s, replay |-> s \in settled,
                                  since |-> failures]]
    /\ UNCHANGED <<config, issued, stored, failures, honoured, settled>>

\* Mutant of DelState: the key is left to expire.
DelStateLater(r) ==
    /\ At(r, "del")
    /\ honoured' = [honoured EXCEPT ![req[r].state] = @ + 1]
    /\ Discover
    /\ Continue(r, "callbackConfig")
    /\ UNCHANGED <<issued, stored, failures, settled>>

\* The DEL; the state read before is returned whether or not the key was
\* still there.  The callback then awaits the configuration.
DelState(r) ==
    /\ At(r, "del")
    /\ stored' = stored \ {req[r].state}
    /\ honoured' = [honoured EXCEPT ![req[r].state] = @ + 1]
    /\ Discover
    /\ Continue(r, "callbackConfig")
    /\ UNCHANGED <<issued, failures, settled>>

\* authorizationCodeGrant, and what follows it (Accounts); it may be refused.
Exchange(r) ==
    /\ At(r, "exchange")
    /\ settled' = settled \cup {req[r].state}
    /\ Answer(r)
    /\ UNCHANGED <<config, issued, stored, failures, honoured>>

-----------------------------------------------------------------------------
\* Google answers the discovery request, or does not.
DiscoverySucceeds ==
    /\ config = "pending"
    /\ config' = "resolved"
    /\ UNCHANGED <<issued, stored, req, failures, honoured, settled>>

DiscoveryFails ==
    /\ config = "pending"
    /\ failures < MaxFailures
    /\ failures' = failures + 1
    /\ config' = "rejected"
    /\ UNCHANGED <<issued, stored, req, honoured, settled>>

\* STATE_TTL_SECONDS are over.
StateExpires(s) ==
    /\ s \in stored
    /\ stored' = stored \ {s}
    /\ UNCHANGED <<config, issued, req, failures, honoured, settled>>

\* A command of one handler fails.
Fail(r) ==
    /\ r \in InFlight
    /\ failures < MaxFailures
    /\ failures' = failures + 1
    /\ Answer(r)
    /\ UNCHANGED <<config, issued, stored, honoured, settled>>

\* The process dies with its handlers and its cache.
Crash ==
    /\ failures < MaxFailures
    /\ failures' = failures + 1
    /\ config' = "none"
    /\ req' = [r \in Request |-> Idle]
    /\ UNCHANGED <<issued, stored, honoured, settled>>

Handle(r) == AwaitConfig(r) \/ StoreState(r) \/ DelState(r) \/ Exchange(r)
Discovery == DiscoverySucceeds \/ DiscoveryFails

Next ==
    \/ \E r \in Request : Handle(r) \/ Begin(r) \/ Fail(r) \/ StateExpires(r)
    \/ \E r, s \in Request : GetState(r, s)
    \/ Discovery
    \/ Crash

Spec == Init /\ [][Next]_vars

\* Google answers or the request times out, and the event loop resumes every
\* handler whose awaited reply is in.
FairSpec == Spec /\ WF_vars(Discovery) /\ \A r \in Request : WF_vars(Handle(r))

-----------------------------------------------------------------------------
\* The types of the variables.
TypeOK ==
    /\ config \in Config
    /\ issued \subseteq Request
    /\ stored \subseteq issued
    /\ req \in [Request -> Handler]
    /\ failures \in 0..MaxFailures
    /\ honoured \in [Request -> Nat]
    /\ settled \subseteq issued

\* A replay of a callback that has been answered is refused: a state that
\* served a finished callback is gone for good (README.md:413-415).
ReplayIsRefused == \A r \in Request : ~req[r].replay

\* No handler waits for ever, whatever happens to the discovery: a start or a
\* callback in flight is eventually answered (googleClient.ts:21-24).
EveryRequestIsAnswered == \A r \in Request : ~At(r, "idle") ~> At(r, "idle")

-----------------------------------------------------------------------------
\* README.md:144, GET /google/start answers "302 to Google, or 503
\* GOOGLE_OAUTH_NOT_CONFIGURED": a request is turned away only if something
\* fails while it is served.  Refuted: the rejected discovery stays in
\* configCache, so each later request of the process fails as well.
OldFailureHarmsNoRequest ==
    \A r \in Request : At(r, "startConfig") /\ config = "rejected" => failures > req[r].since

\* googleOAuthState.ts:18, "Consumes (single-use) the stored state".  Refuted:
\* two callbacks both GET the state before either DELs it.
StateIsSingleUse == \A s \in Request : honoured[s] <= 1

=============================================================================
