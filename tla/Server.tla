------------------------------- MODULE Server -------------------------------
(***************************************************************************)
(* The process of server.ts from start-up to its exit: readiness, the      *)
(* listening socket, the connections and handlers it is running when a     *)
(* signal arrives, and the order in which shutdown closes what they use.   *)
(* A handler works on the stores, publishes and works on the stores again, *)
(* as register.ts does, whose two calls of publish, with nothing between   *)
(* them, are one here.  A Request is the handler's slot and this call.     *)
(*                                                                         *)
(* app.close waits for the connections of the HTTP server, not for the     *)
(* handlers: one whose client has hung up runs on without a connection,    *)
(* and a client that has not sent the whole of its request has a           *)
(* connection before it has a handler.                                     *)
(***************************************************************************)
EXTENDS NotificationDelivery

CONSTANTS
    Signal  \* deliveries of SIGTERM or SIGINT, each at most once

VARIABLES
    proc,       \* where main is, or how the process ended
    ready,      \* ReadinessState.ready
    listening,  \* new connections are accepted
    conn,       \* the connection of each request
    handler,    \* the handler of each request
    stores,     \* the pool: open, ending or ended
    redis,      \* the Redis client is connected
    shutdown    \* one call of shutdown per signal

process == <<proc, ready, listening, stores, redis, shutdown>>
requests == <<conn, handler>>
vars == <<process, requests, delivery>>

Request == Call
Exited == {"exit0", "exit1", "killed", "crashed"}
Open == {"half", "busy", "idle"}
Running == {r \in Request : handler[r] \in {"before", "publish", "after"}}
Begun == {s \in Signal : shutdown[s] # "none"}
BegunTwice == \E s, t \in Begun : s # t
HalfSent == \E r \in Request : conn[r] = "half"

Init ==
    /\ DeliveryInit
    /\ proc = "checking"
    /\ ready = FALSE
    /\ listening = FALSE
    /\ conn = [r \in Request |-> "none"]
    /\ handler = [r \in Request |-> "none"]
    /\ stores = "open"
    /\ redis = TRUE
    /\ shutdown = [s \in Signal |-> "none"]

\* The process ends, and with it whatever was running in it.
Die(how) ==
    /\ proc' = how
    /\ listening' = FALSE
    /\ conn' = [r \in Request |-> CASE conn[r] \in {"busy", "idle"} -> "closed"
                                   [] conn[r] = "half" -> "none"
                                   [] OTHER -> conn[r]]
    /\ handler' = [r \in Request |-> IF r \in Running THEN "cut" ELSE handler[r]]

-----------------------------------------------------------------------------
(* main *)

\* await pool.query('SELECT 1'), then markReady: the flag precedes the socket.
StartupCheck ==
    /\ proc = "checking"
    /\ proc' = "binding"
    /\ ready' = TRUE
    /\ UNCHANGED <<listening, stores, redis, shutdown, requests, delivery>>

\* The handlers of the signals are installed once listen has resolved.
Listen ==
    /\ proc = "binding"
    /\ proc' = "serving"
    /\ listening' = TRUE
    /\ UNCHANGED <<ready, stores, redis, shutdown, requests, delivery>>

\* main().catch: the database is away, or the port is taken.
StartupFails ==
    /\ proc \in {"checking", "binding"}
    /\ Die("exit1")
    /\ UNCHANGED <<ready, stores, redis, shutdown, delivery>>

\* A signal before its handler is installed has its default effect.  On a process
\* that is PID 1 of its container (Dockerfile:37) it has none: a stuttering step.
SignalBeforeHandlers(s) ==
    /\ proc \in {"checking", "binding"}
    /\ shutdown[s] = "none"
    /\ Die("killed")
    /\ shutdown' = [shutdown EXCEPT ![s] = "done"]
    /\ UNCHANGED <<ready, stores, redis, delivery>>

\* The connection of an idle client of the pool breaks.  Nobody listens to the
\* pool's 'error', so Node ends the process, whatever it was doing (code 1).
PoolError ==
    /\ proc \in {"binding", "serving"}
    /\ stores = "open"
    /\ Die("crashed")
    /\ UNCHANGED <<ready, stores, redis, shutdown, delivery>>

-----------------------------------------------------------------------------
(* shutdown *)

\* Mutant of BeginShutdown: the pool is ended first.
BeginShutdownPoolFirst(s) ==
    /\ proc = "serving"
    /\ shutdown[s] = "none"
    /\ ready' = FALSE
    /\ shutdown' = [shutdown EXCEPT ![s] = "closing"]
    /\ stores' = "ending"
    /\ UNCHANGED <<proc, listening, redis, requests, delivery>>

\* Mutant of BeginShutdown: readiness is left as it is.
BeginShutdownReady(s) ==
    /\ proc = "serving"
    /\ shutdown[s] = "none"
    /\ shutdown' = [shutdown EXCEPT ![s] = "closing"]
    /\ UNCHANGED <<proc, ready, listening, stores, redis, requests, delivery>>

\* Every signal starts a shutdown of its own: markNotReady, then app.close.
BeginShutdown(s) ==
    /\ proc = "serving"
    /\ shutdown[s] = "none"
    /\ ready' = FALSE
    /\ shutdown' = [shutdown EXCEPT ![s] = "closing"]
    /\ UNCHANGED <<proc, listening, stores, redis, requests, delivery>>

\* app.close stops the listening socket.
StopListening ==
    /\ proc = "serving"
    /\ Begun # {}
    /\ listening
    /\ listening' = FALSE
    /\ UNCHANGED <<proc, ready, stores, redis, shutdown, requests, delivery>>

Closed == ~listening /\ \A r \in Request : conn[r] \notin Open

\* app.close has resolved; pool.end is called.
EndPool(s) ==
    /\ proc = "serving"
    /\ shutdown[s] = "closing"
    /\ Closed
    /\ stores = "open"
    /\ stores' = "ending"
    /\ shutdown' = [shutdown EXCEPT ![s] = "ending"]
    /\ UNCHANGED <<proc, ready, listening, redis, requests, delivery>>

\* "Called end on pool more than once": the rejection of the voided promise is
\* handled by nobody, and Node ends the process.
EndPoolAgain(s) ==
    /\ proc = "serving"
    /\ shutdown[s] = "closing"
    /\ Closed
    /\ stores # "open"
    /\ shutdown' = [shutdown EXCEPT ![s] = "done"]
    /\ Die("exit1")
    /\ UNCHANGED <<ready, stores, redis, delivery>>

\* The pool has closed its connections.
PoolEnds ==
    /\ proc = "serving"
    /\ stores = "ending"
    /\ stores' = "ended"
    /\ UNCHANGED <<proc, ready, listening, redis, shutdown, requests, delivery>>

\* Mutant of Exit: pool.end is not awaited.
ExitEarly(s) ==
    /\ proc = "serving"
    /\ shutdown[s] = "ending"
    /\ redis' = FALSE
    /\ shutdown' = [shutdown EXCEPT ![s] = "done"]
    /\ Die("exit0")
    /\ UNCHANGED <<ready, stores, delivery>>

\* redis.disconnect and process.exit(0).
Exit(s) ==
    /\ proc = "serving"
    /\ shutdown[s] = "ending"
    /\ stores = "ended"
    /\ redis' = FALSE
    /\ shutdown' = [shutdown EXCEPT ![s] = "done"]
    /\ Die("exit0")
    /\ UNCHANGED <<ready, stores, delivery>>

-----------------------------------------------------------------------------
(* Requests *)

\* A client connects; it may send its request slowly, or not at all.
Connect(r) ==
    /\ proc = "serving"
    /\ listening
    /\ conn[r] = "none"
    /\ conn' = [conn EXCEPT ![r] = "half"]
    /\ UNCHANGED <<process, handler, delivery>>

\* The rest of the request is in.  During app.close too, if its headers were in
\* before.
Accept(r) ==
    /\ proc = "serving"
    /\ conn[r] = "half"
    /\ conn' = [conn EXCEPT ![r] = "busy"]
    /\ handler' = [handler EXCEPT ![r] = "before"]
    /\ UNCHANGED <<process, delivery>>

\* It never comes: the client gives up, or, until app.close, the HTTP server does,
\* on headers that are late.  During app.close late headers are answered 503.
GiveUp(r) ==
    /\ conn[r] = "half"
    /\ conn' = [conn EXCEPT ![r] = "none"]
    /\ UNCHANGED <<process, handler, delivery>>

\* A statement on a pool that is ending is refused: the handler ends with an
\* error, its work half done.
Statement(r, next) ==
    /\ handler' = [handler EXCEPT ![r] = IF stores = "open" THEN next ELSE "cut"]
    /\ conn' = [conn EXCEPT ![r] =
                  IF @ = "busy" /\ handler'[r] \in {"served", "cut"} THEN "idle" ELSE @]

WorkBefore(r) ==
    /\ proc = "serving"
    /\ handler[r] = "before"
    /\ Statement(r, "publish")
    /\ UNCHANGED <<process, delivery>>

\* The handler awaits publish, which always returns.
Resume(r) ==
    /\ proc = "serving"
    /\ handler[r] = "publish"
    /\ at[r] = "returned"
    /\ handler' = [handler EXCEPT ![r] = "after"]
    /\ UNCHANGED <<process, conn, delivery>>

WorkAfter(r) ==
    /\ proc = "serving"
    /\ handler[r] = "after"
    /\ Statement(r, "served")
    /\ UNCHANGED <<process, delivery>>

\* The client does not wait for its answer.
HangUp(r) ==
    /\ conn[r] = "busy"
    /\ conn' = [conn EXCEPT ![r] = "closed"]
    /\ UNCHANGED <<process, handler, delivery>>

\* A connection without a request is closed by the client, by app.close or by
\* the keep-alive timeout of the HTTP server.
CloseIdle(r) ==
    /\ conn[r] = "idle"
    /\ conn' = [conn EXCEPT ![r] = "closed"]
    /\ UNCHANGED <<process, handler, delivery>>

\* What the process does for the call of a handler in publish.
Deliver(r) ==
    /\ proc = "serving"
    /\ handler[r] = "publish"
    /\ Publish(r) \/ PublishNowhere(r) \/ Headers(r) \/ Body(r) \/ TimerFires(r)
    /\ UNCHANGED <<process, requests>>

\* What may happen to it from outside.
Outside(r) ==
    /\ \/ proc = "serving" /\ ConnectionBreaks(r)
       \/ ServiceHandles(r)
       \/ ServiceLoses(r)
    /\ UNCHANGED <<process, requests>>

-----------------------------------------------------------------------------
Client(r) == Connect(r) \/ Accept(r) \/ GiveUp(r) \/ HangUp(r)
Handle(r) == WorkBefore(r) \/ Resume(r) \/ WorkAfter(r) \/ CloseIdle(r)
Shutdown(s) == EndPool(s) \/ EndPoolAgain(s) \/ Exit(s)
Main == StartupCheck \/ Listen \/ StopListening \/ PoolEnds

Next ==
    \/ Main
    \/ StartupFails \/ PoolError
    \/ \E s \in Signal : SignalBeforeHandlers(s) \/ BeginShutdown(s) \/ Shutdown(s)
    \/ \E r \in Request : Client(r) \/ Handle(r) \/ Deliver(r) \/ Outside(r)

Spec == Init /\ [][Next]_vars

\* The event loop runs what is due: the steps of main and of every shutdown,
\* handlers whose replies are in, armed timers.  The stores answer, the pool
\* closes its connections and idle connections time out.  Nothing is assumed of
\* clients, signals or the notification service.
FairSpec ==
    /\ Spec
    /\ WF_vars(Main)
    /\ \A s \in Signal : WF_vars(Shutdown(s))
    /\ \A r \in Request : WF_vars(Handle(r)) /\ WF_vars(Deliver(r))

-----------------------------------------------------------------------------
TypeOK ==
    /\ DeliveryTypeOK
    /\ proc \in {"checking", "binding", "serving"} \cup Exited
    /\ ready \in BOOLEAN
    /\ listening \in BOOLEAN
    /\ conn \in [Request -> {"none", "half", "busy", "idle", "closed"}]
    /\ handler \in [Request -> {"none", "before", "publish", "after", "served", "cut"}]
    /\ stores \in {"open", "ending", "ended"}
    /\ redis \in BOOLEAN
    /\ shutdown \in [Signal -> {"none", "closing", "ending", "done"}]

\* GET /ready answers 200 only when the start-up check has succeeded and no
\* shutdown has begun, although the flag is set before the socket listens and
\* cleared while it still does (README.md:638-639, server.ts:40-47).
ReadyOnlyWhileServing ==
    ready /\ listening => proc = "serving" /\ stores = "open" /\ Begun = {}

\* A handler whose client is waiting for the answer keeps its stores until it
\* has answered, and is not cut, whatever signals arrive in whatever order: no
\* step closes anything under it or ends the process (server.ts:44-51), but for
\* the crash on an error of the pool, to which nobody listens (pool.ts:3-5).
AwaitedRequestsKeepStores ==
    [][\A r \in Running : conn[r] = "busy" =>
          \/ stores' = "open" /\ handler'[r] # "cut"
          \/ proc' = "crashed"]_vars

\* The process exits with code 0 only when the pool has been closed in full, after
\* a signal.  A process that was serving exits with code 1 only if two shutdowns
\* ran, or in that crash (server.ts:44-54).
ExitCodeIsTrue ==
    [][/\ proc # "exit0" /\ proc' = "exit0" => stores' = "ended" /\ ~redis' /\ Begun' # {}
       /\ proc = "serving" /\ proc' = "exit1" => BegunTwice']_vars

\* Once a shutdown has begun the process ends, whatever the notification service
\* does, or waits for ever for a client that does not finish its request
\* (server.ts:44-54, HttpNotificationPublisher.ts:40).
ShutdownEnds == Begun # {} ~> (proc \in Exited \/ []HalfSent)

\* Every request that was accepted is answered, or its handler is cut off, although
\* publishing involves a service that may never answer.
RequestsEnd ==
    \A r \in Request : handler[r] = "before" ~> handler[r] \in {"served", "cut"}

-----------------------------------------------------------------------------
(* What the design suggests and the interleavings refute. *)

\* A handler that was accepted is not cut half way by an orderly shutdown.
\* Refuted: its client has hung up, so app.close does not wait for it.
ShutdownCutsNothing ==
    proc # "crashed" /\ ~BegunTwice => \A r \in Request : handler[r] # "cut"

\* A second signal during a shutdown changes nothing.
\* Refuted: the second pool.end rejects, and the process exits with 1.
SecondSignalIsHarmless == proc = "exit1" => Begun = {}

\* A shutdown ends whatever the clients do.  Refuted: app.close waits for a
\* connection that has sent half a request.  No requestTimeout or
\* connectionTimeout is set (buildApp.ts:14-19), and Node stops checking the age
\* of connections when its server is closed.
ShutdownNeedsNoClient == Begun # {} ~> proc \in Exited

=============================================================================
