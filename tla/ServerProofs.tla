---------------------------- MODULE ServerProofs ----------------------------
(***************************************************************************)
(* Proofs about Server and NotificationDelivery, for any number of         *)
(* requests and signals.  The invariant has a part for the publisher and   *)
(* one for the process: a connection in use, or a socket that listens,     *)
(* means that the process is serving and its stores are open; and once the *)
(* pool is ending, one shutdown is past app.close, so that another one     *)
(* that gets there comes second.                                           *)
(***************************************************************************)
EXTENDS Server, Integers, TLAPS

\* What the service answers "accepted" it has accepted.
AnswersAreTrue == \A c \in Call : answer[c] = "accepted" => c \in accepted

DeliveryInv == DeliveryTypeOK /\ AnswersAreTrue /\ SilenceMeansAccepted /\ WaitIsTimed

\* What is open, and what has begun, at each stage of the process.
Stages ==
    /\ proc \in {"checking", "binding"} => Begun = {} /\ stores = "open"
    /\ listening => proc = "serving" /\ stores = "open"
    /\ \A r \in Request : conn[r] \in Open => proc = "serving" /\ stores = "open"
    /\ \A r \in Request : conn[r] \in {"none", "half"} => handler[r] = "none"
    /\ \A r \in Running : proc = "serving"
    /\ ready /\ listening => Begun = {}
    /\ stores # "open" => Begun # {}
    /\ proc = "serving" /\ stores # "open" => \E s \in Signal : shutdown[s] = "ending"

IndInv == TypeOK /\ DeliveryInv /\ Stages

-----------------------------------------------------------------------------
(* The publisher *)

\* Publishing keeps the publisher's part of the invariant.
LEMMA PublishInv ==
    ASSUME DeliveryInv, NEW c \in Call, Publish(c) \/ PublishNowhere(c)
    PROVE  DeliveryInv'
BY DEF DeliveryInv, DeliveryTypeOK, AnswersAreTrue, SilenceMeansAccepted, WaitIsTimed,
   Publish, PublishNowhere, Warning

\* Reading the response: silence only after { accepted: true }.
LEMMA ResponseInv ==
    ASSUME DeliveryInv, NEW c \in Call, Headers(c) \/ Body(c)
    PROVE  DeliveryInv'
<1>1. CASE Headers(c)
  BY <1>1 DEF DeliveryInv, DeliveryTypeOK, AnswersAreTrue, SilenceMeansAccepted, WaitIsTimed,
     Headers
<1>2. CASE Body(c)
  BY <1>2 DEF DeliveryInv, DeliveryTypeOK, AnswersAreTrue, SilenceMeansAccepted, WaitIsTimed,
     Body, Return, Warning, Answer
<1> QED
  BY <1>1, <1>2

\* An abort, or a broken connection, is never silent.
LEMMA BreakInv ==
    ASSUME DeliveryInv, NEW c \in Call, Break(c)
    PROVE  DeliveryInv'
BY DEF DeliveryInv, DeliveryTypeOK, AnswersAreTrue, SilenceMeansAccepted, WaitIsTimed,
   Break, Return, Warning

\* The service takes nothing back that it has accepted.
LEMMA ServiceInv ==
    ASSUME DeliveryInv, NEW c \in Call, ServiceHandles(c) \/ ServiceLoses(c)
    PROVE  DeliveryInv'
<1>1. CASE ServiceHandles(c)
  <2>1. PICK a \in Answer :
          /\ answer' = [answer EXCEPT ![c] = a]
          /\ accepted' \in IF a = "accepted" THEN {accepted \cup {c}}
                           ELSE {accepted, accepted \cup {c}}
    BY <1>1 DEF ServiceHandles
  <2>2. /\ accepted \subseteq accepted' /\ accepted' \subseteq Call
        /\ a = "accepted" => c \in accepted'
    BY <2>1 DEF DeliveryInv, DeliveryTypeOK
  <2> QED
    BY <1>1, <2>1, <2>2 DEF DeliveryInv, DeliveryTypeOK, AnswersAreTrue, SilenceMeansAccepted,
       WaitIsTimed, ServiceHandles
<1>2. CASE ServiceLoses(c)
  BY <1>2 DEF DeliveryInv, DeliveryTypeOK, AnswersAreTrue, SilenceMeansAccepted, WaitIsTimed,
     ServiceLoses
<1> QED
  BY <1>1, <1>2

\* Steps of the process leave the publisher alone.
LEMMA DeliveryUnchanged ==
    ASSUME DeliveryInv, UNCHANGED delivery
    PROVE  DeliveryInv'
BY DEF DeliveryInv, DeliveryTypeOK, AnswersAreTrue, SilenceMeansAccepted, WaitIsTimed, delivery

-----------------------------------------------------------------------------
(* The process *)

\* The invariant holds when the process starts.
LEMMA InitInv == Init => IndInv
<1> SUFFICES ASSUME Init PROVE IndInv
  OBVIOUS
<1> USE DEF Init
<1>1. DeliveryInv
  BY DEF DeliveryInit, DeliveryInv, DeliveryTypeOK, AnswersAreTrue, SilenceMeansAccepted,
     WaitIsTimed
<1>2. TypeOK
  BY <1>1 DEF DeliveryInv, TypeOK, Exited, Request
<1>3. Begun = {} /\ Running = {}
  BY DEF Begun, Running, Request
<1>4. Stages
  BY <1>3 DEF Stages, Open, Request
<1> QED
  BY <1>1, <1>2, <1>4 DEF IndInv

\* When the process ends, no connection and no handler is left.
LEMMA DieLeavesNothing ==
    ASSUME TypeOK, NEW how \in Exited, Die(how)
    PROVE  /\ proc' = how
           /\ ~listening'
           /\ conn' \in [Request -> {"none", "half", "busy", "idle", "closed"}]
           /\ handler' \in [Request -> {"none", "before", "publish", "after", "served", "cut"}]
           /\ \A r \in Request : conn'[r] \notin Open
           /\ Running' = {}
BY DEF TypeOK, Die, Open, Running, Request, Exited

\* A step that leaves the process ended keeps the types.
LEMMA EndedTypes ==
    ASSUME TypeOK, DeliveryInv', NEW how \in Exited, Die(how), ready' = ready,
           stores' = stores, redis' \in BOOLEAN,
           shutdown' \in [Signal -> {"none", "closing", "ending", "done"}]
    PROVE  TypeOK'
<1>1. proc' = how /\ ~listening'
  BY DEF Die
<1>2. /\ conn' \in [Request -> {"none", "half", "busy", "idle", "closed"}]
      /\ handler' \in [Request -> {"none", "before", "publish", "after", "served", "cut"}]
  BY DieLeavesNothing
<1>3. ready' \in BOOLEAN /\ stores' \in {"open", "ending", "ended"} /\ listening' \in BOOLEAN
  BY <1>1 DEF TypeOK, Die
<1>4. DeliveryTypeOK'
  BY DEF DeliveryInv
<1> QED
  BY <1>1, <1>2, <1>3, <1>4 DEF TypeOK

\* A step that ends the process keeps the invariant.
LEMMA EndedInv ==
    ASSUME IndInv, DeliveryInv', NEW how \in Exited, Die(how), ready' = ready,
           stores' = stores, redis' \in BOOLEAN,
           shutdown' \in [Signal -> {"none", "closing", "ending", "done"}],
           stores = "open" \/ Begun' # {}
    PROVE  IndInv'
<1>1. TypeOK'
  BY EndedTypes DEF IndInv
<1>2. /\ proc' = how /\ ~listening' /\ Running' = {}
      /\ \A r \in Request : conn'[r] \notin Open
  BY DieLeavesNothing DEF IndInv
<1>3. \A r \in Request : conn'[r] \in {"none", "half"} => handler'[r] = "none"
  <2> SUFFICES ASSUME NEW r \in Request, conn'[r] \in {"none", "half"}
               PROVE  handler'[r] = "none"
    OBVIOUS
  <2>1. conn[r] \in {"none", "half"}
    BY DEF Die, IndInv, TypeOK
  <2>2. handler[r] = "none"
    BY <2>1 DEF IndInv, Stages
  <2> QED
    BY <2>2 DEF Die, Running
<1>4. Stages'
  BY <1>2, <1>3 DEF Stages, Exited, Request
<1> QED
  BY <1>1, <1>4 DEF IndInv

\* The steps of main.
LEMMA MainInv ==
    ASSUME IndInv, Main \/ StartupFails \/ PoolError
    PROVE  IndInv'
<1> USE DEF IndInv, TypeOK, Exited, Request
<1>1. DeliveryInv'
  BY DeliveryUnchanged DEF Main, StartupCheck, Listen, StopListening, PoolEnds, StartupFails,
     PoolError
<1>2. CASE StartupCheck
  BY <1>1, <1>2 DEF StartupCheck, DeliveryInv, Stages,
     Begun, BegunTwice, Running, requests
<1>3. CASE Listen
  BY <1>1, <1>3 DEF Listen, DeliveryInv, Stages,
     Begun, BegunTwice, Running, requests
<1>4. CASE StopListening
  BY <1>1, <1>4 DEF StopListening, DeliveryInv, Stages,
     Begun, BegunTwice, Running, requests
<1>5. CASE PoolEnds
  BY <1>1, <1>5 DEF PoolEnds, DeliveryInv, Stages,
     Begun, BegunTwice, Running, requests
<1>6. CASE StartupFails
  <2>1. Die("exit1") /\ "exit1" \in Exited
    BY <1>6 DEF StartupFails
  <2>2. ready' = ready /\ stores' = stores /\ redis' = redis /\ shutdown' = shutdown
    BY <1>6 DEF StartupFails
  <2>3. stores = "open"
    BY <1>6 DEF StartupFails, Stages
  <2> QED
    BY <1>1, <2>1, <2>2, <2>3, EndedInv
<1>7. CASE PoolError
  <2>1. Die("crashed") /\ "crashed" \in Exited
    BY <1>7 DEF PoolError
  <2>2. ready' = ready /\ stores' = stores /\ redis' = redis /\ shutdown' = shutdown
    BY <1>7 DEF PoolError
  <2>3. stores = "open"
    BY <1>7 DEF PoolError
  <2> QED
    BY <1>1, <2>1, <2>2, <2>3, EndedInv
<1> QED
  BY <1>2, <1>3, <1>4, <1>5, <1>6, <1>7 DEF Main

\* A signal begins a shutdown, or ends a process that is not ready for it.
LEMMA SignalInv ==
    ASSUME IndInv, NEW s \in Signal, SignalBeforeHandlers(s) \/ BeginShutdown(s)
    PROVE  IndInv'
<1> USE DEF IndInv, TypeOK, Exited, Request
<1>1. DeliveryInv'
  BY DeliveryUnchanged DEF SignalBeforeHandlers, BeginShutdown
<1>2. CASE SignalBeforeHandlers(s)
  <2>1. Die("killed") /\ "killed" \in Exited
    BY <1>2 DEF SignalBeforeHandlers
  <2>2. /\ ready' = ready /\ stores' = stores /\ redis' \in BOOLEAN
        /\ shutdown' \in [Signal -> {"none", "closing", "ending", "done"}]
    BY <1>2 DEF SignalBeforeHandlers
  <2>3. stores = "open"
    BY <1>2 DEF SignalBeforeHandlers, Stages
  <2> QED
    BY <1>1, <2>1, <2>2, <2>3, EndedInv
<1>3. CASE BeginShutdown(s)
  <2>1. s \in Begun' /\ Begun \subseteq Begun'
    BY <1>3 DEF BeginShutdown, Begun
  <2>2. \A t \in Signal : shutdown[t] = "ending" => shutdown'[t] = "ending"
    BY <1>3 DEF BeginShutdown
  <2> QED
    BY <1>1, <1>3, <2>1, <2>2 DEF BeginShutdown, DeliveryInv, Stages,
       Running, requests
<1> QED
  BY <1>2, <1>3

\* What a shutdown does once app.close has resolved.
LEMMA ShutdownInv ==
    ASSUME IndInv, NEW s \in Signal, Shutdown(s)
    PROVE  IndInv'
<1> USE DEF IndInv, TypeOK, Exited, Request
<1>1. DeliveryInv'
  BY DeliveryUnchanged DEF Shutdown, EndPool, EndPoolAgain, Exit
<1>2. CASE EndPool(s)
  <2>1. s \in Begun' /\ shutdown'[s] = "ending"
    BY <1>2 DEF EndPool, Begun
  <2> QED
    BY <1>1, <1>2, <2>1 DEF EndPool, Closed, DeliveryInv, Stages,
       Running, requests
<1>3. CASE EndPoolAgain(s)
  <2>1. Die("exit1") /\ "exit1" \in Exited
    BY <1>3 DEF EndPoolAgain
  <2>2. /\ ready' = ready /\ stores' = stores /\ redis' \in BOOLEAN
        /\ shutdown' \in [Signal -> {"none", "closing", "ending", "done"}]
    BY <1>3 DEF EndPoolAgain
  <2>3. s \in Begun'
    BY <1>3 DEF EndPoolAgain, Begun
  <2> QED
    BY <1>1, <2>1, <2>2, <2>3, EndedInv
<1>4. CASE Exit(s)
  <2>1. Die("exit0") /\ "exit0" \in Exited
    BY <1>4 DEF Exit
  <2>2. /\ ready' = ready /\ stores' = stores /\ redis' \in BOOLEAN
        /\ shutdown' \in [Signal -> {"none", "closing", "ending", "done"}]
    BY <1>4 DEF Exit
  <2>3. s \in Begun'
    BY <1>4 DEF Exit, Begun
  <2> QED
    BY <1>1, <2>1, <2>2, <2>3, EndedInv
<1> QED
  BY <1>2, <1>3, <1>4 DEF Shutdown

\* Requests come, run and go while the process serves.
LEMMA RequestInv ==
    ASSUME IndInv, NEW r \in Request, Client(r) \/ Handle(r)
    PROVE  IndInv'
<1> USE DEF IndInv, TypeOK, Exited, Request
<1>1. DeliveryInv'
  BY DeliveryUnchanged DEF Client, Connect, Accept, GiveUp, HangUp, Handle, WorkBefore, Resume,
     WorkAfter, CloseIdle
<1>2. UNCHANGED process
  BY DEF Client, Connect, Accept, GiveUp, HangUp, Handle, WorkBefore, Resume,
     WorkAfter, CloseIdle
<1>3. Begun' = Begun /\ BegunTwice' = BegunTwice
  BY <1>2 DEF process, Begun, BegunTwice
<1>4. CASE Accept(r)
  BY <1>1, <1>2, <1>3, <1>4 DEF Accept, process, DeliveryInv, Stages, Open, Running
<1>5. CASE WorkBefore(r)
  BY <1>1, <1>2, <1>3, <1>5 DEF WorkBefore, Statement, process, DeliveryInv, Stages,
     Open, Running
<1>6. CASE Resume(r)
  BY <1>1, <1>2, <1>3, <1>6 DEF Resume, process, DeliveryInv, Stages, Open, Running
<1>7. CASE WorkAfter(r)
  BY <1>1, <1>2, <1>3, <1>7 DEF WorkAfter, Statement, process, DeliveryInv, Stages,
     Open, Running
<1>8. CASE Connect(r) \/ GiveUp(r)
  BY <1>1, <1>2, <1>3, <1>8 DEF Connect, GiveUp, process, DeliveryInv, Stages,
     Open, Running
<1>9. CASE CloseIdle(r) \/ HangUp(r)
  BY <1>1, <1>2, <1>3, <1>9 DEF CloseIdle, HangUp, process, DeliveryInv, Stages,
     Open, Running
<1> QED
  BY <1>4, <1>5, <1>6, <1>7, <1>8, <1>9 DEF Client, Handle

\* Steps that touch only the publisher's state.
LEMMA DeliverInv ==
    ASSUME IndInv, UNCHANGED <<process, requests>>, DeliveryInv'
    PROVE  IndInv'
BY DEF IndInv, TypeOK, DeliveryInv, Stages, Begun, BegunTwice, Running,
   process, requests

\* Every step keeps the invariant.
LEMMA NextInv == IndInv /\ [Next]_vars => IndInv'
<1> SUFFICES ASSUME IndInv, [Next]_vars PROVE IndInv'
  OBVIOUS
<1>1. CASE UNCHANGED vars
  BY <1>1, DeliveryUnchanged, DeliverInv DEF vars, IndInv
<1>2. ASSUME NEW r \in Request, Deliver(r) \/ Outside(r) PROVE IndInv'
  BY <1>2, PublishInv, ResponseInv, BreakInv, ServiceInv, DeliverInv
     DEF Deliver, Outside, TimerFires, ConnectionBreaks, IndInv, Request
<1> QED
  BY <1>1, <1>2, MainInv, SignalInv, ShutdownInv, RequestInv DEF Next

\* The invariant holds throughout.
THEOREM Invariance == Spec => []IndInv
BY InitInv, NextInv, PTL DEF Spec

-----------------------------------------------------------------------------
\* Every variable keeps its type.
THEOREM TypeCorrect == Spec => []TypeOK
<1>1. IndInv => TypeOK
  BY DEF IndInv
<1> QED
  BY <1>1, Invariance, PTL

\* A publish that logs nothing was accepted by the service.
THEOREM NoSilentLoss == Spec => []SilenceMeansAccepted
<1>1. IndInv => SilenceMeansAccepted
  BY DEF IndInv, DeliveryInv
<1> QED
  BY <1>1, Invariance, PTL

\* No publish waits without its abort timer.
THEOREM WaitsAreTimed == Spec => []WaitIsTimed
<1>1. IndInv => WaitIsTimed
  BY DEF IndInv, DeliveryInv
<1> QED
  BY <1>1, Invariance, PTL

\* /ready answers 200 only between the start-up check and the first signal.
THEOREM ReadyIsServing == Spec => []ReadyOnlyWhileServing
<1>1. IndInv => ReadyOnlyWhileServing
  BY DEF IndInv, Stages, ReadyOnlyWhileServing
<1> QED
  BY <1>1, Invariance, PTL

\* However many signals arrive, no step takes the stores from a request whose client
\* waits, or cuts it, except the crash on an error of the pool.
THEOREM StoresOutliveRequests == Spec => AwaitedRequestsKeepStores
<1>1. IndInv /\ [Next]_vars =>
          [\A r \in Running : conn[r] = "busy" =>
              \/ stores' = "open" /\ handler'[r] # "cut"
              \/ proc' = "crashed"]_vars
  <2> SUFFICES ASSUME IndInv, Next, NEW r \in Running, conn[r] = "busy", proc' # "crashed"
               PROVE  stores' = "open" /\ handler'[r] # "cut"
    OBVIOUS
  <2>1. r \in Request /\ handler[r] # "cut"
    BY DEF Running
  <2>2. proc = "serving" /\ stores = "open" /\ ~Closed
    BY <2>1 DEF IndInv, Stages, Closed, Open
  <2>3. ASSUME NEW q \in Request, Client(q) \/ Handle(q) PROVE handler'[r] # "cut"
    BY <2>1, <2>2, <2>3 DEF Client, Connect, Accept, GiveUp, HangUp, Handle, WorkBefore,
       Resume, WorkAfter, CloseIdle, Statement, IndInv, TypeOK
  <2>4. ASSUME NEW q \in Request, Client(q) \/ Handle(q) \/ Deliver(q) \/ Outside(q)
        PROVE  stores' = stores
    BY <2>4 DEF Client, Connect, Accept, GiveUp, HangUp, Handle, WorkBefore, Resume,
       WorkAfter, CloseIdle, Deliver, Outside, process
  <2>5. ASSUME NEW q \in Request, Deliver(q) \/ Outside(q) PROVE handler' = handler
    BY <2>5 DEF Deliver, Outside, requests
  <2>6. ASSUME Main PROVE stores' = stores /\ handler' = handler
    BY <2>2, <2>6 DEF Main, StartupCheck, Listen, StopListening, PoolEnds, requests
  <2>7. ~StartupFails /\ ~PoolError
    BY <2>2 DEF StartupFails, PoolError, Die
  <2>8. ASSUME NEW s \in Signal, BeginShutdown(s) PROVE stores' = stores /\ handler' = handler
    BY <2>8 DEF BeginShutdown, requests
  <2>9. ASSUME NEW s \in Signal PROVE ~SignalBeforeHandlers(s) /\ ~Shutdown(s)
    BY <2>2 DEF SignalBeforeHandlers, Shutdown, EndPool, EndPoolAgain, Exit
  <2> QED
    BY <2>1, <2>2, <2>3, <2>4, <2>5, <2>6, <2>7, <2>8, <2>9 DEF Next
<1> QED
  BY <1>1, Invariance, PTL DEF Spec, AwaitedRequestsKeepStores

\* Code 0 follows an orderly shutdown, and code 1 of a process that was serving two
\* shutdowns, but for the crash.
THEOREM ExitCode == Spec => ExitCodeIsTrue
<1>1. IndInv /\ [Next]_vars =>
          [/\ proc # "exit0" /\ proc' = "exit0" => stores' = "ended" /\ ~redis' /\ Begun' # {}
           /\ proc = "serving" /\ proc' = "exit1" => BegunTwice']_vars
  <2> SUFFICES ASSUME IndInv, Next
               PROVE  /\ proc # "exit0" /\ proc' = "exit0" =>
                             stores' = "ended" /\ ~redis' /\ Begun' # {}
                      /\ proc = "serving" /\ proc' = "exit1" => BegunTwice'
    OBVIOUS
  <2>1. ASSUME NEW s \in Signal, Exit(s)
        PROVE  proc' = "exit0" /\ stores' = "ended" /\ ~redis' /\ Begun' # {}
    BY <2>1 DEF Exit, Die, Begun, IndInv, TypeOK
  <2>2. ASSUME NEW s \in Signal, EndPoolAgain(s)
        PROVE  proc' = "exit1" /\ BegunTwice'
    <3>1. PICK t \in Signal : shutdown[t] = "ending"
      BY <2>2 DEF EndPoolAgain, IndInv, Stages
    <3>2. s \in Begun' /\ t \in Begun' /\ s # t
      BY <2>2, <3>1 DEF EndPoolAgain, Begun, IndInv, TypeOK
    <3> QED
      BY <2>2, <3>2 DEF EndPoolAgain, Die, BegunTwice
  <2>3. ASSUME NEW s \in Signal, SignalBeforeHandlers(s) PROVE proc' = "killed"
    BY <2>3 DEF SignalBeforeHandlers, Die
  <2>4. ASSUME NEW s \in Signal, BeginShutdown(s) \/ EndPool(s) PROVE proc' = proc
    BY <2>4 DEF BeginShutdown, EndPool
  <2>5. ASSUME Main PROVE proc' = proc \/ proc' \in {"binding", "serving"}
    BY <2>5 DEF Main, StartupCheck, Listen, StopListening, PoolEnds
  <2>6. ASSUME StartupFails \/ PoolError
        PROVE  proc' = "crashed" \/ (proc # "serving" /\ proc' = "exit1")
    BY <2>6 DEF StartupFails, PoolError, Die
  <2>7. ASSUME NEW r \in Request, Client(r) \/ Handle(r) \/ Deliver(r) \/ Outside(r)
        PROVE  proc' = proc
    BY <2>7 DEF Client, Connect, Accept, GiveUp, HangUp, Handle, WorkBefore, Resume,
       WorkAfter, CloseIdle, Deliver, Outside, process
  <2> QED
    BY <2>1, <2>2, <2>3, <2>4, <2>5, <2>6, <2>7 DEF Next, Shutdown
<1> QED
  BY <1>1, Invariance, PTL DEF Spec, ExitCodeIsTrue

-----------------------------------------------------------------------------
(* What ShutdownEnds and RequestsEnd rest on: a shutdown always has somebody *)
(* whose turn it is, and no request works for ever.                          *)

\* Every shutdown of a process that serves is on its way, one that is ending the
\* pool has called its end, and a request in flight has a handler.
Turns ==
    /\ proc = "serving" => \A s \in Signal : shutdown[s] # "done"
    /\ \A s \in Signal : shutdown[s] = "ending" => stores # "open"
    /\ \A r \in Request : conn[r] = "busy" => r \in Running

\* After a signal: the steps of main, of the shutdowns and of the requests with a
\* connection that wait for nobody else.
SomethingIsDue ==
    \/ listening
    \/ stores = "ending"
    \/ \E s \in Signal : \/ shutdown[s] = "closing" /\ Closed
                         \/ shutdown[s] = "ending" /\ stores = "ended"
    \/ \E r \in Request : conn[r] = "idle"
    \/ \E r \in Request :
          /\ conn[r] = "busy"
          /\ \/ handler[r] \in {"before", "after"}
             \/ handler[r] = "publish" /\ (at[r] \in {"idle", "returned"} \/ r \in timer)

\* It holds when the process has ended.
LEMMA EndedTurns ==
    ASSUME IndInv, Turns, NEW how \in Exited, Die(how), stores' = stores,
           \A s \in Signal : shutdown'[s] = "ending" => shutdown[s] = "ending"
    PROVE  Turns'
<1>1. proc' # "serving" /\ \A r \in Request : conn'[r] # "busy"
  BY DieLeavesNothing DEF IndInv, Open, Exited
<1> QED
  BY <1>1 DEF Turns

\* Steps of the process.
LEMMA ProcessTurns ==
    ASSUME IndInv, Turns,
           \/ Main \/ StartupFails \/ PoolError
           \/ \E s \in Signal : SignalBeforeHandlers(s) \/ BeginShutdown(s) \/ Shutdown(s)
    PROVE  Turns'
<1> USE DEF IndInv, TypeOK
<1>1. CASE StartupCheck \/ StopListening \/ PoolEnds
  BY <1>1 DEF StartupCheck, StopListening, PoolEnds, Turns, Running, requests
<1>2. CASE Listen
  <2>1. \A s \in Signal : shutdown[s] = "none"
    BY <1>2 DEF Listen, Stages, Begun
  <2> QED
    BY <1>2, <2>1 DEF Listen, Turns, Running, requests
<1>3. CASE StartupFails \/ PoolError
  BY <1>3, EndedTurns DEF StartupFails, PoolError, Exited
<1>4. ASSUME NEW s \in Signal, SignalBeforeHandlers(s) PROVE Turns'
  BY <1>4, EndedTurns DEF SignalBeforeHandlers, Exited
<1>5. ASSUME NEW s \in Signal, BeginShutdown(s) \/ EndPool(s) PROVE Turns'
  BY <1>5 DEF BeginShutdown, EndPool, Turns, Running, requests
<1>6. ASSUME NEW s \in Signal, EndPoolAgain(s) PROVE Turns'
  BY <1>6, EndedTurns DEF EndPoolAgain, Exited
<1>7. ASSUME NEW s \in Signal, Exit(s) PROVE Turns'
  BY <1>7, EndedTurns DEF Exit, Exited
<1> QED
  BY <1>1, <1>2, <1>3, <1>4, <1>5, <1>6, <1>7 DEF Main, Shutdown

\* Steps of a request: its connection stays busy as long as its handler runs.
LEMMA RequestTurns ==
    ASSUME IndInv, Turns, NEW r \in Request,
           Client(r) \/ Handle(r) \/ Deliver(r) \/ Outside(r)
    PROVE  Turns'
<1> USE DEF IndInv, TypeOK, Turns, Running, process
<1>1. CASE Accept(r)
  BY <1>1 DEF Accept
<1>2. CASE WorkBefore(r) \/ WorkAfter(r)
  BY <1>2 DEF WorkBefore, WorkAfter, Statement
<1>3. CASE Resume(r)
  BY <1>3 DEF Resume
<1>4. CASE Connect(r) \/ GiveUp(r) \/ CloseIdle(r) \/ HangUp(r)
  BY <1>4 DEF Connect, GiveUp, CloseIdle, HangUp
<1>5. CASE Deliver(r) \/ Outside(r)
  BY <1>5 DEF Deliver, Outside, requests
<1> QED
  BY <1>1, <1>2, <1>3, <1>4, <1>5 DEF Client, Handle

\* Once a shutdown has begun there is always a step that waits neither for a client
\* nor for the notification service, or a client that has not sent the whole of its
\* request: for any number of requests and signals, the shutdown hangs for no other
\* reason (server.ts:44-51).
THEOREM ShutdownIsNeverStuck ==
    Spec => [](proc = "serving" /\ Begun # {} => SomethingIsDue \/ HalfSent)
<1>1. Init => Turns
  BY DEF Init, Turns
<1>2. IndInv /\ Turns /\ [Next]_vars => Turns'
  <2>1. ASSUME Turns, UNCHANGED vars PROVE Turns'
    BY <2>1 DEF Turns, vars, process, requests, Running
  <2> QED
    BY <2>1, ProcessTurns, RequestTurns DEF Next
<1>3. IndInv /\ Turns => (proc = "serving" /\ Begun # {} => SomethingIsDue \/ HalfSent)
  <2> SUFFICES ASSUME IndInv, Turns, proc = "serving", Begun # {}, ~SomethingIsDue, ~HalfSent
               PROVE  FALSE
    OBVIOUS
  <2>1. PICK s \in Signal : shutdown[s] \in {"closing", "ending"}
    BY DEF Turns, Begun, IndInv, TypeOK
  <2>2. CASE shutdown[s] = "ending"
    BY <2>2 DEF Turns, SomethingIsDue, IndInv, TypeOK
  <2>3. CASE shutdown[s] = "closing"
    <3>1. ~Closed /\ ~listening
      BY <2>3 DEF SomethingIsDue
    <3>2. PICK r \in Request : conn[r] = "busy"
      BY <3>1 DEF Closed, Open, HalfSent, SomethingIsDue
    <3>3. handler[r] = "publish" /\ at[r] \in {"fetch", "body"} /\ r \notin timer
      BY <3>2 DEF Turns, Running, SomethingIsDue, IndInv, TypeOK, DeliveryTypeOK, Request
    <3> QED
      BY <3>3 DEF IndInv, DeliveryInv, WaitIsTimed, Request
  <2> QED
    BY <2>1, <2>2, <2>3
<1> QED
  BY <1>1, <1>2, <1>3, Invariance, PTL DEF Spec

\* A bound on the steps that a request has before it.
Work(r) ==
    (CASE handler[r] = "before" -> 12
       [] handler[r] = "publish" /\ at[r] = "idle" -> 10
       [] handler[r] = "publish" /\ at[r] = "fetch" -> 8
       [] handler[r] = "publish" /\ at[r] = "body" -> 6
       [] handler[r] = "publish" /\ at[r] = "returned" -> 4
       [] handler[r] = "after" -> 2
       [] OTHER -> 0)
    + (IF conn[r] \in {"busy", "idle"} THEN 1 ELSE 0)

\* What a step of its own does to it.
LEMMA WorkGetsLess ==
    ASSUME IndInv, NEW r \in Request, Handle(r) \/ Deliver(r)
    PROVE  Work(r)' < Work(r)
<1> USE DEF IndInv, TypeOK, DeliveryTypeOK, Request
<1>1. CASE WorkBefore(r)
  <2>1. /\ handler[r] = "before" /\ handler'[r] \in {"publish", "cut"}
        /\ at'[r] \in {"idle", "fetch", "body", "returned"}
        /\ conn'[r] \in {"busy", "idle"} => conn[r] \in {"busy", "idle"}
    BY <1>1 DEF WorkBefore, Statement, delivery
  <2> QED
    BY <2>1 DEF Work
<1>2. CASE WorkAfter(r)
  <2>1. /\ handler[r] = "after" /\ handler'[r] \in {"served", "cut"}
        /\ conn'[r] \in {"busy", "idle"} => conn[r] \in {"busy", "idle"}
    BY <1>2 DEF WorkAfter, Statement
  <2> QED
    BY <2>1 DEF Work
<1>3. CASE Resume(r)
  BY <1>3 DEF Resume, Work
<1>4. CASE CloseIdle(r)
  BY <1>4 DEF CloseIdle, Work, delivery
<1>5. CASE Deliver(r)
  <2>1. handler[r] = "publish" /\ handler'[r] = "publish" /\ conn'[r] = conn[r]
    BY <1>5 DEF Deliver, requests
  <2>2. \/ at[r] = "idle" /\ at'[r] \in {"fetch", "returned"}
        \/ at[r] = "fetch" /\ at'[r] \in {"body", "returned"}
        \/ at[r] = "body" /\ at'[r] = "returned"
    BY <1>5 DEF Deliver, Publish, PublishNowhere, Headers, Body, TimerFires, Break, Return
  <2> QED
    BY <2>1, <2>2 DEF Work
<1> QED
  BY <1>1, <1>2, <1>3, <1>4, <1>5 DEF Handle

\* A request that was accepted has at most 13 steps before it; each of its own
\* takes one away, and no step of the process, of a client or of the notification
\* service gives it another (register.ts:57-110).
THEOREM RequestsCountDown ==
    Spec => [][\A r \in Request :
                  /\ Handle(r) \/ Deliver(r) => Work(r)' < Work(r)
                  /\ handler[r] # "none" => Work(r)' <= Work(r)]_vars
<1>1. IndInv /\ [Next]_vars =>
          [\A r \in Request : /\ Handle(r) \/ Deliver(r) => Work(r)' < Work(r)
                              /\ handler[r] # "none" => Work(r)' <= Work(r)]_vars
  <2> SUFFICES ASSUME IndInv, Next, NEW r \in Request
               PROVE  /\ Handle(r) \/ Deliver(r) => Work(r)' < Work(r)
                      /\ handler[r] # "none" => Work(r)' <= Work(r)
    OBVIOUS
  <2>1. CASE Handle(r) \/ Deliver(r)
    <3>1. Work(r) \in Int /\ Work(r)' \in Int
      BY DEF IndInv, TypeOK, Work
    <3> QED
      BY <2>1, <3>1, WorkGetsLess
  <2>2. ASSUME \/ at'[r] = at[r]
               \/ at[r] \in {"fetch", "body"} /\ at'[r] = "returned",
               handler'[r] = handler[r] \/ handler'[r] = "cut",
               conn'[r] = conn[r] \/ conn'[r] = "closed"
        PROVE  Work(r)' <= Work(r)
    BY <2>2 DEF Work
  <2>3. ASSUME NEW how, Die(how), UNCHANGED delivery
        PROVE  Work(r)' <= Work(r)
    BY <2>2, <2>3 DEF Die, delivery, IndInv, TypeOK, Work
  <2>4. ASSUME UNCHANGED <<requests, delivery>> PROVE Work(r)' <= Work(r)
    BY <2>2, <2>4 DEF requests, delivery
  <2>5. ASSUME NEW q \in Request \ {r}, Client(q) \/ Handle(q)
        PROVE  Work(r)' <= Work(r)
    <3>1. handler'[r] = handler[r] /\ conn'[r] = conn[r] /\ at' = at
      BY <2>5 DEF Client, Connect, Accept, GiveUp, HangUp, Handle, WorkBefore, Resume,
         WorkAfter, CloseIdle, Statement,
         delivery, IndInv, TypeOK
    <3> QED
      BY <2>2, <3>1
  <2>6. ASSUME NEW q \in Request \ {r}, Deliver(q) \/ Outside(q)
        PROVE  Work(r)' <= Work(r)
    <3>1. handler' = handler /\ conn' = conn
      BY <2>6 DEF Deliver, Outside, requests
    <3>2. at'[r] = at[r]
      BY <2>6 DEF Deliver, Outside, Publish, PublishNowhere, Headers, Body, TimerFires,
         ConnectionBreaks, Break, Return, ServiceHandles, ServiceLoses,
         IndInv, TypeOK, DeliveryTypeOK, Request
    <3> QED
      BY <2>2, <3>1, <3>2
  <2>7. ASSUME HangUp(r) PROVE Work(r)' <= Work(r)
    <3>1. handler' = handler /\ at' = at /\ conn'[r] = "closed"
      BY <2>7 DEF HangUp, delivery, IndInv, TypeOK
    <3> QED
      BY <2>2, <3>1
  <2>8. ASSUME Outside(r) PROVE Work(r)' <= Work(r)
    <3>1. handler' = handler /\ conn' = conn
      BY <2>8 DEF Outside, requests
    <3>2. ASSUME Break(r) PROVE at[r] \in {"fetch", "body"} /\ at'[r] = "returned"
      BY <3>2 DEF Break, Return, IndInv, TypeOK, DeliveryTypeOK, Request
    <3>3. ServiceHandles(r) \/ ServiceLoses(r) => at' = at
      BY DEF ServiceHandles, ServiceLoses
    <3>4. Break(r) \/ ServiceHandles(r) \/ ServiceLoses(r)
      BY <2>8 DEF Outside, ConnectionBreaks
    <3> QED
      BY <2>2, <3>1, <3>2, <3>3, <3>4
  <2>9. ASSUME Main PROVE Work(r)' <= Work(r)
    BY <2>4, <2>9 DEF Main, StartupCheck, Listen, StopListening, PoolEnds
  <2>10. ASSUME StartupFails \/ PoolError PROVE Work(r)' <= Work(r)
    BY <2>3, <2>10 DEF StartupFails, PoolError
  <2>11. ASSUME NEW s \in Signal, SignalBeforeHandlers(s) \/ EndPoolAgain(s) \/ Exit(s)
         PROVE  Work(r)' <= Work(r)
    BY <2>3, <2>11 DEF SignalBeforeHandlers, EndPoolAgain, Exit
  <2>12. ASSUME NEW s \in Signal, BeginShutdown(s) \/ EndPool(s)
         PROVE  Work(r)' <= Work(r)
    BY <2>4, <2>12 DEF BeginShutdown, EndPool
  <2>13. Connect(r) \/ Accept(r) \/ GiveUp(r) => handler[r] = "none"
    BY DEF Connect, Accept, GiveUp, IndInv, Stages
  <2> QED
    BY <2>1, <2>5, <2>6, <2>7, <2>8, <2>9, <2>10, <2>11, <2>12, <2>13
       DEF Next, Client, Shutdown
<1> QED
  BY <1>1, Invariance, PTL DEF Spec

=============================================================================
