------------------------ MODULE OAuthRedirectProofs ------------------------
(***************************************************************************)
(* Proofs about OAuthRedirect, for any number of requests and failures.    *)
(* A callback on the way to its answer has deleted its state, and a state  *)
(* is stored only once, before its start is answered: so what has been     *)
(* answered is not stored.                                                 *)
(***************************************************************************)
EXTENDS OAuthRedirect, TLAPS

\* Where the state of each handler is.
States ==
    \A r \in Request :
        /\ req[r].at \in {"startConfig", "storeState"} => r \notin issued
        /\ req[r].at \in {"del", "callbackConfig", "exchange"} => req[r].state \in issued
        /\ req[r].at \in {"callbackConfig", "exchange"} => req[r].state \notin stored

SettledAreGone == settled \cap stored = {}

IndInv == TypeOK /\ States /\ SettledAreGone /\ ReplayIsRefused

-----------------------------------------------------------------------------
\* A handler goes to its next step, and no other moves.
LEMMA ContinueEffect ==
    ASSUME TypeOK, NEW r \in Request, NEW step \in Step, Continue(r, step)
    PROVE  /\ req' \in [Request -> Handler]
           /\ req'[r].at = step
           /\ req'[r].state = req[r].state
           /\ req'[r].replay = req[r].replay
           /\ \A q \in Request \ {r} : req'[q] = req[q]
BY DEF TypeOK, Continue, Handler

\* The slot of a handler that has answered.
LEMMA IdleType == Idle \in Handler /\ Idle.at = "idle" /\ ~Idle.replay
BY MaxFailuresAssumption DEF Idle, Handler, Step

\* Nothing is left of a handler that has answered.
LEMMA AnswerEffect ==
    ASSUME TypeOK, NEW r \in Request, Answer(r)
    PROVE  /\ req' \in [Request -> Handler]
           /\ req'[r].at = "idle"
           /\ ~req'[r].replay
           /\ \A q \in Request \ {r} : req'[q] = req[q]
BY IdleType DEF TypeOK, Answer

\* The invariant holds before the first request.
LEMMA InitInv == Init => IndInv
<1> SUFFICES ASSUME Init PROVE IndInv
  OBVIOUS
<1>1. TypeOK
  BY IdleType, MaxFailuresAssumption DEF Init, TypeOK, Config
<1>2. States /\ SettledAreGone /\ ReplayIsRefused
  BY IdleType DEF Init, States, SettledAreGone, ReplayIsRefused
<1> QED
  BY <1>1, <1>2 DEF IndInv

\* GET /auth/google/start stores a state that no callback can have seen.
LEMMA StartInv ==
    ASSUME IndInv, NEW r \in Request, Begin(r) \/ StoreState(r)
    PROVE  IndInv'
<1> USE DEF IndInv
<1>1. CASE Begin(r)
  <2>1. /\ req' \in [Request -> Handler]
        /\ req'[r].at = "startConfig" /\ ~req'[r].replay
        /\ \A q \in Request \ {r} : req'[q] = req[q]
    BY <1>1 DEF Begin, TypeOK, Handler, Idle, Step
  <2>2. r \notin issued /\ UNCHANGED <<issued, stored, failures, honoured, settled>>
    BY <1>1 DEF Begin
  <2>3. config' \in Config
    BY <1>1 DEF Begin, Discover, TypeOK, Config
  <2> QED
    BY <2>1, <2>2, <2>3 DEF TypeOK, States, SettledAreGone, ReplayIsRefused
<1>2. CASE StoreState(r)
  <2>1. /\ req' \in [Request -> Handler]
        /\ req'[r].at = "idle" /\ ~req'[r].replay
        /\ \A q \in Request \ {r} : req'[q] = req[q]
    BY <1>2, AnswerEffect DEF StoreState
  <2>2. /\ req[r].at = "storeState" /\ issued' = issued \cup {r} /\ stored' = stored \cup {r}
        /\ UNCHANGED <<config, failures, honoured, settled>>
    BY <1>2 DEF StoreState, At
  <2>3. r \notin issued /\ r \notin settled
    BY <2>2 DEF States, TypeOK
  <2>4. States'
    <3> SUFFICES ASSUME NEW q \in Request
                 PROVE  /\ req'[q].at \in {"startConfig", "storeState"} => q \notin issued'
                        /\ req'[q].at \in {"del", "callbackConfig", "exchange"} =>
                              req'[q].state \in issued'
                        /\ req'[q].at \in {"callbackConfig", "exchange"} =>
                              req'[q].state \notin stored'
      BY DEF States
    <3>1. CASE q = r
      BY <2>1, <3>1
    <3>2. CASE q # r
      BY <2>1, <2>2, <2>3, <3>2 DEF States
    <3> QED
      BY <3>1, <3>2
  <2> QED
    BY <2>1, <2>2, <2>3, <2>4 DEF TypeOK, SettledAreGone, ReplayIsRefused
<1> QED
  BY <1>1, <1>2

\* The settled promise lets a handler go on, or ends it.
LEMMA AwaitConfigInv ==
    ASSUME IndInv, NEW r \in Request, AwaitConfig(r)
    PROVE  IndInv'
<1> USE DEF IndInv
<1>1. UNCHANGED <<config, issued, stored, failures, honoured, settled>>
  BY DEF AwaitConfig
<1>2. CASE Answer(r)
  BY <1>1, <1>2, AnswerEffect DEF TypeOK, States, SettledAreGone, ReplayIsRefused
<1>3. CASE ~Answer(r)
  <2>1. PICK step \in {"storeState", "exchange"} :
          /\ Continue(r, step)
          /\ req[r].at = IF step = "storeState" THEN "startConfig" ELSE "callbackConfig"
    BY <1>3 DEF AwaitConfig, At
  <2>2. /\ req' \in [Request -> Handler]
        /\ req'[r].at = step /\ req'[r].state = req[r].state /\ req'[r].replay = req[r].replay
        /\ \A q \in Request \ {r} : req'[q] = req[q]
    BY <2>1, ContinueEffect DEF Step
  <2> QED
    BY <1>1, <2>1, <2>2 DEF TypeOK, States, SettledAreGone, ReplayIsRefused
<1> QED
  BY <1>2, <1>3

\* consumeOAuthState: what is stored has not been answered, and DEL removes it.
LEMMA ConsumeInv ==
    ASSUME IndInv, NEW r \in Request, (\E s \in Request : GetState(r, s)) \/ DelState(r)
    PROVE  IndInv'
<1> USE DEF IndInv
<1>1. ASSUME NEW s \in Request, GetState(r, s) PROVE IndInv'
  <2>1. s \in stored /\ s \notin settled /\ s \in issued
    BY <1>1 DEF GetState, SettledAreGone, TypeOK
  <2>2. /\ req' \in [Request -> Handler]
        /\ req'[r].at = "del" /\ req'[r].state = s /\ ~req'[r].replay
        /\ \A q \in Request \ {r} : req'[q] = req[q]
    <3>1. (s \in settled) = FALSE
      BY <2>1
    <3>2. req' = [req EXCEPT ![r] = [at |-> "del", state |-> s, replay |-> FALSE,
                                     since |-> failures]]
      BY <1>1, <3>1, Zenon DEF GetState
    <3>3. [at |-> "del", state |-> s, replay |-> FALSE, since |-> failures] \in Handler
      BY DEF TypeOK, Handler, Step
    <3> QED
      BY <3>2, <3>3 DEF TypeOK
  <2>3. UNCHANGED <<config, issued, stored, failures, honoured, settled>>
    BY <1>1 DEF GetState
  <2> QED
    BY <2>1, <2>2, <2>3 DEF TypeOK, States, SettledAreGone, ReplayIsRefused
<1>2. CASE DelState(r)
  <2>1. /\ req[r].at = "del" /\ req[r].state \in issued
        /\ stored' = stored \ {req[r].state}
        /\ UNCHANGED <<issued, failures, settled>>
    BY <1>2 DEF DelState, At, States
  <2>2. /\ req' \in [Request -> Handler]
        /\ req'[r].at = "callbackConfig" /\ req'[r].state = req[r].state
        /\ req'[r].replay = req[r].replay
        /\ \A q \in Request \ {r} : req'[q] = req[q]
    BY <1>2, ContinueEffect DEF DelState, Step
  <2>3. honoured' \in [Request -> Nat] /\ config' \in Config
    BY <1>2, <2>1 DEF DelState, Discover, TypeOK, Config
  <2> QED
    BY <2>1, <2>2, <2>3 DEF TypeOK, States, SettledAreGone, ReplayIsRefused
<1> QED
  BY <1>1, <1>2

\* The exchange answers a callback whose state is gone.
LEMMA ExchangeInv ==
    ASSUME IndInv, NEW r \in Request, Exchange(r)
    PROVE  IndInv'
<1> USE DEF IndInv
<1>1. /\ req[r].state \in issued /\ req[r].state \notin stored
      /\ settled' = settled \cup {req[r].state}
      /\ UNCHANGED <<config, issued, stored, failures, honoured>>
  BY DEF Exchange, At, States
<1>2. /\ req' \in [Request -> Handler]
      /\ req'[r].at = "idle" /\ ~req'[r].replay
      /\ \A q \in Request \ {r} : req'[q] = req[q]
  BY AnswerEffect DEF Exchange
<1> QED
  BY <1>1, <1>2 DEF TypeOK, States, SettledAreGone, ReplayIsRefused

\* Discovery, expiry and failures answer no callback and store no state.
LEMMA OutsideInv ==
    ASSUME IndInv, \/ Discovery
                   \/ \E r \in Request : StateExpires(r) \/ Fail(r)
                   \/ Crash
    PROVE  IndInv'
<1> USE DEF IndInv
<1>1. CASE Discovery
  BY <1>1, MaxFailuresAssumption DEF Discovery, DiscoverySucceeds, DiscoveryFails, TypeOK, Config,
     States, SettledAreGone, ReplayIsRefused
<1>2. ASSUME NEW r \in Request, StateExpires(r) PROVE IndInv'
  BY <1>2 DEF StateExpires, TypeOK, States, SettledAreGone, ReplayIsRefused
<1>3. ASSUME NEW r \in Request, Fail(r) PROVE IndInv'
  <2>1. failures' \in 0..MaxFailures
    BY <1>3, MaxFailuresAssumption DEF Fail, TypeOK
  <2>2. UNCHANGED <<config, issued, stored, honoured, settled>> /\ Answer(r)
    BY <1>3 DEF Fail
  <2> QED
    BY <2>1, <2>2, AnswerEffect DEF TypeOK, States, SettledAreGone, ReplayIsRefused
<1>4. CASE Crash
  <2>1. failures' \in 0..MaxFailures /\ config' \in Config
    BY <1>4, MaxFailuresAssumption DEF Crash, TypeOK, Config
  <2>2. req' \in [Request -> Handler] /\ \A q \in Request : req'[q] = Idle
    BY <1>4, IdleType DEF Crash
  <2>3. UNCHANGED <<issued, stored, honoured, settled>>
    BY <1>4 DEF Crash
  <2> QED
    BY <2>1, <2>2, <2>3, IdleType DEF TypeOK, States, SettledAreGone, ReplayIsRefused
<1> QED
  BY <1>1, <1>2, <1>3, <1>4

\* Every step keeps the invariant.
LEMMA NextInv == IndInv /\ [Next]_vars => IndInv'
<1> SUFFICES ASSUME IndInv, [Next]_vars PROVE IndInv'
  OBVIOUS
<1>1. CASE UNCHANGED vars
  BY <1>1 DEF vars, IndInv, TypeOK, States, SettledAreGone, ReplayIsRefused
<1> QED
  BY <1>1, StartInv, AwaitConfigInv, ConsumeInv, ExchangeInv, OutsideInv DEF Next, Handle

\* The invariant holds throughout.
THEOREM Invariance == Spec => []IndInv
BY InitInv, NextInv, PTL DEF Spec

-----------------------------------------------------------------------------
\* Every variable keeps its type.
THEOREM TypeCorrect == Spec => []TypeOK
<1>1. IndInv => TypeOK
  BY DEF IndInv
<1> QED
  BY <1>1, Invariance, PTL

\* The replay of an answered callback is refused.
THEOREM NoReplay == Spec => []ReplayIsRefused
<1>1. IndInv => ReplayIsRefused
  BY DEF IndInv
<1> QED
  BY <1>1, Invariance, PTL

-----------------------------------------------------------------------------
(* What EveryRequestIsAnswered rests on: nobody waits for a discovery that   *)
(* is not on its way, and no handler works for ever.                         *)

Awaiting(r) == At(r, "startConfig") \/ At(r, "callbackConfig")
AwaitedIsSought == \A r \in Request : Awaiting(r) => config # "none"

\* The steps that a handler has before it.
Left(r) ==
    CASE At(r, "del") -> 3
      [] Awaiting(r) -> 2
      [] At(r, "storeState") \/ At(r, "exchange") -> 1
      [] OTHER -> 0

\* Whoever awaits the discovery document has started its discovery or come to one
\* that was started, which a process forgets only together with its handlers
\* (googleClient.ts:21-24).
THEOREM AwaitersHaveADiscovery == Spec => []AwaitedIsSought
<1>1. Init => AwaitedIsSought
  BY DEF Init, AwaitedIsSought, Awaiting, At, Idle
<1>2. TypeOK /\ AwaitedIsSought /\ [Next]_vars => AwaitedIsSought'
  <2> SUFFICES ASSUME TypeOK, AwaitedIsSought, [Next]_vars PROVE AwaitedIsSought'
    OBVIOUS
  <2>1. ASSUME NEW r \in Request, Begin(r) \/ DelState(r) PROVE config' # "none"
    BY <2>1 DEF Begin, DelState, Discover
  <2>2. ASSUME NEW r \in Request, NEW step \in Step \ {"startConfig", "callbackConfig"},
               Continue(r, step), UNCHANGED config
        PROVE  AwaitedIsSought'
    BY <2>2, ContinueEffect DEF AwaitedIsSought, Awaiting, At
  <2>3. ASSUME NEW r \in Request, Answer(r), UNCHANGED config PROVE AwaitedIsSought'
    BY <2>3, AnswerEffect DEF AwaitedIsSought, Awaiting, At
  <2>4. ASSUME NEW r \in Request, AwaitConfig(r) PROVE AwaitedIsSought'
    <3>1. Answer(r) \/ Continue(r, "storeState") \/ Continue(r, "exchange")
      BY <2>4 DEF AwaitConfig
    <3> QED
      BY <2>2, <2>3, <2>4, <3>1 DEF AwaitConfig, Step
  <2>5. ASSUME NEW r \in Request, StoreState(r) \/ Exchange(r) \/ Fail(r)
        PROVE  AwaitedIsSought'
    BY <2>3, <2>5 DEF StoreState, Exchange, Fail
  <2>6. ASSUME NEW r \in Request, NEW s \in Request, GetState(r, s) PROVE AwaitedIsSought'
    <3>1. req'[r].at = "del" /\ config' = config /\ \A q \in Request \ {r} : req'[q] = req[q]
      BY <2>6 DEF GetState, TypeOK
    <3> QED
      BY <3>1 DEF AwaitedIsSought, Awaiting, At
  <2>7. CASE Crash
    BY <2>7 DEF Crash, AwaitedIsSought, Awaiting, At, Idle
  <2>8. ASSUME Discovery \/ UNCHANGED vars \/ \E r \in Request : StateExpires(r)
        PROVE  AwaitedIsSought'
    BY <2>8 DEF Discovery, DiscoverySucceeds, DiscoveryFails, StateExpires, vars,
       AwaitedIsSought, Awaiting, At
  <2> QED
    BY <2>1, <2>4, <2>5, <2>6, <2>7, <2>8 DEF Next, Handle, AwaitedIsSought
<1> QED
  BY <1>1, <1>2, TypeCorrect, PTL DEF Spec

\* A handler in flight has at most three steps before it: each of them takes one
\* away, and nothing else in the process, in Redis or at Google gives it another.
THEOREM HandlersCountDown ==
    Spec => [][\A r \in Request :
                  /\ Handle(r) => Left(r)' < Left(r)
                  /\ r \in InFlight => Left(r)' <= Left(r)]_vars
<1>1. TypeOK /\ [Next]_vars =>
          [\A r \in Request : /\ Handle(r) => Left(r)' < Left(r)
                              /\ r \in InFlight => Left(r)' <= Left(r)]_vars
  <2> SUFFICES ASSUME TypeOK, Next, NEW r \in Request
               PROVE  /\ Handle(r) => Left(r)' < Left(r)
                      /\ r \in InFlight => Left(r)' <= Left(r)
    OBVIOUS
  <2> USE DEF Left, Awaiting, At
  <2>1. ASSUME Handle(r) PROVE Left(r)' < Left(r)
    <3>1. CASE AwaitConfig(r)
      <4>1. req'[r].at \in {"idle", "storeState", "exchange"}
        BY <3>1, AnswerEffect, ContinueEffect DEF AwaitConfig, Step
      <4> QED
        BY <3>1, <4>1 DEF AwaitConfig
    <3>2. CASE StoreState(r) \/ Exchange(r)
      <4>1. req'[r].at = "idle"
        BY <3>2, AnswerEffect DEF StoreState, Exchange
      <4> QED
        BY <3>2, <4>1 DEF StoreState, Exchange
    <3>3. CASE DelState(r)
      <4>1. req'[r].at = "callbackConfig"
        BY <3>3, ContinueEffect DEF DelState, Step
      <4> QED
        BY <3>3, <4>1 DEF DelState
    <3> QED
      BY <2>1, <3>1, <3>2, <3>3 DEF Handle
  <2>2. ASSUME r \in InFlight PROVE Left(r)' <= Left(r)
    <3>1. ASSUME req'[r] = req[r] \/ req'[r].at = "idle" PROVE Left(r)' <= Left(r)
      BY <3>1
    <3>2. ASSUME NEW q \in Request \ {r}, Handle(q) \/ Begin(q) \/ Fail(q)
          PROVE  req'[r] = req[r]
      BY <3>2 DEF Handle, AwaitConfig, StoreState, DelState, Exchange, Begin, Fail,
         Answer, Continue, TypeOK
    <3>3. ASSUME NEW q \in Request, NEW s \in Request, GetState(q, s) PROVE req'[r] = req[r]
      BY <2>2, <3>3 DEF GetState, InFlight, TypeOK
    <3>4. ASSUME Discovery \/ \E q \in Request : StateExpires(q) PROVE req' = req
      BY <3>4 DEF Discovery, DiscoverySucceeds, DiscoveryFails, StateExpires
    <3>5. ASSUME Fail(r) \/ Crash PROVE req'[r].at = "idle"
      BY <3>5, AnswerEffect DEF Fail, Crash, Idle
    <3>6. ~Begin(r)
      BY <2>2 DEF Begin, InFlight
    <3>7. Handle(r) => Left(r)' <= Left(r)
      BY <2>1
    <3> QED
      BY <3>1, <3>2, <3>3, <3>4, <3>5, <3>6, <3>7 DEF Next
  <2> QED
    BY <2>1, <2>2
<1> QED
  BY <1>1, TypeCorrect, PTL DEF Spec

=============================================================================
