------------------------- MODULE RateLimiterProofs -------------------------
(***************************************************************************)
(* Proofs about RateLimiter, for any keys, callers, routes, limits and     *)
(* windows.                                                                *)
(***************************************************************************)
EXTENDS RateLimiter, TLAPS

\* A key has let through at most as many requests as it has counted.
Counted == \A k \in Key : admitted[k] <= count[k]

\* While nothing fails, a key has at most one creator that still owes it an
\* expiry, and until then it has none.
CreatorsDiffer ==
    failures = 0 =>
        /\ \A c \in Caller : At(c, "expire") => ttl[Current(c)] = Persistent
        /\ \A c, d \in Caller :
              At(c, "expire") /\ At(d, "expire") /\ Current(c) = Current(d) => c = d

IndInv == TypeOK /\ LimitHolds /\ NoKeyIsStranded /\ Counted /\ CreatorsDiffer

-----------------------------------------------------------------------------
(* What the operators of the actions return.                                *)

\* INCR answers a count of the key's type, never 0, that exceeds the limit
\* unless it is one more than the count before.
LEMMA IncrReplyBounds ==
    ASSUME NEW k \in Key, count \in [Key -> 0..MaxCount]
    PROVE  /\ IncrReply(k) \in 1..MaxCount
           /\ IncrReply(k) <= Limit => IncrReply(k) = count[k] + 1
           /\ IncrReply(k) = 1 => count[k] = 0
  BY BoundsAssumption DEF IncrReply

\* A caller in flight works on a key.
LEMMA CurrentIsKey ==
    ASSUME TypeOK, NEW c \in Caller, ~At(c, "idle")
    PROVE  Current(c) \in Key
<1>1. caller[c].keys \in Seq(Key) /\ caller[c].keys # <<>>
  BY DEF TypeOK, CallerState
<1> QED
  BY <1>1 DEF Current

\* The tail of a sequence of two or more is not empty.
LEMMA TailNotEmpty ==
    ASSUME NEW S, NEW s \in Seq(S), Len(s) > 1
    PROVE  Tail(s) # <<>>
<1>1. Len(s) \in Int /\ Len(Tail(s)) = Len(s) - 1 /\ Len(<<>>) = 0
  OBVIOUS
<1>2. \A n \in Int : n > 1 => n - 1 # 0
  OBVIOUS
<1>3. Len(s) - 1 # 0
  BY <1>1, <1>2, Zenon
<1> QED
  BY <1>1, <1>3, Zenon

\* Leaving a key leads to the next one or to the end, never to an expiry.
LEMMA PassType ==
    ASSUME TypeOK, NEW c \in Caller, ~At(c, "idle")
    PROVE  /\ Pass(c) \in CallerState
           /\ Pass(c).at \in {"idle", "incr"}
           /\ Pass(c).at # "idle" => Pass(c).keys # <<>>
<1> DEFINE s == caller[c].keys
<1>1. s \in Seq(Key) /\ s # <<>>
  BY DEF TypeOK, CallerState
<1>2. CASE Len(s) > 1
  <2>1. Tail(s) \in Seq(Key) /\ Len(Tail(s)) = Len(s) - 1
    BY <1>1
  <2>2. Tail(s) # <<>>
    BY <1>1, <1>2, TailNotEmpty
  <2> QED
    BY <1>2, <2>1, <2>2 DEF Pass, CallerState
<1>3. CASE ~(Len(s) > 1)
  BY <1>3 DEF Pass, Idle, CallerState
<1> QED
  BY <1>2, <1>3

\* Neither does the verdict on a key.
LEMMA JudgeType ==
    ASSUME TypeOK, NEW c \in Caller, ~At(c, "idle"), NEW n \in Nat
    PROVE  /\ Judge(c, n) \in CallerState
           /\ Judge(c, n).at \in {"idle", "incr", "ttl"}
           /\ Judge(c, n).at # "idle" => Judge(c, n).keys # <<>>
<1>1. caller[c] \in CallerState /\ caller[c].keys # <<>>
  BY DEF TypeOK
<1>2. /\ [caller[c] EXCEPT !.at = "ttl"] \in CallerState
      /\ [caller[c] EXCEPT !.at = "ttl"].at = "ttl"
      /\ [caller[c] EXCEPT !.at = "ttl"].keys = caller[c].keys
  BY <1>1 DEF CallerState
<1> QED
  BY <1>1, <1>2, PassType DEF Judge

-----------------------------------------------------------------------------
(* The invariant holds initially and is preserved by every action.          *)

\* At first no key exists and no request is in flight.
LEMMA InitInv == Init => IndInv
<1> SUFFICES ASSUME Init PROVE IndInv
  OBVIOUS
<1>1. TypeOK
  BY BoundsAssumption DEF Init, TypeOK, At, Idle, CallerState, Missing, Persistent
<1>2. LimitHolds /\ NoKeyIsStranded /\ Counted
  BY BoundsAssumption DEF Init, LimitHolds, NoKeyIsStranded, Counted, Missing, Persistent
<1>3. CreatorsDiffer
  BY DEF Init, CreatorsDiffer, At, Idle
<1> QED
  BY <1>1, <1>2, <1>3 DEF IndInv

\* A request that arrives touches no key.
LEMMA ArriveInv ==
    ASSUME IndInv, NEW c \in Caller, NEW keys \in Route, Arrive(c, keys)
    PROVE  IndInv'
<1>1. [at |-> "incr", keys |-> keys] \in CallerState /\ keys # <<>>
  BY RouteAssumption DEF CallerState
<1>2. /\ caller'[c] = [at |-> "incr", keys |-> keys]
      /\ \A d \in Caller \ {c} : caller'[d] = caller[d]
      /\ caller' \in [Caller -> CallerState]
  BY <1>1 DEF Arrive, IndInv, TypeOK
<1>3. TypeOK'
  BY <1>1, <1>2 DEF Arrive, IndInv, TypeOK, At
<1>4. LimitHolds' /\ Counted'
  BY DEF Arrive, IndInv, LimitHolds, Counted
<1>5. \A d \in Caller : (At(d, "expire"))' <=> At(d, "expire")
  BY <1>2 DEF Arrive, At
<1>6. \A d \in Caller : At(d, "expire") => Current(d)' = Current(d)
  BY <1>2 DEF Arrive, At, Current
<1>7. NoKeyIsStranded'
  BY <1>5, <1>6 DEF Arrive, IndInv, NoKeyIsStranded, ExpiryOwed
<1>8. CreatorsDiffer'
  BY <1>5, <1>6 DEF Arrive, IndInv, CreatorsDiffer
<1> QED
  BY <1>3, <1>4, <1>7, <1>8 DEF IndInv

\* The INCR that creates a key makes its caller the only creator.
LEMMA IncrInv ==
    ASSUME IndInv, NEW c \in Caller, Incr(c)
    PROVE  IndInv'
<1> DEFINE k == Current(c)
           n == IncrReply(k)
           next == IF n = 1 THEN [caller[c] EXCEPT !.at = "expire"] ELSE Judge(c, n)
<1>1. TypeOK /\ At(c, "incr") /\ k \in Key
  BY CurrentIsKey DEF IndInv, Incr, At
<1>2. n \in 1..MaxCount /\ (n <= Limit => n = count[k] + 1) /\ (n = 1 => count[k] = 0)
  BY <1>1, IncrReplyBounds DEF TypeOK
<1>3. caller[c] \in CallerState /\ caller[c].keys # <<>>
  BY <1>1 DEF TypeOK, At
<1>4. /\ [caller[c] EXCEPT !.at = "expire"] \in CallerState
      /\ [caller[c] EXCEPT !.at = "expire"].at = "expire"
      /\ [caller[c] EXCEPT !.at = "expire"].keys = caller[c].keys
  BY <1>3 DEF CallerState
<1>5. /\ Judge(c, n) \in CallerState
      /\ Judge(c, n).at \in {"idle", "incr", "ttl"}
      /\ Judge(c, n).at # "idle" => Judge(c, n).keys # <<>>
  BY <1>1, <1>2, JudgeType, BoundsAssumption DEF At
<1>6. /\ next \in CallerState
      /\ next.at # "idle" => next.keys # <<>>
      /\ next.at = "expire" => n = 1 /\ next.keys = caller[c].keys
      /\ n = 1 => next.at = "expire"
  BY <1>3, <1>4, <1>5
<1>7. caller' = [caller EXCEPT ![c] = next]
  BY DEF Incr
<1>8. caller'[c] = next /\ \A d \in Caller \ {c} : caller'[d] = caller[d]
  BY <1>1, <1>7 DEF TypeOK
<1>9. /\ count' = [count EXCEPT ![k] = n]
      /\ ttl' = [ttl EXCEPT ![k] = IF @ = Missing THEN Persistent ELSE @]
      /\ admitted' = [admitted EXCEPT ![k] = IF n <= Limit THEN @ + 1 ELSE @]
      /\ failures' = failures
  BY DEF Incr
<1>10. TypeOK'
  <2>1. caller' \in [Caller -> CallerState]
    BY <1>1, <1>6, <1>7 DEF TypeOK
  <2>2. \A d \in Caller : ~At(d, "idle")' => caller'[d].keys # <<>>
    <3> SUFFICES ASSUME NEW d \in Caller, caller'[d].at # "idle"
                 PROVE  caller'[d].keys # <<>>
      BY DEF At
    <3>1. CASE d = c
      BY <3>1, <1>6, <1>8
    <3>2. CASE d # c
      BY <3>2, <1>1, <1>8 DEF TypeOK, At
    <3> QED
      BY <3>1, <3>2
  <2>3. admitted' \in [Key -> 0..MaxCount]
    BY <1>1, <1>2, <1>9, BoundsAssumption DEF TypeOK, IndInv, Counted
  <2> QED
    BY <1>1, <1>2, <1>9, <2>1, <2>2, <2>3 DEF TypeOK, Missing, Persistent
<1>11. LimitHolds' /\ Counted'
  BY <1>1, <1>2, <1>9, BoundsAssumption
  DEF TypeOK, IndInv, LimitHolds, Counted, Missing, Persistent
<1>12. \A d \in Caller \ {c} : /\ At(d, "expire")' <=> At(d, "expire")
                               /\ Current(d)' = Current(d)
  BY <1>8 DEF At, Current
<1>13. At(c, "expire")' <=> n = 1
  BY <1>6, <1>8 DEF At
<1>14. n = 1 => Current(c)' = k
  BY <1>6, <1>8 DEF Current
<1>15. ASSUME failures = 0, n = 1
       PROVE  ttl[k] = Missing /\ \A d \in Caller : At(d, "expire") => Current(d) # k
  <2>1. ttl[k] = Missing
    BY <1>1, <1>2, <1>15 DEF IndInv, LimitHolds
  <2> QED
    BY <1>15, <2>1 DEF IndInv, CreatorsDiffer, Missing, Persistent
<1>16. NoKeyIsStranded'
  <2> SUFFICES ASSUME NEW j \in Key, ttl'[j] = Persistent, failures = 0
               PROVE  ExpiryOwed(j)'
    BY <1>9 DEF NoKeyIsStranded
  <2>1. CASE ttl[j] = Persistent
    <3>1. PICK d \in Caller : At(d, "expire") /\ Current(d) = j
      BY <2>1 DEF IndInv, NoKeyIsStranded, ExpiryOwed
    <3>2. d # c
      BY <3>1, <1>1 DEF At
    <3> QED
      BY <3>1, <3>2, <1>12 DEF ExpiryOwed
  <2>2. CASE ttl[j] # Persistent
    <3>1. j = k /\ ttl[k] = Missing
      BY <2>2, <1>1, <1>9 DEF TypeOK
    <3>2. n = 1
      BY <3>1, <1>1, BoundsAssumption DEF IndInv, LimitHolds, IncrReply
    <3> QED
      BY <3>1, <3>2, <1>13, <1>14 DEF ExpiryOwed
  <2> QED
    BY <2>1, <2>2
<1>17. CreatorsDiffer'
  <2> SUFFICES ASSUME failures = 0
               PROVE  /\ \A d \in Caller : At(d, "expire")' => ttl'[Current(d)'] = Persistent
                      /\ \A d, e \in Caller :
                            /\ At(d, "expire")' /\ At(e, "expire")'
                            /\ Current(d)' = Current(e)'
                            => d = e
    BY <1>9 DEF CreatorsDiffer
  <2>1. ASSUME NEW d \in Caller, At(d, "expire")'
        PROVE  ttl'[Current(d)'] = Persistent
    <3>1. CASE d = c
      BY <2>1, <3>1, <1>1, <1>9, <1>13, <1>14, <1>15 DEF TypeOK
    <3>2. CASE d # c
      <4>1. At(d, "expire") /\ Current(d)' = Current(d) /\ ttl[Current(d)] = Persistent
        BY <2>1, <3>2, <1>12 DEF IndInv, CreatorsDiffer
      <4>2. Current(d) \in Key
        BY <4>1, <1>1, CurrentIsKey DEF At
      <4> QED
        BY <4>1, <4>2, <1>1, <1>9 DEF TypeOK, Missing, Persistent
    <3> QED
      BY <3>1, <3>2
  <2>2. ASSUME NEW d \in Caller, NEW e \in Caller, At(d, "expire")', At(e, "expire")',
               Current(d)' = Current(e)'
        PROVE  d = e
    BY <2>2, <1>12, <1>13, <1>14, <1>15 DEF IndInv, CreatorsDiffer
  <2> QED
    BY <2>1, <2>2
<1> QED
  BY <1>10, <1>11, <1>16, <1>17 DEF IndInv

\* EXPIRE pays what the creator owed.
LEMMA ExpireInv ==
    ASSUME IndInv, NEW c \in Caller, Expire(c)
    PROVE  IndInv'
<1> DEFINE k == Current(c)
<1>1. TypeOK /\ At(c, "expire") /\ k \in Key
  BY CurrentIsKey DEF IndInv, Expire, At
<1>2. /\ Judge(c, 1) \in CallerState
      /\ Judge(c, 1).at \in {"idle", "incr", "ttl"}
      /\ Judge(c, 1).at # "idle" => Judge(c, 1).keys # <<>>
  BY <1>1, JudgeType DEF At
<1>3. /\ caller' \in [Caller -> CallerState]
      /\ caller'[c] = Judge(c, 1)
      /\ \A d \in Caller \ {c} : caller'[d] = caller[d]
  BY <1>1, <1>2 DEF Expire, TypeOK
<1>4. /\ ttl' = [ttl EXCEPT ![k] = IF @ = Missing THEN @ ELSE Window]
      /\ UNCHANGED <<count, failures, admitted>>
  BY DEF Expire
<1>5. TypeOK'
  <2>1. \A d \in Caller : ~At(d, "idle")' => caller'[d].keys # <<>>
    BY <1>1, <1>2, <1>3 DEF TypeOK, At
  <2> QED
    BY <1>1, <1>3, <1>4, <2>1, BoundsAssumption DEF TypeOK, Missing, Persistent
<1>6. LimitHolds' /\ Counted'
  BY <1>1, <1>4, BoundsAssumption DEF IndInv, TypeOK, LimitHolds, Counted, Missing
<1>7. ~At(c, "expire")'
  BY <1>2, <1>3 DEF At
<1>8. \A d \in Caller \ {c} : /\ At(d, "expire")' <=> At(d, "expire")
                              /\ Current(d)' = Current(d)
  BY <1>3 DEF At, Current
<1>9. NoKeyIsStranded'
  <2> SUFFICES ASSUME NEW j \in Key, ttl'[j] = Persistent, failures = 0
               PROVE  ExpiryOwed(j)'
    BY <1>4 DEF NoKeyIsStranded
  <2>1. j # k /\ ttl[j] = Persistent
    BY <1>1, <1>4, BoundsAssumption DEF TypeOK, Missing, Persistent
  <2>2. PICK d \in Caller : At(d, "expire") /\ Current(d) = j
    BY <2>1 DEF IndInv, NoKeyIsStranded, ExpiryOwed
  <2>3. d # c
    BY <2>1, <2>2
  <2> QED
    BY <2>2, <2>3, <1>8 DEF ExpiryOwed
<1>10. CreatorsDiffer'
  <2> SUFFICES ASSUME failures = 0
               PROVE  /\ \A d \in Caller : At(d, "expire")' => ttl'[Current(d)'] = Persistent
                      /\ \A d, e \in Caller :
                            /\ At(d, "expire")' /\ At(e, "expire")'
                            /\ Current(d)' = Current(e)'
                            => d = e
    BY <1>4 DEF CreatorsDiffer
  <2>1. ASSUME NEW d \in Caller, At(d, "expire")'
        PROVE  ttl'[Current(d)'] = Persistent
    <3>1. d # c /\ At(d, "expire") /\ Current(d)' = Current(d)
      BY <2>1, <1>7, <1>8
    <3>2. Current(d) # k /\ ttl[Current(d)] = Persistent
      BY <3>1, <1>1 DEF IndInv, CreatorsDiffer
    <3>3. Current(d) \in Key
      BY <3>1, <1>1, CurrentIsKey DEF At
    <3> QED
      BY <3>1, <3>2, <3>3, <1>1, <1>4 DEF TypeOK
  <2>2. ASSUME NEW d \in Caller, NEW e \in Caller, At(d, "expire")', At(e, "expire")',
               Current(d)' = Current(e)'
        PROVE  d = e
    BY <2>2, <1>7, <1>8 DEF IndInv, CreatorsDiffer
  <2> QED
    BY <2>1, <2>2
<1> QED
  BY <1>5, <1>6, <1>9, <1>10 DEF IndInv

\* A refused request leaves.
LEMMA RefuseInv ==
    ASSUME IndInv, NEW c \in Caller, Refuse(c)
    PROVE  IndInv'
<1>1. /\ caller'[c] = Idle
      /\ \A d \in Caller \ {c} : caller'[d] = caller[d]
      /\ caller' \in [Caller -> CallerState]
  BY DEF Refuse, IndInv, TypeOK, Idle, CallerState
<1>2. TypeOK'
  BY <1>1 DEF Refuse, IndInv, TypeOK, At, Idle
<1>3. LimitHolds' /\ Counted'
  BY DEF Refuse, IndInv, LimitHolds, Counted
<1>4. \A d \in Caller : At(d, "expire")' <=> At(d, "expire")
  BY <1>1 DEF Refuse, At, Idle
<1>5. \A d \in Caller : At(d, "expire") => Current(d)' = Current(d)
  BY <1>1 DEF Refuse, At, Current
<1>6. NoKeyIsStranded'
  BY <1>4, <1>5 DEF Refuse, IndInv, NoKeyIsStranded, ExpiryOwed
<1>7. CreatorsDiffer'
  BY <1>4, <1>5 DEF Refuse, IndInv, CreatorsDiffer
<1> QED
  BY <1>2, <1>3, <1>6, <1>7 DEF IndInv

\* A key without an expiry outlives every second.
LEMMA TickInv ==
    ASSUME IndInv, Tick
    PROVE  IndInv'
<1>1. TypeOK'
  <2>1. \A d \in Caller : At(d, "idle")' <=> At(d, "idle")
    BY DEF Tick, At
  <2> QED
    BY <2>1, BoundsAssumption DEF Tick, IndInv, TypeOK, Missing, Persistent
<1>2. LimitHolds' /\ Counted'
  BY BoundsAssumption
  DEF Tick, IndInv, TypeOK, LimitHolds, Counted, Missing, Persistent
<1>3. \A k \in Key : ttl'[k] = Persistent <=> ttl[k] = Persistent
  BY BoundsAssumption DEF Tick, IndInv, TypeOK, Missing, Persistent
<1>4. \A d \in Caller : /\ At(d, "expire")' <=> At(d, "expire")
                        /\ Current(d)' = Current(d)
  BY DEF Tick, At, Current
<1>5. NoKeyIsStranded'
  BY <1>3, <1>4 DEF Tick, IndInv, NoKeyIsStranded, ExpiryOwed
<1>6. \A d \in Caller : At(d, "expire") => Current(d) \in Key
  BY CurrentIsKey DEF IndInv, At
<1>7. CreatorsDiffer'
  BY <1>3, <1>4, <1>6 DEF Tick, IndInv, CreatorsDiffer
<1> QED
  BY <1>1, <1>2, <1>5, <1>7 DEF IndInv

\* After a failure nothing is promised of expiries, and the counts still hold.
LEMMA FailInv ==
    ASSUME IndInv, NEW c \in Caller, Fail(c)
    PROVE  IndInv'
<1>1. /\ caller'[c] = Idle
      /\ \A d \in Caller \ {c} : caller'[d] = caller[d]
      /\ caller' \in [Caller -> CallerState]
  BY DEF Fail, IndInv, TypeOK, Idle, CallerState
<1>2. failures' \in 1..MaxFailures
  BY BoundsAssumption DEF Fail, IndInv, TypeOK
<1>3. TypeOK'
  BY <1>1, <1>2 DEF Fail, IndInv, TypeOK, At, Idle
<1>4. LimitHolds' /\ Counted'
  BY DEF Fail, IndInv, LimitHolds, Counted
<1> QED
  BY <1>2, <1>3, <1>4 DEF IndInv, NoKeyIsStranded, CreatorsDiffer

\* An INCR that is executed twice counts more than it lets through.
LEMMA IncrReplyLostInv ==
    ASSUME IndInv, NEW c \in Caller, IncrReplyLost(c)
    PROVE  IndInv'
<1> DEFINE k == Current(c)
           n == IncrReply(k)
<1>1. TypeOK /\ k \in Key
  BY CurrentIsKey DEF IndInv, IncrReplyLost, At
<1>2. n \in 1..MaxCount /\ n >= count[k]
  BY <1>1, BoundsAssumption DEF TypeOK, IncrReply
<1>3. failures' \in 1..MaxFailures
  BY BoundsAssumption DEF IncrReplyLost, IndInv, TypeOK
<1>4. /\ count' = [count EXCEPT ![k] = n]
      /\ ttl' = [ttl EXCEPT ![k] = IF @ = Missing THEN Persistent ELSE @]
      /\ UNCHANGED <<caller, admitted>>
  BY DEF IncrReplyLost
<1>5. TypeOK'
  <2>1. \A d \in Caller : At(d, "idle")' <=> At(d, "idle")
    BY <1>4 DEF At
  <2> QED
    BY <1>1, <1>2, <1>3, <1>4, <2>1 DEF TypeOK, Missing, Persistent
<1>6. LimitHolds' /\ Counted'
  BY <1>1, <1>2, <1>4, BoundsAssumption
  DEF TypeOK, IndInv, LimitHolds, Counted, Missing, Persistent
<1> QED
  BY <1>3, <1>5, <1>6 DEF IndInv, NoKeyIsStranded, CreatorsDiffer

\* An EXPIRE that will be executed twice changes nothing but the expiry.
LEMMA ExpireReplyLostInv ==
    ASSUME IndInv, NEW c \in Caller, ExpireReplyLost(c)
    PROVE  IndInv'
<1> DEFINE k == Current(c)
<1>1. TypeOK /\ k \in Key
  BY CurrentIsKey DEF IndInv, ExpireReplyLost, At
<1>2. failures' \in 1..MaxFailures
  BY BoundsAssumption DEF ExpireReplyLost, IndInv, TypeOK
<1>3. /\ ttl' = [ttl EXCEPT ![k] = IF @ = Missing THEN @ ELSE Window]
      /\ UNCHANGED <<count, caller, admitted>>
  BY DEF ExpireReplyLost
<1>4. TypeOK'
  <2>1. \A d \in Caller : At(d, "idle")' <=> At(d, "idle")
    BY <1>3 DEF At
  <2>2. ttl' \in [Key -> {Missing, Persistent} \cup 1..Window]
    BY <1>1, <1>3, BoundsAssumption DEF TypeOK
  <2> QED
    BY <1>1, <1>2, <1>3, <2>1, <2>2 DEF TypeOK
<1>5. LimitHolds' /\ Counted'
  BY <1>1, <1>3, BoundsAssumption DEF TypeOK, IndInv, LimitHolds, Counted, Missing
<1> QED
  BY <1>2, <1>4, <1>5 DEF IndInv, NoKeyIsStranded, CreatorsDiffer

\* An empty Redis has let nothing through.
LEMMA FlushInv ==
    ASSUME IndInv, Flush
    PROVE  IndInv'
<1>1. failures' \in 1..MaxFailures
  BY BoundsAssumption DEF Flush, IndInv, TypeOK
<1>2. TypeOK'
  <2>1. \A d \in Caller : At(d, "idle")' <=> At(d, "idle")
    BY DEF Flush, At
  <2> QED
    BY <1>1, <2>1, BoundsAssumption DEF Flush, IndInv, TypeOK, Missing, Persistent
<1>3. LimitHolds' /\ Counted'
  BY BoundsAssumption DEF Flush, LimitHolds, Counted, Missing
<1> QED
  BY <1>1, <1>2, <1>3 DEF IndInv, NoKeyIsStranded, CreatorsDiffer

\* A step that changes nothing.
LEMMA StutterInv ==
    ASSUME IndInv, UNCHANGED vars
    PROVE  IndInv'
<1>1. \A d \in Caller : /\ \A step \in {"idle", "expire"} : At(d, step)' <=> At(d, step)
                        /\ Current(d)' = Current(d)
  BY DEF vars, At, Current
<1>2. TypeOK'
  BY <1>1 DEF vars, IndInv, TypeOK
<1>3. LimitHolds' /\ Counted'
  BY DEF vars, IndInv, LimitHolds, Counted
<1>4. NoKeyIsStranded' /\ CreatorsDiffer'
  BY <1>1 DEF vars, IndInv, NoKeyIsStranded, ExpiryOwed, CreatorsDiffer
<1> QED
  BY <1>2, <1>3, <1>4 DEF IndInv

\* Every step preserves the invariant.
LEMMA NextInv == IndInv /\ [Next]_vars => IndInv'
<1> SUFFICES ASSUME IndInv, [Next]_vars PROVE IndInv'
  OBVIOUS
<1>1. ASSUME NEW c \in Caller, Consume(c) PROVE IndInv'
  BY <1>1, IncrInv, ExpireInv, RefuseInv DEF Consume
<1>2. ASSUME NEW c \in Caller, NEW keys \in Route, Arrive(c, keys) PROVE IndInv'
  BY <1>2, ArriveInv
<1>3. ASSUME NEW c \in Caller, Fail(c) \/ ReplyLost(c) PROVE IndInv'
  BY <1>3, FailInv, IncrReplyLostInv, ExpireReplyLostInv DEF ReplyLost
<1>4. CASE Tick \/ Flush
  BY <1>4, TickInv, FlushInv
<1>5. CASE UNCHANGED vars
  BY <1>5, StutterInv
<1> QED
  BY <1>1, <1>2, <1>3, <1>4, <1>5 DEF Next

-----------------------------------------------------------------------------
(* The theorems.                                                            *)

\* IndInv holds in every reachable state.
THEOREM Invariance == Spec => []IndInv
  BY InitInv, NextInv, PTL DEF Spec

\* Every variable keeps its type, and a request in flight has a key to work on
\* (TypeOK).
THEOREM TypeCorrect == Spec => []TypeOK
<1>1. IndInv => TypeOK
  BY DEF IndInv
<1> QED
  BY <1>1, Invariance, PTL

\* No window of any key ever lets more than Limit requests through, whatever
\* fails or is sent twice (LimitHolds).
THEOREM LimitIsKept == Spec => []LimitHolds
<1>1. IndInv => LimitHolds
  BY DEF IndInv
<1> QED
  BY <1>1, Invariance, PTL

\* Without failures, every key that has no expiry has a creator about to set
\* it (NoKeyIsStranded).
THEOREM NoneStranded == Spec => []NoKeyIsStranded
<1>1. IndInv => NoKeyIsStranded
  BY DEF IndInv
<1> QED
  BY <1>1, Invariance, PTL

\* Without failures, no step prolongs a window that is running: the one EXPIRE
\* finds the key without an expiry (WindowIsFixed).
THEOREM WindowsAreFixed == Spec => WindowIsFixed
<1>1. ASSUME IndInv, [Next]_vars, NEW k \in Key, ttl[k] > 0, ttl'[k] > ttl[k]
      PROVE  failures > 0
  <2>1. TypeOK /\ ttl[k] \in Int /\ ttl[k] # Persistent /\ ttl[k] # Missing
    BY <1>1, BoundsAssumption DEF IndInv, TypeOK, Missing, Persistent
  <2>2. ASSUME NEW c \in Caller, Expire(c) \/ ExpireReplyLost(c) PROVE failures > 0
    <3>1. At(c, "expire") /\ Current(c) \in Key
      BY <2>1, <2>2, CurrentIsKey DEF Expire, ExpireReplyLost, At
    <3>2. Current(c) = k
      BY <1>1, <2>1, <2>2, <3>1 DEF Expire, ExpireReplyLost, TypeOK
    <3>3. failures # 0
      BY <1>1, <2>1, <3>1, <3>2 DEF IndInv, CreatorsDiffer
    <3> QED
      BY <2>1, <3>3, BoundsAssumption DEF TypeOK
  <2>3. ASSUME NEW c \in Caller, Incr(c) \/ IncrReplyLost(c) PROVE FALSE
    <3>1. Current(c) \in Key
      BY <2>1, <2>3, CurrentIsKey DEF Incr, IncrReplyLost, At
    <3> QED
      BY <1>1, <2>1, <2>3, <3>1 DEF Incr, IncrReplyLost, TypeOK
  <2>4. CASE Tick
    BY <1>1, <2>1, <2>4 DEF Tick, TypeOK, Missing
  <2>5. CASE Flush
    BY <1>1, <2>1, <2>5 DEF Flush, Missing
  <2>6. ASSUME NEW c \in Caller, NEW keys \in Route, Arrive(c, keys) PROVE FALSE
    BY <1>1, <2>1, <2>6 DEF Arrive
  <2>7. ASSUME NEW c \in Caller, Refuse(c) \/ Fail(c) PROVE FALSE
    BY <1>1, <2>1, <2>7 DEF Refuse, Fail
  <2>8. CASE UNCHANGED vars
    BY <1>1, <2>1, <2>8 DEF vars
  <2> QED
    BY <1>1, <2>2, <2>3, <2>4, <2>5, <2>6, <2>7, <2>8 DEF Next, Consume, ReplyLost
<1>2. IndInv /\ [Next]_vars =>
        \A k \in Key : ttl[k] > 0 /\ ttl'[k] > ttl[k] => failures > 0
  BY <1>1
<1> QED
  BY <1>2, Invariance, PTL DEF Spec, WindowIsFixed

-----------------------------------------------------------------------------
(* Keys are what FixedWindow promises.                                      *)

\* The windows that the keys stand for.
Left == [k \in Key |-> IF ttl[k] = Missing THEN 0
                       ELSE IF ttl[k] = Persistent THEN Window ELSE ttl[k]]
Running == {k \in Key : ttl[k] > 0}
Broken == failures > 0

\* At first there are no windows.
LEMMA InitMaps == Init => Ideal!Init
  BY DEF Init, Ideal!Init, Missing

\* What leaves the keys alone is a stutter.
LEMMA SameKeysMap ==
    ASSUME UNCHANGED <<ttl, failures, admitted>>
    PROVE  UNCHANGED Ideal!vars
  BY DEF Ideal!vars

\* An INCR opens the window of a missing key and touches no other window.
LEMMA IncrOpens ==
    ASSUME TypeOK, NEW k \in Key,
           ttl' = [ttl EXCEPT ![k] = IF @ = Missing THEN Persistent ELSE @]
    PROVE  /\ Left' = [Left EXCEPT ![k] = IF @ = 0 THEN Window ELSE @]
           /\ Running' = Running
<1>1. \A j \in Key : ttl[j] \in {Missing, Persistent} \cup 1..Window
  BY DEF TypeOK
<1>2. \A j \in Key : ttl'[j] = IF j = k /\ ttl[k] = Missing THEN Persistent ELSE ttl[j]
  BY DEF TypeOK
<1>3. \A j \in Key : Left'[j] = IF j = k /\ Left[k] = 0 THEN Window ELSE Left[j]
  BY <1>1, <1>2, BoundsAssumption DEF Left, Missing, Persistent
<1>4. Running' = Running
  BY <1>1, <1>2 DEF Running, Missing, Persistent
<1> QED
  BY <1>3, <1>4 DEF Left

\* An INCR within the limit admits the request; one over it finds the window
\* open already.
LEMMA IncrMaps ==
    ASSUME IndInv, NEW c \in Caller, Incr(c)
    PROVE  \/ \E k \in Key : Ideal!Admit(k)
           \/ UNCHANGED Ideal!vars
<1>1. PICK k \in Key : k = Current(c)
  BY CurrentIsKey DEF IndInv, Incr, At
<1> DEFINE n == IncrReply(k)
<1>2. /\ n \in 1..MaxCount
      /\ n <= Limit => n = count[k] + 1
      /\ count[k] \in 0..MaxCount
  BY IncrReplyBounds DEF IndInv, TypeOK
<1>3. /\ ttl' = [ttl EXCEPT ![k] = IF @ = Missing THEN Persistent ELSE @]
      /\ admitted' = [admitted EXCEPT ![k] = IF n <= Limit THEN @ + 1 ELSE @]
      /\ failures' = failures
  BY <1>1 DEF Incr
<1>4. CASE n <= Limit
  <2>1. admitted[k] < Limit
    BY <1>2, <1>4, BoundsAssumption DEF IndInv, TypeOK, Counted
  <2>2. admitted' = [admitted EXCEPT ![k] = @ + 1]
    BY <1>3, <1>4
  <2>3. /\ Left' = [Left EXCEPT ![k] = IF @ = 0 THEN Window ELSE @]
        /\ Running' = Running
    BY <1>3, IncrOpens DEF IndInv
  <2>4. Ideal!Admit(k)
    BY <1>3, <2>1, <2>2, <2>3 DEF Ideal!Admit, Ideal!Opened, Left, Running
  <2> QED
    BY <2>4
<1>5. CASE ~(n <= Limit)
  <2>1. count[k] # 0
    BY <1>2, <1>5, BoundsAssumption DEF IncrReply
  <2>2. ttl[k] # Missing
    BY <2>1 DEF IndInv, LimitHolds
  <2>3. ttl' = ttl /\ admitted' = admitted
    BY <1>3, <1>5, <2>2 DEF IndInv, TypeOK
  <2> QED
    BY <1>3, <2>3, SameKeysMap
<1> QED
  BY <1>4, <1>5

\* The EXPIRE of a key starts its clock, which runs already only if something
\* has failed.
LEMMA ExpireMaps ==
    ASSUME IndInv, NEW c \in Caller, Expire(c)
    PROVE  \/ \E k \in Key : Ideal!StartClock(k)
           \/ UNCHANGED Ideal!vars
<1>1. PICK k \in Key : k = Current(c)
  BY CurrentIsKey DEF IndInv, Expire, At
<1>2. /\ ttl' = [ttl EXCEPT ![k] = IF @ = Missing THEN @ ELSE Window]
      /\ UNCHANGED <<failures, admitted>>
  BY <1>1 DEF Expire
<1>3. CASE ttl[k] = Missing
  BY <1>2, <1>3, SameKeysMap DEF IndInv, TypeOK
<1>4. CASE ttl[k] # Missing
  <2>1. \A j \in Key : ttl[j] \in {Missing, Persistent} \cup 1..Window
    BY DEF IndInv, TypeOK
  <2>2. \A j \in Key : ttl'[j] = IF j = k THEN Window ELSE ttl[j]
    BY <1>2, <1>4 DEF IndInv, TypeOK
  <2>3. Left[k] > 0
    BY <1>4, <2>1, BoundsAssumption DEF Left, Missing, Persistent
  <2>4. k \notin Running \/ Broken
    BY <1>1, <2>1, BoundsAssumption
    DEF IndInv, TypeOK, CreatorsDiffer, Expire, Running, Broken, Persistent
  <2>5. Left' = [Left EXCEPT ![k] = Window]
    <3>1. \A j \in Key : Left'[j] = IF j = k THEN Window ELSE Left[j]
      BY <2>2, BoundsAssumption DEF Left, Missing, Persistent
    <3> QED
      BY <3>1 DEF Left
  <2>6. Running' = Running \cup {k}
    BY <2>2, BoundsAssumption DEF Running
  <2>7. Ideal!StartClock(k)
    BY <1>2, <2>3, <2>4, <2>5, <2>6 DEF Ideal!StartClock, Left, Running, Broken
  <2> QED
    BY <2>7
<1> QED
  BY <1>3, <1>4

\* A second passes for the clocks that run.
LEMMA TickMaps ==
    ASSUME IndInv, Tick
    PROVE  Ideal!Tick
<1>1. \A k \in Key : ttl[k] \in {Missing, Persistent} \cup 1..Window
  BY DEF IndInv, TypeOK
<1>2. \A k \in Key : /\ ttl'[k] = IF ttl[k] = 1 THEN Missing
                                  ELSE IF ttl[k] > 0 THEN ttl[k] - 1 ELSE ttl[k]
                     /\ admitted'[k] = IF ttl[k] = 1 THEN 0 ELSE admitted[k]
  BY DEF Tick
<1> DEFINE over == {k \in Running : Left[k] = 1}
<1>3. \A k \in Key : k \in over <=> ttl[k] = 1
  <2>1. \A k \in Key : k \in Running <=> ttl[k] > 0
    BY DEF Running
  <2>2. \A k \in Key : ttl[k] > 0 => Left[k] = ttl[k]
    BY <1>1 DEF Left, Missing, Persistent
  <2>3. \A k \in Key : ttl[k] = 1 => ttl[k] > 0
    OBVIOUS
  <2> QED
    BY <2>1, <2>2, <2>3, Zenon
<1>4. \A k \in Key : Left'[k] = IF k \in Running THEN Left[k] - 1 ELSE Left[k]
  BY <1>1, <1>2, BoundsAssumption DEF Running, Left, Missing, Persistent
<1>5. admitted' = [k \in Key |-> IF k \in over THEN 0 ELSE admitted[k]]
  BY <1>3 DEF Tick
<1>6. Running' = Running \ over
  BY <1>1, <1>2, <1>3 DEF Running, Missing, Persistent
<1>7. Left' = [k \in Key |-> IF k \in Running THEN Left[k] - 1 ELSE Left[k]]
  BY <1>4 DEF Left
<1>8. failures' = failures
  BY DEF Tick
<1> QED
  BY <1>5, <1>6, <1>7, <1>8 DEF Ideal!Tick, Left, Running

\* Failures do to the windows only what FixedWindow says.
LEMMA MishapMaps ==
    ASSUME IndInv,
           Flush \/ \E c \in Caller : Fail(c) \/ ReplyLost(c)
    PROVE  Ideal!Mishap
<1>1. Broken'
  BY BoundsAssumption DEF IndInv, TypeOK, Flush, Fail, ReplyLost, IncrReplyLost,
     ExpireReplyLost, Broken
<1>2. ASSUME NEW c \in Caller, Fail(c) PROVE UNCHANGED <<admitted, ttl>>
  BY <1>2 DEF Fail
<1>3. ASSUME NEW c \in Caller, IncrReplyLost(c)
      PROVE  \E k \in Key : /\ Left' = [Left EXCEPT ![k] = IF @ = 0 THEN Window ELSE @]
                            /\ Running' = Running
                            /\ admitted' = admitted
  <2>1. PICK k \in Key : k = Current(c)
    BY <1>3, CurrentIsKey DEF IndInv, IncrReplyLost, At
  <2>2. /\ ttl' = [ttl EXCEPT ![k] = IF @ = Missing THEN Persistent ELSE @]
        /\ admitted' = admitted
    BY <1>3, <2>1 DEF IncrReplyLost
  <2> QED
    BY <2>2, IncrOpens DEF IndInv
<1>4. ASSUME Flush
      PROVE  /\ admitted' = [k \in Key |-> 0]
             /\ Left' = [k \in Key |-> 0]
             /\ Running' = {}
  BY <1>4 DEF Flush, Left, Running, Missing
<1>5. CASE \E c \in Caller : Fail(c)
  BY <1>1, <1>2, <1>5 DEF Ideal!Mishap, Broken
<1>6. ASSUME NEW c \in Caller, ExpireReplyLost(c)
      PROVE  Ideal!Mishap
  <2>1. PICK k \in Key : k = Current(c)
    BY <1>6, CurrentIsKey DEF IndInv, ExpireReplyLost, At
  <2>2. /\ ttl' = [ttl EXCEPT ![k] = IF @ = Missing THEN @ ELSE Window]
        /\ admitted' = admitted
    BY <1>6, <2>1 DEF ExpireReplyLost
  <2>3. \A j \in Key : ttl[j] \in {Missing, Persistent} \cup 1..Window
    BY DEF IndInv, TypeOK
  <2>4. CASE ttl[k] = Missing
    <3>1. UNCHANGED <<admitted, ttl>>
      BY <2>2, <2>4 DEF IndInv, TypeOK
    <3> QED
      BY <1>1, <3>1 DEF Ideal!Mishap, Broken
  <2>5. CASE ttl[k] # Missing
    <3>1. \A j \in Key : ttl'[j] = IF j = k THEN Window ELSE ttl[j]
      BY <2>2, <2>5 DEF IndInv, TypeOK
    <3>2. Left[k] > 0
      BY <2>3, <2>5, BoundsAssumption DEF Left, Missing, Persistent
    <3>3. Left' = [Left EXCEPT ![k] = Window]
      <4>1. \A j \in Key : Left'[j] = IF j = k THEN Window ELSE Left[j]
        BY <3>1, BoundsAssumption DEF Left, Missing, Persistent
      <4> QED
        BY <4>1 DEF Left
    <3>4. Running' = Running \cup {k}
      BY <3>1, BoundsAssumption DEF Running
    <3> QED
      BY <1>1, <2>2, <3>2, <3>3, <3>4 DEF Ideal!Mishap, Left, Running, Broken
  <2> QED
    BY <2>4, <2>5
<1>7. CASE \E c \in Caller : IncrReplyLost(c)
  BY <1>1, <1>3, <1>7 DEF Ideal!Mishap, Ideal!Opened, Broken, Left, Running
<1>8. CASE Flush
  BY <1>1, <1>4, <1>8 DEF Ideal!Mishap, Broken, Left, Running
<1> QED
  BY <1>5, <1>6, <1>7, <1>8 DEF ReplyLost

\* Every step is a step of the fixed windows or a stutter.
LEMMA NextMaps == IndInv /\ [Next]_vars => [Ideal!Next]_(Ideal!vars)
<1> SUFFICES ASSUME IndInv, [Next]_vars PROVE [Ideal!Next]_(Ideal!vars)
  OBVIOUS
<1>1. ASSUME NEW c \in Caller, Incr(c) PROVE [Ideal!Next]_(Ideal!vars)
  BY <1>1, IncrMaps DEF Ideal!Next
<1>2. ASSUME NEW c \in Caller, Expire(c) PROVE [Ideal!Next]_(Ideal!vars)
  BY <1>2, ExpireMaps DEF Ideal!Next
<1>3. ASSUME NEW c \in Caller, Refuse(c) PROVE UNCHANGED Ideal!vars
  BY <1>3, SameKeysMap DEF Refuse
<1>4. ASSUME NEW c \in Caller, NEW keys \in Route, Arrive(c, keys)
      PROVE  UNCHANGED Ideal!vars
  BY <1>4, SameKeysMap DEF Arrive
<1>5. CASE Tick
  BY <1>5, TickMaps DEF Ideal!Next
<1>6. CASE Flush \/ \E c \in Caller : Fail(c) \/ ReplyLost(c)
  BY <1>6, MishapMaps DEF Ideal!Next
<1>7. CASE UNCHANGED vars
  BY <1>7, SameKeysMap DEF vars
<1> QED
  BY <1>1, <1>2, <1>3, <1>4, <1>5, <1>6, <1>7 DEF Next, Consume

\* Every key is a fixed window that admits at most Limit requests and whose
\* clock starts once, for any number of callers, however their commands
\* interleave, and failures do to it only what FixedWindow says
\* (KeysAreFixedWindows).
THEOREM Refinement == Spec => KeysAreFixedWindows
<1>1. Init => Ideal!Init
  BY InitMaps
<1>2. IndInv /\ [Next]_vars => [Ideal!Next]_(Ideal!vars)
  BY NextMaps
<1>3. Spec => []IndInv
  BY Invariance
<1> QED
  BY <1>1, <1>2, <1>3, PTL DEF Spec, KeysAreFixedWindows, Ideal!Spec

=============================================================================
