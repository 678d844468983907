--------------------------- MODULE PhoneOtpProofs ---------------------------
(***************************************************************************)
(* Proofs about PhoneOtp, for any users, numbers, handlers and settings,   *)
(* and that it implements OneTimeSecret.                                   *)
(***************************************************************************)
EXTENDS PhoneOtp, TLAPS

Requesting == {"checkOwner", "acquireCooldown", "storeChallenge"}

\* A live code has been issued, to one user only.
CodesAreFresh ==
    /\ \A u \in User : Live(u) => challenge[u].code \in issued
    /\ \A u, w \in User :
          Live(u) /\ Live(w) /\ challenge[u].code = challenge[w].code => u = w

\* A handler that will send a code has told it to nobody; one that submits a code
\* has it from somebody who was told; one that writes or sends a number has the
\* account's own.
HandlersAgree ==
    \A r \in Request :
        /\ req[r].at # "idle" => req[r].user \in User
        /\ req[r].at \in Requesting => r \notin told
        /\ req[r].at = "evalScript" => req[r].code \in told \cup {WrongCode}
        /\ req[r].at \in Requesting \cup {"markVerified"} =>
              req[r].phone \in Phone /\ req[r].phone = phone[req[r].user]

\* The parts of the invariant that are about the challenges alone.
ChallengesAgree ==
    CodesAreFresh /\ CodeIsSingleUse /\ GuessesAreBounded /\ GuessesDoNotRenew

IndInv == TypeOK /\ ChallengesAgree /\ HandlersAgree /\ NumberIsTheAccounts

\* A code that its handler may yet store again is live for the handler's own user
\* only.
CodesHaveOwners ==
    \A r \in Request, u \in User :
        req[r].at \in Requesting /\ Live(u) /\ challenge[u].code = r => u = req[r].user

-----------------------------------------------------------------------------
(* What the operators of the actions return.                                *)

\* The script's rewriting adds one attempt and at most two quarters of life.
LEMMA RewrittenBounds ==
    ASSUME NEW c \in Challenge, c.attempts + 1 < MaxAttempts,
           c.ttl # Persistent => c.age + c.ttl <= Second * OtpTtl + 2 * c.attempts
    PROVE  /\ Rewritten(c) \in Challenge
           /\ Rewritten(c).code = c.code /\ Rewritten(c).phone = c.phone
           /\ Rewritten(c).attempts = c.attempts + 1
           /\ Rewritten(c).ttl # Persistent =>
                 Rewritten(c).age + Rewritten(c).ttl
                    <= Second * OtpTtl + 2 * Rewritten(c).attempts
<1> DEFINE q == c.ttl
           ttl == IF q = Persistent THEN 0 ELSE TtlSeconds(q)
           new == IF ttl > 0 THEN Second * ttl ELSE Persistent
<1>1. /\ c.attempts \in 0..(MaxAttempts - 1) /\ c.age \in 0..MaxLife
      /\ q \in {Persistent} \cup 1..MaxLife /\ c.code \in Request /\ c.phone \in Phone
  BY DEF Challenge
<1>2. Rewritten(c) = [c EXCEPT !.attempts = @ + 1, !.ttl = new]
  BY DEF Rewritten
<1>3. MaxAttempts \in Nat /\ OtpTtl \in Nat
  BY SettingsAssumption
<1>4. ASSUME new # Persistent
      PROVE  new \in Int /\ new >= 1 /\ q # Persistent /\ new <= q + 2
  <2>1. q # Persistent /\ q \in Nat /\ new = 4 * ((q + 2) \div 4) /\ (q + 2) \div 4 > 0
    BY <1>1, <1>3, <1>4 DEF Second, TtlSeconds, Persistent, MaxLife
  <2> QED
    BY <2>1
<1>5. new # Persistent => c.age + new <= Second * OtpTtl + 2 * (c.attempts + 1)
  BY <1>1, <1>3, <1>4 DEF Second, Persistent, MaxLife
<1>6. new \in {Persistent} \cup 1..MaxLife
  BY <1>1, <1>3, <1>4, <1>5 DEF Second, MaxLife
<1>7. c.attempts + 1 \in 0..(MaxAttempts - 1)
  BY <1>1, <1>3
<1>8. /\ Rewritten(c).code = c.code /\ Rewritten(c).phone = c.phone
      /\ Rewritten(c).attempts = c.attempts + 1 /\ Rewritten(c).ttl = new
      /\ Rewritten(c).age = c.age
      /\ Rewritten(c) \in Challenge
  BY <1>2, <1>6, <1>7 DEF Challenge
<1> QED
  BY <1>5, <1>8

\* A quarter of a second takes from the time left what it adds to the age.
LEMMA AgedBounds ==
    ASSUME NEW c \in Challenge \cup {Null},
           c # Null /\ c.ttl # Persistent =>
              c.age + c.ttl <= Second * OtpTtl + 2 * c.attempts
    PROVE  /\ Aged(c) \in Challenge \cup {Null}
           /\ Aged(c) # Null =>
                 /\ c # Null
                 /\ Aged(c).code = c.code /\ Aged(c).phone = c.phone
                 /\ Aged(c).attempts = c.attempts
                 /\ Aged(c).ttl # Persistent =>
                       Aged(c).age + Aged(c).ttl <= Second * OtpTtl + 2 * Aged(c).attempts
<1>1. CASE c = Null \/ c.ttl = 1 \/ c.ttl = Persistent
  BY <1>1 DEF Aged
<1>2. CASE ~(c = Null \/ c.ttl = 1 \/ c.ttl = Persistent)
  <2>1. /\ c \in Challenge /\ Aged(c) = [c EXCEPT !.ttl = @ - 1, !.age = @ + 1]
    BY <1>2 DEF Aged
  <2>2. /\ c.attempts \in 0..(MaxAttempts - 1) /\ c.age \in 0..MaxLife
        /\ c.ttl \in 2..MaxLife
    BY <1>2, <2>1, SettingsAssumption DEF Challenge, MaxLife, Second, Persistent
  <2>3. c.age + c.ttl <= Second * OtpTtl + 2 * c.attempts
    BY <1>2
  <2>4. c.age + 1 \in 0..MaxLife /\ c.ttl - 1 \in 1..MaxLife
    BY <2>2, <2>3, SettingsAssumption DEF MaxLife, Second
  <2>5. /\ Aged(c) \in Challenge
        /\ Aged(c).code = c.code /\ Aged(c).phone = c.phone
        /\ Aged(c).attempts = c.attempts /\ Aged(c).ttl = c.ttl - 1
        /\ Aged(c).age = c.age + 1
    BY <2>1, <2>4 DEF Challenge
  <2> QED
    BY <1>2, <2>2, <2>3, <2>5, SettingsAssumption DEF Second
<1> QED
  BY <1>1, <1>2

-----------------------------------------------------------------------------
(* The invariant holds initially and is preserved by every action.          *)

\* At first no code has been issued and every number is some account's own.
LEMMA InitInv == Init => IndInv
<1> SUFFICES ASSUME Init PROVE IndInv
  OBVIOUS
<1>1. TypeOK
  BY SettingsAssumption DEF Init, TypeOK, Handler, Idle, Second
<1>2. ChallengesAgree
  BY SettingsAssumption
  DEF Init, ChallengesAgree, CodesAreFresh, CodeIsSingleUse, GuessesAreBounded,
      GuessesDoNotRenew, Live
<1>3. HandlersAgree /\ NumberIsTheAccounts
  BY DEF Init, HandlersAgree, Requesting, NumberIsTheAccounts, Live, Idle
<1> QED
  BY <1>1, <1>2, <1>3 DEF IndInv

\* What is said of the challenges depends on nothing else.
LEMMA SameChallenges ==
    ASSUME ChallengesAgree, UNCHANGED <<challenge, issued, told, wrong, spent>>
    PROVE  ChallengesAgree'
  BY DEF ChallengesAgree, CodesAreFresh, CodeIsSingleUse, GuessesAreBounded,
         GuessesDoNotRenew, Live

\* Answering a request empties its slot and leaves the others alone.
LEMMA AnswerDoes ==
    ASSUME TypeOK, NEW r \in Request, Answer(r)
    PROVE  /\ req' \in [Request -> Handler]
           /\ req'[r].at = "idle"
           /\ \A q \in Request \ {r} : req'[q] = req[q]
  BY DEF TypeOK, Answer, Idle, Handler

\* Continuing moves the slot to another step and changes nothing else in it.
LEMMA ContinueDoes ==
    ASSUME TypeOK, NEW r \in Request,
           NEW step \in {"acquireCooldown", "storeChallenge"}, Continue(r, step)
    PROVE  /\ req' \in [Request -> Handler]
           /\ req'[r].at = step /\ req'[r].user = req[r].user
           /\ req'[r].phone = req[r].phone
           /\ \A q \in Request \ {r} : req'[q] = req[q]
<1>1. req[r] \in Handler /\ req' = [req EXCEPT ![r] = [req[r] EXCEPT !.at = step]]
  BY DEF TypeOK, Continue
<1>2. /\ [req[r] EXCEPT !.at = step] \in Handler
      /\ [req[r] EXCEPT !.at = step].at = step
      /\ [req[r] EXCEPT !.at = step].user = req[r].user
      /\ [req[r] EXCEPT !.at = step].phone = req[r].phone
  BY <1>1 DEF Handler
<1> QED
  BY <1>1, <1>2 DEF TypeOK

\* Ending handlers preserves what is said of the others.
LEMMA HandlersEnd ==
    ASSUME IndInv, UNCHANGED <<phone, told>>,
           \A r \in Request : req'[r].at = "idle" \/ req'[r] = req[r]
    PROVE  /\ HandlersAgree'
           /\ \A r \in Request : req'[r].at = "markVerified" =>
                 req'[r].phone = phone[req'[r].user]
  BY DEF IndInv, HandlersAgree, Requesting, NumberIsTheAccounts

\* The number requested is the one in the account's row.
LEMMA RequestOtpInv ==
    ASSUME IndInv, NEW r \in Request, NEW u \in User, RequestOtp(r, u)
    PROVE  IndInv'
<1>1. phone[u] \in Phone
  BY DEF IndInv, TypeOK, RequestOtp
<1>2. /\ req'[r] = [at |-> "checkOwner", user |-> u, phone |-> phone[u], code |-> Null]
      /\ \A q \in Request \ {r} : req'[q] = req[q]
  BY DEF IndInv, TypeOK, RequestOtp
<1>3. TypeOK'
  BY <1>1 DEF IndInv, TypeOK, RequestOtp, Handler
<1>4. ChallengesAgree'
  BY SameChallenges DEF IndInv, RequestOtp
<1>5. HandlersAgree'
  <2>1. r \notin told /\ UNCHANGED <<phone, told>>
    BY DEF IndInv, TypeOK, RequestOtp
  <2> QED
    BY <1>1, <1>2, <2>1 DEF IndInv, HandlersAgree, Requesting
<1>6. NumberIsTheAccounts'
  BY <1>2 DEF IndInv, NumberIsTheAccounts, Live, RequestOtp
<1> QED
  BY <1>3, <1>4, <1>5, <1>6 DEF IndInv

\* Checking the owner reads, and goes on or ends.
LEMMA CheckOwnerInv ==
    ASSUME IndInv, NEW r \in Request, CheckOwner(r)
    PROVE  IndInv'
<1>1. \/ Answer(r)
      \/ Continue(r, "acquireCooldown") /\ req[r].at \in Requesting
  BY DEF CheckOwner, Requesting
<1>2. req' \in [Request -> Handler]
  BY <1>1, AnswerDoes, ContinueDoes DEF IndInv
<1>3. TypeOK'
  BY <1>2 DEF IndInv, TypeOK, CheckOwner
<1>4. ChallengesAgree'
  BY SameChallenges DEF IndInv, CheckOwner
<1>5. CASE Answer(r)
  BY <1>3, <1>4, <1>5, AnswerDoes, HandlersEnd
  DEF IndInv, NumberIsTheAccounts, Live, CheckOwner
<1>6. CASE Continue(r, "acquireCooldown") /\ req[r].at \in Requesting
  <2>1. /\ req'[r].at = "acquireCooldown" /\ req'[r].user = req[r].user
        /\ req'[r].phone = req[r].phone
        /\ \A q \in Request \ {r} : req'[q] = req[q]
    BY <1>6, ContinueDoes DEF IndInv
  <2>2. HandlersAgree'
    BY <1>6, <2>1 DEF IndInv, HandlersAgree, Requesting, CheckOwner
  <2>3. NumberIsTheAccounts'
    BY <2>1 DEF IndInv, NumberIsTheAccounts, Live, CheckOwner
  <2> QED
    BY <1>3, <1>4, <2>2, <2>3 DEF IndInv
<1> QED
  BY <1>1, <1>5, <1>6

\* So does taking the cooldown, which touches no challenge.
LEMMA AcquireCooldownInv ==
    ASSUME IndInv, NEW r \in Request, AcquireCooldown(r)
    PROVE  IndInv'
<1>1. \/ Answer(r)
      \/ Continue(r, "storeChallenge") /\ req[r].at \in Requesting
  BY DEF AcquireCooldown, Requesting
<1>2. req' \in [Request -> Handler]
  BY <1>1, AnswerDoes, ContinueDoes DEF IndInv
<1>3. cooldown' \in [User -> 0..(Second * Cooldown)]
  BY SettingsAssumption DEF IndInv, TypeOK, AcquireCooldown, Second
<1>4. TypeOK'
  BY <1>2, <1>3 DEF IndInv, TypeOK, AcquireCooldown
<1>5. ChallengesAgree'
  BY SameChallenges DEF IndInv, AcquireCooldown
<1>6. CASE Answer(r)
  BY <1>4, <1>5, <1>6, AnswerDoes, HandlersEnd
  DEF IndInv, NumberIsTheAccounts, Live, AcquireCooldown
<1>7. CASE Continue(r, "storeChallenge") /\ req[r].at \in Requesting
  <2>1. /\ req'[r].at = "storeChallenge" /\ req'[r].user = req[r].user
        /\ req'[r].phone = req[r].phone
        /\ \A q \in Request \ {r} : req'[q] = req[q]
    BY <1>7, ContinueDoes DEF IndInv
  <2>2. HandlersAgree'
    BY <1>7, <2>1 DEF IndInv, HandlersAgree, Requesting, AcquireCooldown
  <2>3. NumberIsTheAccounts'
    BY <2>1 DEF IndInv, NumberIsTheAccounts, Live, AcquireCooldown
  <2> QED
    BY <1>4, <1>5, <2>2, <2>3 DEF IndInv
<1> QED
  BY <1>1, <1>6, <1>7

\* A cooldown whose reply was lost is taken all the same.
LEMMA CooldownReplyLostInv ==
    ASSUME IndInv, NEW r \in Request, CooldownReplyLost(r)
    PROVE  IndInv'
<1>1. UNCHANGED <<phone, verified, challenge, req, issued, told, wrong, spent>>
  BY DEF CooldownReplyLost
<1>2. cooldown' \in [User -> 0..(Second * Cooldown)] /\ failures' \in 0..MaxFailures
  <2>1. cooldown' \in [User -> 0..(Second * Cooldown)]
    <3>1. Second * Cooldown \in 0..(Second * Cooldown)
      BY SettingsAssumption DEF Second
    <3> QED
      BY <3>1 DEF IndInv, TypeOK, CooldownReplyLost
  <2>2. failures' \in 0..MaxFailures
    BY SettingsAssumption DEF IndInv, TypeOK, CooldownReplyLost
  <2> QED
    BY <2>1, <2>2
<1>3. TypeOK'
  BY <1>1, <1>2 DEF IndInv, TypeOK
<1>4. ChallengesAgree'
  BY <1>1, SameChallenges DEF IndInv
<1>5. HandlersAgree' /\ NumberIsTheAccounts'
  BY <1>1 DEF IndInv, HandlersAgree, Requesting, NumberIsTheAccounts, Live
<1> QED
  BY <1>3, <1>4, <1>5 DEF IndInv

\* A stored challenge starts anew, and carries the account's number.
LEMMA StoreDoes ==
    ASSUME IndInv, NEW r \in Request, Store(r)
    PROVE  LET u == req[r].user
               c == [code |-> r, phone |-> req[r].phone, attempts |-> 0,
                     ttl |-> Second * OtpTtl, age |-> 0]
           IN  /\ u \in User /\ c \in Challenge /\ c # Null
               /\ challenge' \in [User -> Challenge \cup {Null}]
               /\ challenge'[u] = c /\ challenge'[u] # Null /\ challenge'[u].code = r
               /\ \A w \in User \ {u} : challenge'[w] = challenge[w]
               /\ r \notin told /\ req[r].phone = phone[u]
               /\ wrong' \in [Request -> Nat] /\ wrong'[r] = 0
               /\ \A q \in Request \ {r} : wrong'[q] = wrong[q]
<1> DEFINE c == [code |-> r, phone |-> req[r].phone, attempts |-> 0,
                 ttl |-> Second * OtpTtl, age |-> 0]
<1>1. req[r].at \in Requesting /\ req[r].at # "idle"
  BY DEF Store, Requesting
<1>2. req[r].user \in User /\ r \notin told /\ req[r].phone \in Phone
      /\ req[r].phone = phone[req[r].user]
  BY <1>1 DEF IndInv, HandlersAgree
<1>3. /\ Second * OtpTtl \in {Persistent} \cup 1..MaxLife
      /\ 0 \in 0..(MaxAttempts - 1) /\ 0 \in 0..MaxLife
  BY SettingsAssumption DEF Second, MaxLife
<1>4. c \in Challenge /\ c # Null /\ c.code = r
  BY <1>2, <1>3, ChallengeAssumption DEF Challenge
<1>5. /\ challenge' = [challenge EXCEPT ![req[r].user] = c]
      /\ wrong' = [wrong EXCEPT ![r] = 0]
  BY DEF Store
<1> QED
  BY <1>2, <1>4, <1>5 DEF IndInv, TypeOK

\* It replaces the account's challenge, whether the handler hears of it or not.
LEMMA StoreInv ==
    ASSUME IndInv, CodesHaveOwners, NEW r \in Request, StoreChallenge(r) \/ StoreReplyLost(r)
    PROVE  IndInv'
<1> DEFINE u == req[r].user
           c == [code |-> r, phone |-> req[r].phone, attempts |-> 0,
                 ttl |-> Second * OtpTtl, age |-> 0]
<1>1. Store(r) /\ issued' = issued \cup {r} /\ req[r].at \in Requesting
  BY DEF StoreChallenge, StoreReplyLost, Store, Requesting
<1>2. /\ u \in User /\ c \in Challenge /\ c # Null
      /\ challenge' \in [User -> Challenge \cup {Null}] /\ challenge'[u] = c
      /\ \A w \in User \ {u} : challenge'[w] = challenge[w]
      /\ r \notin told /\ req[r].phone = phone[u]
      /\ wrong' \in [Request -> Nat] /\ wrong'[r] = 0
      /\ \A q \in Request \ {r} : wrong'[q] = wrong[q]
  BY <1>1, StoreDoes
<1>3. /\ UNCHANGED <<phone, verified, cooldown, spent>>
      /\ told \subseteq told' /\ told' \subseteq told \cup {r}
      /\ failures' \in 0..MaxFailures
  BY SettingsAssumption DEF StoreChallenge, StoreReplyLost, IndInv, TypeOK
<1>4. \A w \in User \ {u} : Live(w) => challenge[w].code # r
  BY <1>1 DEF CodesHaveOwners
<1>5. /\ req' \in [Request -> Handler]
      /\ \A q \in Request \ {r} : req'[q] = req[q]
      /\ req'[r].at = "idle" \/ (req'[r] = req[r] /\ told' = told)
  BY AnswerDoes DEF IndInv, TypeOK, StoreChallenge, StoreReplyLost
<1>6. TypeOK'
  BY <1>1, <1>2, <1>3, <1>5 DEF IndInv, TypeOK
<1>7. r \notin spent
  BY <1>2 DEF IndInv, TypeOK
<1>8. CodesAreFresh'
  BY <1>1, <1>2, <1>4 DEF IndInv, ChallengesAgree, CodesAreFresh, Live
<1>9. CodeIsSingleUse'
  BY <1>2, <1>3, <1>7 DEF IndInv, ChallengesAgree, CodeIsSingleUse, Live
<1>10. GuessesAreBounded'
  <2>1. \A q \in Request : wrong'[q] <= MaxAttempts
    BY <1>2, SettingsAssumption DEF IndInv, ChallengesAgree, GuessesAreBounded
  <2>2. ASSUME NEW w \in User, Live(w)'
        PROVE  wrong'[challenge'[w].code] = challenge'[w].attempts
    <3>1. CASE w = u
      BY <1>2, <3>1
    <3>2. CASE w # u
      <4>1. Live(w) /\ challenge'[w] = challenge[w] /\ challenge[w].code \in Request \ {r}
        BY <1>2, <1>4, <2>2, <3>2 DEF Live, IndInv, TypeOK, Challenge
      <4> QED
        BY <1>2, <4>1 DEF IndInv, ChallengesAgree, GuessesAreBounded
    <3> QED
      BY <3>1, <3>2
  <2> QED
    BY <2>1, <2>2 DEF GuessesAreBounded
<1>11. GuessesDoNotRenew'
  BY <1>2, SettingsAssumption
  DEF IndInv, ChallengesAgree, GuessesDoNotRenew, Live, Second
<1>12. HandlersAgree'
  <2> SUFFICES ASSUME NEW q \in Request, req'[q].at # "idle"
               PROVE  /\ req'[q].user \in User
                      /\ req'[q].at \in Requesting => q \notin told'
                      /\ req'[q].at = "evalScript" => req'[q].code \in told' \cup {WrongCode}
                      /\ req'[q].at \in Requesting \cup {"markVerified"} =>
                            req'[q].phone \in Phone /\ req'[q].phone = phone'[req'[q].user]
    BY DEF HandlersAgree, Requesting
  <2>1. req'[q] = req[q] /\ (q # r \/ told' = told)
    BY <1>5
  <2> QED
    BY <1>3, <2>1 DEF IndInv, HandlersAgree
<1>13. NumberIsTheAccounts'
  BY <1>2, <1>3, <1>5 DEF IndInv, NumberIsTheAccounts, Live
<1> QED
  BY <1>6, <1>8, <1>9, <1>10, <1>11, <1>12, <1>13 DEF IndInv, ChallengesAgree

\* A submission only starts a handler.
LEMMA SubmitOtpInv ==
    ASSUME IndInv, NEW r \in Request, NEW u \in User,
           NEW guess \in told \cup {WrongCode}, SubmitOtp(r, u, guess)
    PROVE  IndInv'
<1>1. /\ req'[r] = [at |-> "evalScript", user |-> u, phone |-> Null, code |-> guess]
      /\ \A q \in Request \ {r} : req'[q] = req[q]
  BY DEF IndInv, TypeOK, SubmitOtp
<1>2. TypeOK'
  BY DEF IndInv, TypeOK, SubmitOtp, Handler
<1>3. ChallengesAgree'
  BY SameChallenges DEF IndInv, SubmitOtp
<1>4. HandlersAgree'
  BY <1>1 DEF IndInv, HandlersAgree, Requesting, SubmitOtp
<1>5. NumberIsTheAccounts'
  BY <1>1 DEF IndInv, NumberIsTheAccounts, Live, SubmitOtp
<1> QED
  BY <1>2, <1>3, <1>4, <1>5 DEF IndInv

\* The script's handler is some user's; a challenge it finds is that user's.
LEMMA EvalReads ==
    ASSUME IndInv, NEW r \in Request, req[r].at = "evalScript"
    PROVE  /\ req[r].user \in User
           /\ Pending(r) # Null =>
                 /\ Live(req[r].user) /\ Pending(r) = challenge[req[r].user]
                 /\ Pending(r) \in Challenge
                 /\ Pending(r).code \in issued /\ Pending(r).code \in Request
                 /\ Pending(r).phone \in Phone
                 /\ Pending(r).phone = phone[req[r].user]
                 /\ wrong[Pending(r).code] = Pending(r).attempts
                 /\ Pending(r).attempts \in 0..(MaxAttempts - 1)
                 /\ Pending(r).code \notin spent
                 /\ Pending(r).ttl # Persistent =>
                       Pending(r).age + Pending(r).ttl
                          <= Second * OtpTtl + 2 * Pending(r).attempts
<1>1. req[r].user \in User
  BY DEF IndInv, HandlersAgree
<1>2. SUFFICES ASSUME Pending(r) # Null
               PROVE  Pending(r) \in Challenge /\ Live(req[r].user)
  BY <1>1 DEF Pending, Live, IndInv, TypeOK, ChallengesAgree, CodesAreFresh,
     CodeIsSingleUse, GuessesAreBounded, GuessesDoNotRenew, NumberIsTheAccounts, Challenge
<1> QED
  BY <1>1, <1>2 DEF Pending, Live, IndInv, TypeOK

\* Without a challenge there is nothing to change.
LEMMA EvalNotFoundInv ==
    ASSUME IndInv, NEW r \in Request, EvalNotFound(r)
    PROVE  IndInv'
<1>1. /\ UNCHANGED <<phone, verified, challenge, cooldown, failures, issued, told, wrong, spent>>
      /\ Answer(r)
  BY DEF EvalNotFound
<1>2. ChallengesAgree'
  BY <1>1, SameChallenges DEF IndInv
<1> QED
  BY <1>1, <1>2, AnswerDoes, HandlersEnd DEF IndInv, TypeOK, NumberIsTheAccounts, Live

\* A challenge that is deleted takes nothing with it that the others need.
LEMMA DropInv ==
    ASSUME IndInv, NEW u \in User, challenge' = [challenge EXCEPT ![u] = Null]
    PROVE  /\ challenge' \in [User -> Challenge \cup {Null}]
           /\ challenge'[u] = Null
           /\ \A w \in User \ {u} : challenge'[w] = challenge[w]
  BY DEF IndInv, TypeOK

\* A matched code is spent together with its challenge.
LEMMA ScriptMatchDoes ==
    ASSUME IndInv, NEW r \in Request, ScriptMatch(r)
    PROVE  /\ req[r].user \in User
           /\ Pending(r).phone \in Phone /\ Pending(r).phone = phone[req[r].user]
           /\ challenge' \in [User -> Challenge \cup {Null}]
           /\ \A w \in User : challenge'[w] = Null \/ challenge'[w] = challenge[w]
           /\ spent' \subseteq told
           /\ ChallengesAgree'
<1> DEFINE u == req[r].user
           c == Pending(r)
<1>1. /\ req[r].at = "evalScript" /\ c # Null /\ c.code = req[r].code
      /\ challenge' = [challenge EXCEPT ![u] = Null]
      /\ spent' = spent \cup {req[r].code}
      /\ UNCHANGED <<issued, told, wrong>>
  BY DEF ScriptMatch
<1>2. /\ u \in User /\ Live(u) /\ c = challenge[u] /\ c.code \in issued
      /\ c.phone \in Phone /\ c.phone = phone[u]
  BY <1>1, EvalReads
<1>3. /\ challenge' \in [User -> Challenge \cup {Null}] /\ challenge'[u] = Null
      /\ \A w \in User \ {u} : challenge'[w] = challenge[w]
  BY <1>1, <1>2, DropInv
<1>4. CodesAreFresh' /\ GuessesAreBounded' /\ GuessesDoNotRenew'
  BY <1>1, <1>3
  DEF IndInv, ChallengesAgree, CodesAreFresh, GuessesAreBounded, GuessesDoNotRenew, Live
<1>5. CodeIsSingleUse'
  BY <1>1, <1>2, <1>3
  DEF IndInv, ChallengesAgree, CodesAreFresh, CodeIsSingleUse, Live
<1>6. spent' \subseteq told
  <2>1. req[r].code \in told \cup {WrongCode} /\ WrongCode \notin Request
    BY <1>1, NullAssumption DEF IndInv, HandlersAgree
  <2>2. req[r].code \in Request
    BY <1>1, <1>2 DEF IndInv, TypeOK
  <2> QED
    BY <1>1, <2>1, <2>2 DEF IndInv, TypeOK
<1> QED
  BY <1>2, <1>3, <1>4, <1>5, <1>6 DEF ChallengesAgree

\* The handler takes over the number the code was sent to.
LEMMA EvalMatchInv ==
    ASSUME IndInv, NEW r \in Request, EvalMatch(r)
    PROVE  IndInv'
<1> DEFINE u == req[r].user
           c == Pending(r)
           h == [req[r] EXCEPT !.at = "markVerified", !.phone = c.phone]
<1>1. /\ req[r].at = "evalScript" /\ ScriptMatch(r)
      /\ req' = [req EXCEPT ![r] = h]
      /\ UNCHANGED <<phone, verified, cooldown, failures, issued, told, wrong>>
  BY DEF EvalMatch, ScriptMatch
<1>2. /\ u \in User /\ c.phone \in Phone /\ c.phone = phone[u]
      /\ challenge' \in [User -> Challenge \cup {Null}]
      /\ \A w \in User : challenge'[w] = Null \/ challenge'[w] = challenge[w]
      /\ spent' \subseteq told
      /\ ChallengesAgree'
  BY <1>1, ScriptMatchDoes
<1>3. h \in Handler /\ h.at = "markVerified" /\ h.user = u /\ h.phone = c.phone
  <2>1. req[r] \in Handler
    BY DEF IndInv, TypeOK
  <2> QED
    BY <1>2, <2>1 DEF Handler
<1>4. req'[r] = h /\ \A q \in Request \ {r} : req'[q] = req[q]
  BY <1>1 DEF IndInv, TypeOK
<1>5. TypeOK'
  BY <1>1, <1>2, <1>3 DEF IndInv, TypeOK
<1>6. HandlersAgree'
  BY <1>1, <1>2, <1>3, <1>4 DEF IndInv, HandlersAgree, Requesting
<1>7. NumberIsTheAccounts'
  BY <1>1, <1>2, <1>3, <1>4 DEF IndInv, NumberIsTheAccounts, Live
<1> QED
  BY <1>2, <1>5, <1>6, <1>7 DEF IndInv

\* The handler of a reply has been answered; that of a lost one goes on waiting.
Replied(r) == (Answer(r) \/ UNCHANGED req) /\ failures' \in 0..MaxFailures

\* A code whose reply was lost is spent all the same.
LEMMA MatchLostInv ==
    ASSUME IndInv, NEW r \in Request, ScriptMatch(r), UNCHANGED req,
           failures' \in 0..MaxFailures
    PROVE  IndInv'
<1>1. UNCHANGED <<phone, verified, cooldown, issued, told, wrong, req>>
  BY DEF ScriptMatch
<1>2. /\ challenge' \in [User -> Challenge \cup {Null}]
      /\ \A w \in User : challenge'[w] = Null \/ challenge'[w] = challenge[w]
      /\ spent' \subseteq told
      /\ ChallengesAgree'
  BY ScriptMatchDoes
<1>3. TypeOK'
  BY <1>1, <1>2 DEF IndInv, TypeOK
<1>4. HandlersAgree'
  BY <1>1 DEF IndInv, HandlersAgree, Requesting
<1>5. NumberIsTheAccounts'
  BY <1>1, <1>2 DEF IndInv, NumberIsTheAccounts, Live
<1> QED
  BY <1>2, <1>3, <1>4, <1>5 DEF IndInv

\* A wrong guess is counted against the challenge's code alone.
LEMMA MismatchDoes ==
    ASSUME IndInv, NEW r \in Request, Mismatch(r), Replied(r)
    PROVE  LET c == Pending(r)
           IN  /\ wrong' = [wrong EXCEPT ![c.code] = @ + 1]
               /\ wrong' \in [Request -> Nat]
               /\ wrong'[c.code] = c.attempts + 1
               /\ c.attempts + 1 \in 1..MaxAttempts
               /\ \A k \in Request \ {c.code} : wrong'[k] = wrong[k]
               /\ \A w \in User \ {req[r].user} :
                     Live(w) => challenge[w].code \in Request \ {c.code}
               /\ HandlersAgree' /\ req' \in [Request -> Handler]
               /\ \A q \in Request : req'[q].at = "markVerified" =>
                     req'[q].phone = phone[req'[q].user]
<1> DEFINE c == Pending(r)
<1>1. /\ req[r].at = "evalScript" /\ c # Null /\ (Answer(r) \/ UNCHANGED req)
      /\ wrong' = [wrong EXCEPT ![c.code] = @ + 1]
      /\ UNCHANGED <<phone, verified, cooldown, issued, told, spent>>
  BY DEF Mismatch, Replied
<1>2. /\ req[r].user \in User /\ Live(req[r].user) /\ c = challenge[req[r].user]
      /\ c.code \in Request /\ wrong[c.code] = c.attempts
      /\ c.attempts \in 0..(MaxAttempts - 1)
  BY <1>1, EvalReads
<1>3. /\ wrong' \in [Request -> Nat] /\ wrong'[c.code] = c.attempts + 1
      /\ \A k \in Request \ {c.code} : wrong'[k] = wrong[k]
      /\ c.attempts + 1 \in 1..MaxAttempts
  BY <1>1, <1>2, SettingsAssumption DEF IndInv, TypeOK
<1>4. \A w \in User \ {req[r].user} : Live(w) => challenge[w].code \in Request \ {c.code}
  BY <1>2 DEF IndInv, TypeOK, ChallengesAgree, CodesAreFresh
<1>5. /\ req' \in [Request -> Handler]
      /\ \A q \in Request : req'[q].at = "idle" \/ req'[q] = req[q]
  BY <1>1, AnswerDoes DEF IndInv, TypeOK
<1> QED
  BY <1>1, <1>3, <1>4, <1>5, HandlersEnd

\* The last wrong guess deletes the challenge.
LEMMA ScriptExceededInv ==
    ASSUME IndInv, NEW r \in Request, ScriptExceeded(r), Replied(r)
    PROVE  IndInv'
<1> DEFINE u == req[r].user
           c == Pending(r)
<1>1. /\ Mismatch(r) /\ req[r].at = "evalScript" /\ c # Null
      /\ challenge' = [challenge EXCEPT ![u] = Null]
      /\ failures' \in 0..MaxFailures
      /\ UNCHANGED <<phone, verified, cooldown, issued, told, spent>>
  BY DEF ScriptExceeded, Mismatch, Replied
<1>2. u \in User /\ c.code \in issued /\ c.code \in Request
  BY <1>1, EvalReads
<1>3. /\ challenge' \in [User -> Challenge \cup {Null}] /\ challenge'[u] = Null
      /\ \A w \in User \ {u} : challenge'[w] = challenge[w]
  BY <1>1, <1>2, DropInv
<1>4. /\ wrong' \in [Request -> Nat]
      /\ wrong'[c.code] = c.attempts + 1 /\ c.attempts + 1 \in 1..MaxAttempts
      /\ \A k \in Request \ {c.code} : wrong'[k] = wrong[k]
      /\ \A w \in User \ {u} : Live(w) => challenge[w].code \in Request \ {c.code}
      /\ HandlersAgree' /\ req' \in [Request -> Handler]
      /\ \A q \in Request : req'[q].at = "markVerified" =>
            req'[q].phone = phone[req'[q].user]
  BY <1>1, MismatchDoes
<1>5. TypeOK'
  BY <1>1, <1>3, <1>4 DEF IndInv, TypeOK
<1>6. CodesAreFresh'
  BY <1>1, <1>2, <1>3, <1>4 DEF IndInv, ChallengesAgree, CodesAreFresh, Live
<1>7. CodeIsSingleUse' /\ GuessesDoNotRenew'
  BY <1>1, <1>3
  DEF IndInv, ChallengesAgree, CodeIsSingleUse, GuessesDoNotRenew, Live
<1>8. GuessesAreBounded'
  BY <1>1, <1>2, <1>3, <1>4, SettingsAssumption
  DEF IndInv, ChallengesAgree, GuessesAreBounded, Live
<1>9. NumberIsTheAccounts'
  BY <1>1, <1>3, <1>4 DEF IndInv, NumberIsTheAccounts, Live
<1> QED
  BY <1>4, <1>5, <1>6, <1>7, <1>8, <1>9 DEF IndInv, ChallengesAgree

\* An earlier one writes it back with the guess counted.
LEMMA ScriptInvalidDoes ==
    ASSUME IndInv, NEW r \in Request, ScriptInvalid(r)
    PROVE  LET u == req[r].user
               c == Pending(r)
           IN  /\ u \in User /\ Live(u) /\ c = challenge[u]
               /\ challenge' \in [User -> Challenge \cup {Null}]
               /\ challenge'[u] # Null /\ challenge'[u].code = c.code
               /\ challenge'[u].phone = c.phone
               /\ challenge'[u].attempts = c.attempts + 1
               /\ challenge'[u].ttl # Persistent =>
                     challenge'[u].age + challenge'[u].ttl
                        <= Second * OtpTtl + 2 * challenge'[u].attempts
               /\ \A w \in User \ {u} : challenge'[w] = challenge[w]
<1> DEFINE u == req[r].user
           c == Pending(r)
<1>1. /\ req[r].at = "evalScript" /\ c # Null /\ c.attempts + 1 < MaxAttempts
      /\ challenge' = [challenge EXCEPT ![u] = Rewritten(challenge[u])]
  BY DEF ScriptInvalid, Mismatch, Replied
<1>2. /\ u \in User /\ Live(u) /\ c = challenge[u] /\ c \in Challenge
      /\ c.ttl # Persistent => c.age + c.ttl <= Second * OtpTtl + 2 * c.attempts
  BY <1>1, EvalReads
<1>3. /\ challenge'[u] = Rewritten(c) /\ \A w \in User \ {u} : challenge'[w] = challenge[w]
  BY <1>1, <1>2 DEF IndInv, TypeOK
<1>4. /\ Rewritten(c) \in Challenge
      /\ Rewritten(c).code = c.code /\ Rewritten(c).phone = c.phone
      /\ Rewritten(c).attempts = c.attempts + 1
      /\ Rewritten(c).ttl # Persistent =>
            Rewritten(c).age + Rewritten(c).ttl
               <= Second * OtpTtl + 2 * Rewritten(c).attempts
  BY <1>1, <1>2, RewrittenBounds
<1>5. challenge' \in [User -> Challenge \cup {Null}]
  BY <1>1, <1>2, <1>4 DEF IndInv, TypeOK
<1>6. challenge'[u] # Null
  BY <1>3, <1>4, ChallengeAssumption
<1> QED
  BY <1>2, <1>3, <1>4, <1>5, <1>6 DEF Live

\* The count in the rewritten challenge is the count of guesses at its code.
LEMMA ScriptInvalidInv ==
    ASSUME IndInv, NEW r \in Request, ScriptInvalid(r), Replied(r)
    PROVE  IndInv'
<1> DEFINE u == req[r].user
           c == Pending(r)
<1>1. /\ Mismatch(r) /\ req[r].at = "evalScript" /\ c # Null
      /\ failures' \in 0..MaxFailures
      /\ UNCHANGED <<phone, verified, cooldown, issued, told, spent>>
  BY DEF ScriptInvalid, Mismatch, Replied
<1>2. c.code \in issued /\ c.code \in Request /\ c.phone = phone[u] /\ c.code \notin spent
  BY <1>1, EvalReads
<1>3. /\ u \in User /\ Live(u) /\ c = challenge[u]
      /\ challenge' \in [User -> Challenge \cup {Null}]
      /\ challenge'[u] # Null /\ challenge'[u].code = c.code /\ challenge'[u].phone = c.phone
      /\ challenge'[u].attempts = c.attempts + 1
      /\ challenge'[u].ttl # Persistent =>
            challenge'[u].age + challenge'[u].ttl
               <= Second * OtpTtl + 2 * challenge'[u].attempts
      /\ \A w \in User \ {u} : challenge'[w] = challenge[w]
  BY ScriptInvalidDoes
<1>4. /\ wrong' \in [Request -> Nat]
      /\ wrong'[c.code] = c.attempts + 1 /\ c.attempts + 1 \in 1..MaxAttempts
      /\ \A k \in Request \ {c.code} : wrong'[k] = wrong[k]
      /\ \A w \in User \ {u} : Live(w) => challenge[w].code \in Request \ {c.code}
      /\ HandlersAgree' /\ req' \in [Request -> Handler]
      /\ \A q \in Request : req'[q].at = "markVerified" =>
            req'[q].phone = phone[req'[q].user]
  BY <1>1, MismatchDoes
<1>5. TypeOK'
  BY <1>1, <1>3, <1>4 DEF IndInv, TypeOK
<1>6. CodesAreFresh'
  BY <1>1, <1>2, <1>3, <1>4 DEF IndInv, ChallengesAgree, CodesAreFresh, Live
<1>7. CodeIsSingleUse' /\ GuessesDoNotRenew'
  BY <1>1, <1>2, <1>3
  DEF IndInv, ChallengesAgree, CodeIsSingleUse, GuessesDoNotRenew, Live
<1>8. GuessesAreBounded'
  BY <1>1, <1>2, <1>3, <1>4, SettingsAssumption
  DEF IndInv, ChallengesAgree, GuessesAreBounded, Live
<1>9. NumberIsTheAccounts'
  BY <1>1, <1>2, <1>3, <1>4 DEF IndInv, NumberIsTheAccounts, Live
<1> QED
  BY <1>4, <1>5, <1>6, <1>7, <1>8, <1>9 DEF IndInv, ChallengesAgree

\* With the reply of the script or without it.
LEMMA EvalMismatchInv ==
    ASSUME IndInv, NEW r \in Request, EvalMismatch(r)
    PROVE  IndInv'
<1>1. Replied(r)
  BY DEF EvalMismatch, Replied, IndInv, TypeOK
<1> QED
  BY <1>1, ScriptExceededInv, ScriptInvalidInv DEF EvalMismatch

\* What the script has done stays, whoever hears of it.
LEMMA EvalReplyLostInv ==
    ASSUME IndInv, NEW r \in Request, EvalReplyLost(r)
    PROVE  IndInv'
<1>1. failures' \in 0..MaxFailures /\ UNCHANGED req /\ Replied(r)
  BY SettingsAssumption DEF EvalReplyLost, Replied, IndInv, TypeOK
<1> QED
  BY <1>1, MatchLostInv, ScriptExceededInv, ScriptInvalidInv DEF EvalReplyLost

\* The number written is the one the row has, so the unique index accepts it.
LEMMA MarkVerifiedInv ==
    ASSUME IndInv, NEW r \in Request, MarkVerified(r)
    PROVE  IndInv'
<1> DEFINE u == req[r].user
           f == [phone EXCEPT ![u] = req[r].phone]
<1>1. req[r].at = "markVerified" /\ u \in User /\ req[r].phone = phone[u] /\ phone[u] \in Phone
  BY DEF IndInv, HandlersAgree, MarkVerified
<1>2. f = phone
  BY <1>1 DEF IndInv, TypeOK
<1>3. Unique(f)
  BY <1>2 DEF IndInv, NumberIsTheAccounts
<1>4. /\ phone' = phone /\ verified' = verified \cup {u} /\ Answer(r)
      /\ UNCHANGED <<challenge, cooldown, failures, issued, told, wrong, spent>>
  BY <1>2, <1>3 DEF MarkVerified
<1>5. /\ req' \in [Request -> Handler]
      /\ \A q \in Request : req'[q].at = "idle" \/ req'[q] = req[q]
  BY <1>4, AnswerDoes DEF IndInv
<1>6. TypeOK'
  BY <1>1, <1>4, <1>5 DEF IndInv, TypeOK
<1>7. ChallengesAgree'
  BY <1>4, SameChallenges DEF IndInv
<1>8. /\ HandlersAgree'
      /\ \A q \in Request : req'[q].at = "markVerified" => req'[q].phone = phone[req'[q].user]
  BY <1>4, <1>5, HandlersEnd
<1>9. phone[u] # Null
  BY <1>1, NullAssumption
<1>10. NumberIsTheAccounts'
  BY <1>4, <1>8, <1>9 DEF IndInv, NumberIsTheAccounts, Unique, Live
<1> QED
  BY <1>6, <1>7, <1>8, <1>10 DEF IndInv

\* Time only drops challenges and ages the others.
LEMMA TickInv ==
    ASSUME IndInv, Tick
    PROVE  IndInv'
<1>1. /\ challenge' = [u \in User |-> Aged(challenge[u])]
      /\ cooldown' = [u \in User |-> IF cooldown[u] > 0 THEN cooldown[u] - 1 ELSE 0]
      /\ UNCHANGED <<phone, verified, req, failures, issued, told, wrong, spent>>
  BY DEF Tick
<1>2. ASSUME NEW u \in User
      PROVE  /\ challenge'[u] \in Challenge \cup {Null}
             /\ Live(u)' =>
                   /\ Live(u)
                   /\ challenge'[u].code = challenge[u].code
                   /\ challenge'[u].phone = challenge[u].phone
                   /\ challenge'[u].attempts = challenge[u].attempts
                   /\ challenge'[u].ttl # Persistent =>
                         challenge'[u].age + challenge'[u].ttl
                            <= Second * OtpTtl + 2 * challenge'[u].attempts
  <2>1. challenge[u] \in Challenge \cup {Null} /\ challenge'[u] = Aged(challenge[u])
    BY <1>1 DEF IndInv, TypeOK
  <2>2. challenge[u] # Null /\ challenge[u].ttl # Persistent =>
           challenge[u].age + challenge[u].ttl <= Second * OtpTtl + 2 * challenge[u].attempts
    BY DEF IndInv, ChallengesAgree, GuessesDoNotRenew, Live
  <2> QED
    BY <2>1, <2>2, AgedBounds DEF Live
<1>3. cooldown' \in [User -> 0..(Second * Cooldown)]
  BY <1>1, SettingsAssumption DEF IndInv, TypeOK, Second
<1>4. challenge' \in [User -> Challenge \cup {Null}]
  BY <1>1, <1>2
<1>5. TypeOK'
  BY <1>1, <1>3, <1>4 DEF IndInv, TypeOK
<1>6. CodesAreFresh' /\ CodeIsSingleUse'
  BY <1>1, <1>2 DEF IndInv, ChallengesAgree, CodesAreFresh, CodeIsSingleUse
<1>7. GuessesAreBounded' /\ GuessesDoNotRenew'
  BY <1>1, <1>2 DEF IndInv, ChallengesAgree, GuessesAreBounded, GuessesDoNotRenew
<1>8. HandlersAgree' /\ NumberIsTheAccounts'
  BY <1>1, <1>2 DEF IndInv, HandlersAgree, NumberIsTheAccounts
<1> QED
  BY <1>5, <1>6, <1>7, <1>8 DEF IndInv, ChallengesAgree

\* A failure ends handlers and leaves what they have stored.
LEMMA FailInv ==
    ASSUME IndInv, NEW R \in SUBSET InFlight, Fail(R)
    PROVE  IndInv'
<1>1. /\ req' = [r \in Request |-> IF r \in R THEN Idle ELSE req[r]]
      /\ failures < MaxFailures /\ failures' = failures + 1
      /\ UNCHANGED <<phone, verified, challenge, cooldown, issued, told, wrong, spent>>
  BY DEF Fail
<1>2. \A r \in Request : req'[r].at = "idle" \/ req'[r] = req[r]
  BY <1>1 DEF Idle
<1>3. req' \in [Request -> Handler] /\ failures' \in 0..MaxFailures
  BY <1>1, SettingsAssumption DEF IndInv, TypeOK, Idle, Handler
<1>4. TypeOK'
  BY <1>1, <1>3 DEF IndInv, TypeOK
<1>5. ChallengesAgree'
  BY <1>1, SameChallenges DEF IndInv
<1>6. /\ HandlersAgree'
      /\ \A r \in Request : req'[r].at = "markVerified" => req'[r].phone = phone[req'[r].user]
  BY <1>1, <1>2, HandlersEnd
<1>7. NumberIsTheAccounts'
  BY <1>1, <1>6 DEF IndInv, NumberIsTheAccounts, Live
<1> QED
  BY <1>4, <1>5, <1>6, <1>7 DEF IndInv

\* The invariant is inductive: one step for each action.
LEMMA NextInv == IndInv /\ CodesHaveOwners /\ [Next]_vars => IndInv'
<1> SUFFICES ASSUME IndInv, CodesHaveOwners, [Next]_vars PROVE IndInv'
  OBVIOUS
<1>1. CASE \E r \in Request : Handle(r)
  BY <1>1, CheckOwnerInv, AcquireCooldownInv, StoreInv, EvalNotFoundInv,
     EvalMatchInv, EvalMismatchInv, MarkVerifiedInv DEF Handle, Eval
<1>2. CASE \E r \in Request, u \in User : RequestOtp(r, u)
  BY <1>2, RequestOtpInv
<1>3. CASE \E r \in Request, u \in User, guess \in told \cup {WrongCode} :
              SubmitOtp(r, u, guess)
  BY <1>3, SubmitOtpInv
<1>4. CASE Tick
  BY <1>4, TickInv
<1>5. CASE \E R \in (SUBSET InFlight) \ {{}} : Fail(R)
  BY <1>5, FailInv
<1>6. CASE UNCHANGED vars
  BY <1>6 DEF vars, IndInv, TypeOK, ChallengesAgree, CodesAreFresh, CodeIsSingleUse,
     GuessesAreBounded, GuessesDoNotRenew, HandlersAgree, NumberIsTheAccounts, Live
<1>7. CASE \E r \in Request : ReplyLost(r)
  BY <1>7, EvalReplyLostInv, CooldownReplyLostInv, StoreInv DEF ReplyLost
<1> QED
  BY <1>1, <1>2, <1>3, <1>4, <1>5, <1>6, <1>7 DEF Next

\* The owners stay the same as long as handlers only go on or end and challenges
\* only go.
LEMMA OwnersKept ==
    ASSUME CodesHaveOwners,
           \A u \in User : Live(u)' => Live(u) /\ challenge'[u].code = challenge[u].code,
           \A r \in Request : req'[r].at \in Requesting =>
              req[r].at \in Requesting /\ req'[r].user = req[r].user
    PROVE  CodesHaveOwners'
BY DEF CodesHaveOwners

\* What the handlers' steps do to the challenges, but for the SET.
LEMMA HandlersOwn ==
    ASSUME IndInv, CodesHaveOwners, NEW r \in Request, Handle(r) \/ ReplyLost(r), ~Store(r)
    PROVE  CodesHaveOwners'
<1>1. \A q \in Request : req'[q].at \in Requesting =>
              req[q].at \in Requesting /\ req'[q].user = req[q].user
  <2>1. CASE UNCHANGED req
    BY <2>1
  <2>2. CASE Answer(r)
    BY <2>2, AnswerDoes DEF IndInv, Requesting
  <2>3. CASE CheckOwner(r) \/ AcquireCooldown(r)
    <3>1. req[r].at \in Requesting
          /\ (Answer(r) \/ Continue(r, "acquireCooldown") \/ Continue(r, "storeChallenge"))
      BY <2>3 DEF CheckOwner, AcquireCooldown, Requesting
    <3> QED
      BY <2>2, <3>1, ContinueDoes DEF IndInv
  <2>4. CASE EvalMatch(r)
    <3>1. req' = [req EXCEPT ![r].at = "markVerified", ![r].phone = Pending(r).phone]
      BY <2>4 DEF EvalMatch
    <3>2. req'[r].at = "markVerified" /\ \A q \in Request \ {r} : req'[q] = req[q]
      BY <3>1 DEF IndInv, TypeOK, Handler
    <3> QED
      BY <3>2 DEF Requesting
  <2> QED
    BY <2>1, <2>2, <2>3, <2>4 DEF Handle, ReplyLost, Eval, EvalNotFound, EvalMismatch,
       EvalReplyLost, CooldownReplyLost, StoreChallenge, StoreReplyLost, MarkVerified
<1>2. \A u \in User : Live(u)' => Live(u) /\ challenge'[u].code = challenge[u].code
  <2>1. CASE UNCHANGED challenge
    BY <2>1 DEF Live
  <2>2. CASE ScriptMatch(r) \/ ScriptExceeded(r)
    <3>1. challenge' = [challenge EXCEPT ![req[r].user] = Null] /\ req[r].user \in User
      BY <2>2, EvalReads DEF ScriptMatch, ScriptExceeded, Mismatch
    <3> QED
      BY <3>1, DropInv DEF Live
  <2>3. CASE ScriptInvalid(r)
    BY <2>3, ScriptInvalidDoes DEF Live
  <2> QED
    BY <2>1, <2>2, <2>3 DEF Handle, ReplyLost, Eval, CheckOwner, AcquireCooldown,
       EvalNotFound, EvalMatch, EvalMismatch, EvalReplyLost, CooldownReplyLost,
       StoreChallenge, StoreReplyLost, MarkVerified
<1> QED
  BY <1>1, <1>2, OwnersKept

\* A code is stored for the user of its handler, which keeps its user.
LEMMA StoreOwns ==
    ASSUME IndInv, CodesHaveOwners, NEW r \in Request, StoreChallenge(r) \/ StoreReplyLost(r)
    PROVE  CodesHaveOwners'
<1>1. Store(r)
  BY DEF StoreChallenge, StoreReplyLost
<1>2. /\ req[r].user \in User /\ challenge'[req[r].user].code = r
      /\ \A w \in User \ {req[r].user} : challenge'[w] = challenge[w]
  BY <1>1, StoreDoes
<1>3. \A q \in Request : req'[q].at = "idle" \/ req'[q] = req[q]
  BY AnswerDoes DEF IndInv, StoreChallenge, StoreReplyLost
<1> QED
  BY <1>2, <1>3 DEF CodesHaveOwners, Requesting, Live

\* Every step keeps the owners.
LEMMA NextOwners == IndInv /\ CodesHaveOwners /\ [Next]_vars => CodesHaveOwners'
<1> SUFFICES ASSUME IndInv, CodesHaveOwners, [Next]_vars PROVE CodesHaveOwners'
  OBVIOUS
<1>1. ASSUME NEW r \in Request, Handle(r) \/ ReplyLost(r) PROVE CodesHaveOwners'
  <2>1. CASE StoreChallenge(r) \/ StoreReplyLost(r)
    BY <2>1, StoreOwns
  <2>2. CASE ~(StoreChallenge(r) \/ StoreReplyLost(r)) /\ Store(r)
    BY <1>1, <2>2 DEF Store, Handle, ReplyLost, Eval, CheckOwner, AcquireCooldown,
       EvalNotFound, EvalMatch, EvalMismatch, ScriptMatch, ScriptExceeded, ScriptInvalid,
       Mismatch, MarkVerified, EvalReplyLost, CooldownReplyLost
  <2> QED
    BY <1>1, <2>1, <2>2, HandlersOwn
<1>2. ASSUME NEW r \in Request, NEW u \in User, RequestOtp(r, u) PROVE CodesHaveOwners'
  <2>1. r \notin issued /\ UNCHANGED challenge
    BY <1>2 DEF RequestOtp
  <2>2. \A q \in Request \ {r} : req'[q] = req[q]
    BY <1>2 DEF RequestOtp, IndInv, TypeOK
  <2>3. \A w \in User : Live(w) => challenge[w].code # r
    BY <2>1 DEF IndInv, ChallengesAgree, CodesAreFresh
  <2> QED
    BY <2>1, <2>2, <2>3 DEF CodesHaveOwners, Live
<1>3. ASSUME NEW r \in Request, NEW u \in User, NEW guess, SubmitOtp(r, u, guess)
      PROVE  CodesHaveOwners'
  <2>1. req'[r].at = "evalScript" /\ \A q \in Request \ {r} : req'[q] = req[q]
    BY <1>3 DEF SubmitOtp, IndInv, TypeOK
  <2>2. UNCHANGED challenge
    BY <1>3 DEF SubmitOtp
  <2> QED
    BY <2>1, <2>2, OwnersKept DEF Requesting, Live
<1>4. CASE Tick
  <2>1. ASSUME NEW u \in User, Live(u)'
        PROVE  Live(u) /\ challenge'[u].code = challenge[u].code
    <3>1. challenge'[u] = Aged(challenge[u]) /\ challenge[u] \in Challenge \cup {Null}
      BY <1>4 DEF Tick, IndInv, TypeOK
    <3>2. Live(u) /\ challenge[u].ttl # Persistent =>
             challenge[u].age + challenge[u].ttl <= Second * OtpTtl + 2 * challenge[u].attempts
      BY DEF IndInv, ChallengesAgree, GuessesDoNotRenew
    <3> QED
      BY <2>1, <3>1, <3>2, AgedBounds DEF Live
  <2>2. UNCHANGED req
    BY <1>4 DEF Tick
  <2> QED
    BY <2>1, <2>2, OwnersKept
<1>5. ASSUME NEW R, Fail(R) PROVE CodesHaveOwners'
  <2>1. \A q \in Request : req'[q].at = "idle" \/ req'[q] = req[q]
    BY <1>5 DEF Fail, Idle
  <2>2. UNCHANGED challenge
    BY <1>5 DEF Fail
  <2> QED
    BY <2>1, <2>2, OwnersKept DEF Requesting, Live
<1>6. CASE UNCHANGED vars
  BY <1>6 DEF vars, CodesHaveOwners, Live
<1> QED
  BY <1>1, <1>2, <1>3, <1>4, <1>5, <1>6 DEF Next

\* The invariant holds in every reachable state.
THEOREM Invariance == Spec => []IndInv
<1>1. Init => IndInv /\ CodesHaveOwners
  BY InitInv DEF Init, CodesHaveOwners, Live
<1>2. IndInv /\ CodesHaveOwners /\ [Next]_vars => (IndInv /\ CodesHaveOwners)'
  BY NextInv, NextOwners
<1> QED
  BY <1>1, <1>2, PTL DEF Spec

\* The variables keep their types: no challenge is counted beyond MaxAttempts
\* or lives longer than MaxLife.
THEOREM TypeCorrect == Spec => []TypeOK
<1>1. IndInv => TypeOK
  BY DEF IndInv
<1> QED
  BY <1>1, Invariance, PTL

\* A code that was matched is never live again.
THEOREM SingleUse == Spec => []CodeIsSingleUse
<1>1. IndInv => CodeIsSingleUse
  BY DEF IndInv, ChallengesAgree
<1> QED
  BY <1>1, Invariance, PTL

\* A code withstands at most MaxAttempts guesses after it was stored, counted in
\* its challenge.
THEOREM BoundedGuesses == Spec => []GuessesAreBounded
<1>1. IndInv => GuessesAreBounded
  BY DEF IndInv, ChallengesAgree
<1> QED
  BY <1>1, Invariance, PTL

\* A wrong guess adds at most half a second to the life of a challenge.
THEOREM BoundedRenewal == Spec => []GuessesDoNotRenew
<1>1. IndInv => GuessesDoNotRenew
  BY DEF IndInv, ChallengesAgree
<1> QED
  BY <1>1, Invariance, PTL

\* The number a code was sent to is the account's, when it is marked verified too.
THEOREM NumbersAgree == Spec => []NumberIsTheAccounts
<1>1. IndInv => NumberIsTheAccounts
  BY DEF IndInv
<1> QED
  BY <1>1, Invariance, PTL

-----------------------------------------------------------------------------
(* The refinement: Store issues a secret, ScriptMatch uses it, the          *)
(* mismatches try it, Tick expires some, every other action stutters.       *)

\* The state of the one-time secret.
secretVars == <<told, LiveCodes, spent, wrong>>

\* Initially nothing has been issued, and nobody has been told anything.
LEMMA InitMaps == Init => OneTime!Init
  BY DEF Init, OneTime!Init, LiveCodes, Live

\* What leaves the challenges and their history alone is a stutter.
LEMMA StutterMaps ==
    ASSUME UNCHANGED <<challenge, issued, told, wrong, spent>>
    PROVE  UNCHANGED secretVars
  BY DEF secretVars, LiveCodes, Live

\* A stored code is one that nobody was told, and replaces at most the one of its
\* user.
LEMMA StoreMaps ==
    ASSUME IndInv, NEW r \in Request, StoreChallenge(r) \/ StoreReplyLost(r)
    PROVE  OneTime!Issue(r)
<1> DEFINE u == req[r].user
           kept == {challenge[w].code : w \in {v \in User \ {u} : Live(v)}}
<1>1. Store(r)
  BY DEF StoreChallenge, StoreReplyLost
<1>2. /\ u \in User /\ challenge'[u] # Null /\ challenge'[u].code = r
      /\ \A w \in User \ {u} : challenge'[w] = challenge[w]
      /\ r \notin told
  BY <1>1, StoreDoes
<1>3. told' \in {told, told \cup {r}} /\ wrong' = [wrong EXCEPT ![r] = 0] /\ spent' = spent
  BY DEF StoreChallenge, StoreReplyLost, Store
<1>4. kept \in SUBSET LiveCodes
  BY DEF LiveCodes
<1>5. LiveCodes' = kept \cup {r}
  BY <1>2 DEF LiveCodes, Live
<1> QED
  BY <1>2, <1>3, <1>4, <1>5 DEF OneTime!Issue

\* Deleting a challenge ends its code, which no other user has.
LEMMA DropMaps ==
    ASSUME IndInv, NEW u \in User, Live(u), challenge' = [challenge EXCEPT ![u] = Null]
    PROVE  LiveCodes' = LiveCodes \ {challenge[u].code}
<1>1. challenge'[u] = Null /\ \A w \in User \ {u} : challenge'[w] = challenge[w]
  BY DropInv
<1>2. \A w \in User : Live(w) /\ challenge[w].code = challenge[u].code => w = u
  BY DEF IndInv, ChallengesAgree, CodesAreFresh
<1> QED
  BY <1>1, <1>2 DEF LiveCodes, Live

\* A match uses the code.
LEMMA ScriptMatchMaps ==
    ASSUME IndInv, NEW r \in Request, ScriptMatch(r)
    PROVE  \E c \in Request : OneTime!Use(c)
<1> DEFINE u == req[r].user
           c == Pending(r)
<1>1. /\ req[r].at = "evalScript" /\ c # Null /\ c.code = req[r].code
      /\ challenge' = [challenge EXCEPT ![u] = Null]
      /\ spent' = spent \cup {c.code} /\ UNCHANGED <<issued, told, wrong>>
  BY DEF ScriptMatch
<1>2. u \in User /\ Live(u) /\ c = challenge[u] /\ c.code \in Request
  BY <1>1, EvalReads
<1>3. c.code \in LiveCodes /\ LiveCodes' = LiveCodes \ {c.code}
  BY <1>1, <1>2, DropMaps DEF LiveCodes
<1>4. c.code \in told
  BY <1>1, ScriptMatchDoes
<1>5. OneTime!Use(c.code)
  BY <1>1, <1>3, <1>4 DEF OneTime!Use
<1> QED
  BY <1>2, <1>5

\* A fatal wrong guess tries the code and ends it.
LEMMA ScriptExceededMaps ==
    ASSUME IndInv, NEW r \in Request, ScriptExceeded(r)
    PROVE  \E c \in Request : OneTime!Try(c)
<1> DEFINE u == req[r].user
           c == Pending(r)
<1>1. /\ req[r].at = "evalScript" /\ c # Null /\ c.attempts + 1 >= MaxAttempts
      /\ challenge' = [challenge EXCEPT ![u] = Null]
      /\ wrong' = [wrong EXCEPT ![c.code] = @ + 1] /\ UNCHANGED <<issued, told, spent>>
  BY DEF ScriptExceeded, Mismatch, Replied
<1>2. /\ u \in User /\ Live(u) /\ c = challenge[u] /\ c.code \in Request
      /\ wrong[c.code] = c.attempts /\ c.attempts \in 0..(MaxAttempts - 1)
  BY <1>1, EvalReads
<1>3. c.code \in LiveCodes /\ LiveCodes' = LiveCodes \ {c.code}
  BY <1>1, <1>2, DropMaps DEF LiveCodes
<1>4. ~(wrong[c.code] + 1 < MaxAttempts)
  BY <1>1, <1>2, SettingsAssumption
<1>5. OneTime!Try(c.code)
  BY <1>1, <1>3, <1>4 DEF OneTime!Try
<1> QED
  BY <1>2, <1>5

\* Any other wrong guess tries the code and leaves it alive.
LEMMA ScriptInvalidMaps ==
    ASSUME IndInv, NEW r \in Request, ScriptInvalid(r)
    PROVE  \E c \in Request : OneTime!Try(c)
<1> DEFINE u == req[r].user
           c == Pending(r)
<1>1. /\ req[r].at = "evalScript" /\ c # Null /\ c.attempts + 1 < MaxAttempts
      /\ wrong' = [wrong EXCEPT ![c.code] = @ + 1] /\ UNCHANGED <<issued, told, spent>>
  BY DEF ScriptInvalid, Mismatch, Replied
<1>2. c.code \in Request /\ wrong[c.code] = c.attempts
  BY <1>1, EvalReads
<1>3. /\ u \in User /\ Live(u) /\ c = challenge[u]
      /\ challenge'[u] # Null /\ challenge'[u].code = c.code
      /\ \A w \in User \ {u} : challenge'[w] = challenge[w]
  BY ScriptInvalidDoes
<1>4. c.code \in LiveCodes /\ LiveCodes' = LiveCodes
  BY <1>3 DEF LiveCodes, Live
<1>5. OneTime!Try(c.code)
  BY <1>1, <1>2, <1>4 DEF OneTime!Try
<1> QED
  BY <1>2, <1>5

\* The script uses a secret or tries it, whoever hears of it.
LEMMA ScriptMaps ==
    ASSUME IndInv, NEW r \in Request, ScriptMatch(r) \/ ScriptExceeded(r) \/ ScriptInvalid(r)
    PROVE  OneTime!Next
BY ScriptMatchMaps, ScriptExceededMaps, ScriptInvalidMaps DEF OneTime!Next

\* Time expires secrets.
LEMMA TickMaps ==
    ASSUME IndInv, Tick
    PROVE  OneTime!Expire
<1>1. ASSUME NEW u \in User, challenge'[u] # Null
      PROVE  challenge[u] # Null /\ challenge'[u].code = challenge[u].code
  <2>1. challenge'[u] = Aged(challenge[u]) /\ challenge[u] \in Challenge \cup {Null}
    BY DEF Tick, IndInv, TypeOK
  <2>2. challenge[u] # Null /\ challenge[u].ttl # Persistent =>
           challenge[u].age + challenge[u].ttl <= Second * OtpTtl + 2 * challenge[u].attempts
    BY DEF IndInv, ChallengesAgree, GuessesDoNotRenew, Live
  <2> QED
    BY <1>1, <2>1, <2>2, AgedBounds
<1>2. LiveCodes' \in SUBSET LiveCodes
  BY <1>1 DEF LiveCodes, Live
<1> QED
  BY <1>2 DEF Tick, OneTime!Expire

\* Every step is a step of the one-time secret or a stutter.
LEMMA NextMaps == IndInv /\ [Next]_vars => [OneTime!Next]_secretVars
<1> SUFFICES ASSUME IndInv, [Next]_vars PROVE [OneTime!Next]_secretVars
  OBVIOUS
<1>1. ASSUME NEW r \in Request, Handle(r)
      PROVE  [OneTime!Next]_secretVars
  <2>1. CASE CheckOwner(r) \/ AcquireCooldown(r) \/ EvalNotFound(r) \/ MarkVerified(r)
    BY <2>1, StutterMaps DEF CheckOwner, AcquireCooldown, EvalNotFound, MarkVerified
  <2>2. CASE StoreChallenge(r)
    BY <2>2, StoreMaps DEF OneTime!Next
  <2>3. CASE EvalMatch(r) \/ EvalMismatch(r)
    BY <2>3, ScriptMaps DEF EvalMatch, EvalMismatch
  <2> QED
    BY <1>1, <2>1, <2>2, <2>3 DEF Handle, Eval
<1>2. CASE \E r \in Request, u \in User : RequestOtp(r, u)
  BY <1>2, StutterMaps DEF RequestOtp
<1>3. CASE \E r \in Request, u \in User, guess \in told \cup {WrongCode} :
              SubmitOtp(r, u, guess)
  BY <1>3, StutterMaps DEF SubmitOtp
<1>4. CASE Tick
  BY <1>4, TickMaps DEF OneTime!Next
<1>5. CASE \E R \in (SUBSET InFlight) \ {{}} : Fail(R)
  BY <1>5, StutterMaps DEF Fail
<1>6. CASE UNCHANGED vars
  BY <1>6, StutterMaps DEF vars
<1>7. ASSUME NEW r \in Request, ReplyLost(r)
      PROVE  [OneTime!Next]_secretVars
  BY <1>7, ScriptMaps, StoreMaps, StutterMaps
  DEF ReplyLost, EvalReplyLost, CooldownReplyLost, OneTime!Next
<1> QED
  BY <1>1, <1>2, <1>3, <1>4, <1>5, <1>6, <1>7 DEF Next

\* The phone OTP implements the one-time secret.
THEOREM Refinement == Spec => OtpIsOneTimeSecret
<1>1. Init => OneTime!Init
  BY InitMaps
<1>2. IndInv /\ [Next]_vars => [OneTime!Next]_(OneTime!vars)
  BY NextMaps DEF secretVars, OneTime!vars
<1>3. Spec => []IndInv
  BY Invariance
<1> QED
  BY <1>1, <1>2, <1>3, PTL DEF Spec, OtpIsOneTimeSecret, OneTime!Spec

=============================================================================
