------------------------- MODULE CredentialsProofs -------------------------
(***************************************************************************)
(* Proofs about Credentials, for any number of accounts, passwords,        *)
(* handlers and failures.  Everything rests on one inductive invariant,    *)
(* IndInv: the type invariant, the revocations that must hold, what the    *)
(* handlers in flight rely on, and that every secret in circulation opens  *)
(* a row.  RevocationsHold needs the last two: a reset may only answer for *)
(* rows that exist, or the slot of a "doomed" row could be given a fresh,  *)
(* unrevoked one.                                                          *)
(***************************************************************************)
EXTENDS Credentials, TLAPS

\* A secret in the hands of a client or an owner opens a row, and rows belong
\* to accounts that exist.
SecretsOpenRows ==
    /\ \A r \in Request : session[r].user # Null => session[r].user \in users
    /\ \A r \in Request : token[r].user # Null => token[r].user \in users
    /\ \A s \in cookies : session[s].user # Null
    /\ \A t \in mailbox : token[t].user # Null
    /\ \A r \in Request : req[r].at = "setCookie" => session[r].user # Null
    /\ \A r \in Request : req[r].at = "publishToken" => token[r].user # Null

IndInv == TypeOK /\ HandlersAgreeWithRows /\ SecretsOpenRows /\ AnsweredRevocationsHold

-----------------------------------------------------------------------------
(* What the building blocks of the actions do.                              *)

\* Advancing a handler keeps it a handler.
LEMMA ContinueType ==
    ASSUME TypeOK, NEW r \in Request, NEW step \in Step, Continue(r, step)
    PROVE  req' \in [Request -> Handler]
<1>1. [req[r] EXCEPT !.at = step] \in Handler
  BY DEF TypeOK, Handler
<1>2. req' = [req EXCEPT ![r] = [req[r] EXCEPT !.at = step]]
  BY DEF Continue
<1> QED
  BY <1>1, <1>2 DEF TypeOK

\* Answering a request empties its slot and no other.
LEMMA AnswerType ==
    ASSUME TypeOK, NEW r \in Request, Answer(r)
    PROVE  req' \in [Request -> Handler]
  BY DEF TypeOK, Answer, Idle, Handler, Step

\* The UPDATE that revokes: rows keep their owner, a revoked row stays revoked,
\* and every row it names is revoked (sessions.ts:34-42).
LEMMA RevokeRevokes ==
    ASSUME TypeOK, NEW S, Revoke(S)
    PROVE  /\ session' \in [Request -> SessionRow]
           /\ \A s \in Request : /\ session'[s].user = session[s].user
                                 /\ session[s].revoked => session'[s].revoked
                                 /\ s \in S => session'[s].revoked
<1>1. \A s \in Request : [session[s] EXCEPT !.revoked = @ \/ s \in S] \in SessionRow
  BY DEF TypeOK, SessionRow
<1>2. ASSUME NEW s \in Request
      PROVE  /\ session'[s].user = session[s].user
             /\ session[s].revoked => session'[s].revoked
             /\ s \in S => session'[s].revoked
  <2>1. session'[s] = [session[s] EXCEPT !.revoked = @ \/ s \in S]
    BY DEF Revoke
  <2>2. session[s] \in SessionRow
    BY DEF TypeOK
  <2>3. session'[s].revoked = (session[s].revoked \/ s \in S)
    BY <2>1
  <2>4. session'[s].user = session[s].user
    BY <2>1
  <2> QED
    BY <2>3, <2>4
<1> QED
  BY <1>1, <1>2 DEF Revoke

-----------------------------------------------------------------------------
(* The invariant holds initially and is preserved by every action.          *)

\* At first there is no row, no secret and no handler.
LEMMA InitInv == Init => IndInv
  BY MaxFailuresAssumption DEF Init, IndInv, TypeOK, HandlersAgreeWithRows,
     SecretsOpenRows, AnsweredRevocationsHold, SessionRow, TokenRow, Handler, Step,
     NoSession, NoToken, Idle

\* A registration adds an account, which has no sessions or tokens yet.
LEMMA RegisterInsertUserInv ==
    ASSUME NEW r \in Request, NEW a \in Account, NEW p \in Password,
           IndInv, RegisterInsertUser(r, a, p)
    PROVE  IndInv'
<1>1. TypeOK'
  BY DEF IndInv, TypeOK, Handler, Step, RegisterInsertUser, Idle, Start
<1>2. HandlersAgreeWithRows'
  BY DEF IndInv, HandlersAgreeWithRows, RegisterInsertUser, Start, Unused, SessionsOf
<1>3. SecretsOpenRows'
  BY DEF IndInv, SecretsOpenRows, RegisterInsertUser, Start
<1>4. AnsweredRevocationsHold'
  BY DEF IndInv, AnsweredRevocationsHold, RegisterInsertUser
<1> QED
  BY <1>1, <1>2, <1>3, <1>4 DEF IndInv

\* A login starts from an account that exists.
LEMMA LoginFindUserInv ==
    ASSUME NEW r \in Request, NEW a \in Account, NEW p \in Password,
           IndInv, LoginFindUser(r, a, p)
    PROVE  IndInv'
<1>1. TypeOK'
  BY DEF IndInv, TypeOK, Handler, Step, LoginFindUser, tables, Idle, Start
<1>2. HandlersAgreeWithRows'
  BY DEF IndInv, HandlersAgreeWithRows, LoginFindUser, tables, Start, Unused, SessionsOf
<1>3. SecretsOpenRows'
  BY DEF IndInv, SecretsOpenRows, LoginFindUser, tables, Start
<1>4. AnsweredRevocationsHold'
  BY DEF IndInv, AnsweredRevocationsHold, LoginFindUser, tables
<1> QED
  BY <1>1, <1>2, <1>3, <1>4 DEF IndInv

\* A Google sign-in adds an account or starts from one that exists.
LEMMA GoogleResolveUserInv ==
    ASSUME NEW r \in Request, NEW a \in Account, IndInv, GoogleResolveUser(r, a)
    PROVE  IndInv'
<1>1. TypeOK'
  BY DEF IndInv, TypeOK, Handler, Step, GoogleResolveUser, Idle, Start
<1>2. HandlersAgreeWithRows'
  BY DEF IndInv, HandlersAgreeWithRows, GoogleResolveUser, Start, Unused, SessionsOf
<1>3. SecretsOpenRows'
  BY DEF IndInv, SecretsOpenRows, GoogleResolveUser, Start
<1>4. AnsweredRevocationsHold'
  BY DEF IndInv, AnsweredRevocationsHold, GoogleResolveUser
<1> QED
  BY <1>1, <1>2, <1>3, <1>4 DEF IndInv

\* A reset request starts from an account that exists.
LEMMA ResetFindUserInv ==
    ASSUME NEW r \in Request, NEW a \in Account, IndInv, ResetFindUser(r, a)
    PROVE  IndInv'
<1>1. TypeOK'
  BY DEF IndInv, TypeOK, Handler, Step, ResetFindUser, tables, Idle, Start
<1>2. HandlersAgreeWithRows'
  BY DEF IndInv, HandlersAgreeWithRows, ResetFindUser, tables, Start, Unused, SessionsOf
<1>3. SecretsOpenRows'
  BY DEF IndInv, SecretsOpenRows, ResetFindUser, tables, Start
<1>4. AnsweredRevocationsHold'
  BY DEF IndInv, AnsweredRevocationsHold, ResetFindUser, tables
<1> QED
  BY <1>1, <1>2, <1>3, <1>4 DEF IndInv

\* A confirm holds a token its owner received, of the account it will change.
LEMMA ConfirmFindTokenInv ==
    ASSUME NEW r \in Request, NEW t \in Request, NEW p \in Password,
           IndInv, ConfirmFindToken(r, t, p)
    PROVE  IndInv'
<1>1. TypeOK'
  BY DEF IndInv, TypeOK, TokenRow, Handler, Step, ConfirmFindToken, tables, Idle, Start
<1>2. HandlersAgreeWithRows'
  BY DEF IndInv, HandlersAgreeWithRows, SecretsOpenRows, ConfirmFindToken, tables,
     Start, SessionsOf
<1>3. SecretsOpenRows'
  BY DEF IndInv, SecretsOpenRows, ConfirmFindToken, tables, Start
<1>4. AnsweredRevocationsHold'
  BY DEF IndInv, AnsweredRevocationsHold, ConfirmFindToken, tables
<1> QED
  BY <1>1, <1>2, <1>3, <1>4 DEF IndInv

\* A verification that finds its session unrevoked finds it not doomed.
LEMMA VerifyFindSessionInv ==
    ASSUME NEW r \in Request, NEW s \in Request, IndInv, VerifyFindSession(r, s)
    PROVE  IndInv'
<1> DEFINE h == [at |-> "verifyUser", account |-> session[s].user, password |-> Null,
                 ref |-> s, prior |-> doomed \cap {s}]
<1>1. /\ session[s].user \in users
      /\ doomed \cap {s} = {}
      /\ s # Null
  BY NullAssumption
  DEF IndInv, SecretsOpenRows, AnsweredRevocationsHold, VerifyFindSession, ActiveSession
<1>2. /\ req' = [req EXCEPT ![r] = h]
      /\ UNCHANGED <<tables, cooldown, mailbox, cookies, failures, doomed>>
  BY DEF VerifyFindSession
<1>3. TypeOK'
  <2>1. h \in Handler
    BY <1>1 DEF IndInv, TypeOK, Handler, Step
  <2> QED
    BY <1>2, <2>1 DEF IndInv, TypeOK, tables
<1>4. HandlersAgreeWithRows'
  BY <1>1, <1>2 DEF IndInv, TypeOK, HandlersAgreeWithRows, tables, SessionsOf
<1>5. SecretsOpenRows'
  BY <1>2 DEF IndInv, TypeOK, SecretsOpenRows, tables
<1>6. AnsweredRevocationsHold'
  BY <1>2 DEF IndInv, AnsweredRevocationsHold, tables
<1> QED
  BY <1>3, <1>4, <1>5, <1>6 DEF IndInv

\* The slot of a new session had no row, so no doomed row is replaced.
LEMMA InsertSessionInv ==
    ASSUME NEW r \in Request, IndInv, InsertSession(r)
    PROVE  IndInv'
<1>1. TypeOK'
  <2>1. session' \in [Request -> SessionRow]
    BY DEF IndInv, TypeOK, SessionRow, Handler, NoSession, InsertSession
  <2>2. req' \in [Request -> Handler]
    BY ContinueType DEF IndInv, Step, InsertSession
  <2> QED
    BY <2>1, <2>2 DEF IndInv, TypeOK, InsertSession
<1>2. HandlersAgreeWithRows'
  BY NullAssumption DEF IndInv, TypeOK, HandlersAgreeWithRows, InsertSession, Continue,
     SessionsOf
<1>3. SecretsOpenRows'
  BY NullAssumption DEF IndInv, TypeOK, HandlersAgreeWithRows, SecretsOpenRows,
     InsertSession, Continue
<1>4. AnsweredRevocationsHold'
  BY DEF IndInv, HandlersAgreeWithRows, AnsweredRevocationsHold, InsertSession
<1> QED
  BY <1>1, <1>2, <1>3, <1>4 DEF IndInv

\* The secret that is sent opens the row just inserted.
LEMMA ReplyWithCookieInv ==
    ASSUME NEW r \in Request, IndInv, ReplyWithCookie(r)
    PROVE  IndInv'
  BY DEF IndInv, TypeOK, HandlersAgreeWithRows, SecretsOpenRows,
     AnsweredRevocationsHold, Handler, Step, ReplyWithCookie, tables, Idle, Answer,
     SessionsOf

\* The cooldown of an account that exists is taken, or the handler ends.
LEMMA AcquireCooldownInv ==
    ASSUME NEW r \in Request, IndInv, AcquireCooldown(r)
    PROVE  IndInv'
<1>1. TypeOK'
  <2>1. req' \in [Request -> Handler]
    BY ContinueType, AnswerType DEF IndInv, Step, AcquireCooldown
  <2>2. req[r].account \in Account
    BY DEF IndInv, TypeOK, HandlersAgreeWithRows, AcquireCooldown
  <2> QED
    BY <2>1, <2>2 DEF IndInv, TypeOK, tables, AcquireCooldown
<1>2. CASE req[r].account \in cooldown
  <2>1. Answer(r)
    BY <1>2 DEF AcquireCooldown
  <2>2. HandlersAgreeWithRows'
    BY <2>1 DEF IndInv, HandlersAgreeWithRows, Answer, Idle, SessionsOf, tables,
       AcquireCooldown
  <2>3. SecretsOpenRows'
    BY <2>1 DEF IndInv, SecretsOpenRows, Answer, Idle, tables, AcquireCooldown
  <2> QED
    BY <1>1, <2>2, <2>3 DEF IndInv, AnsweredRevocationsHold, tables, AcquireCooldown
<1>3. CASE req[r].account \notin cooldown
  <2>1. Continue(r, "insertToken")
    BY <1>3 DEF AcquireCooldown
  <2>2. HandlersAgreeWithRows'
    BY <2>1 DEF IndInv, HandlersAgreeWithRows, Continue, SessionsOf, tables,
       AcquireCooldown
  <2>3. SecretsOpenRows'
    BY <2>1 DEF IndInv, SecretsOpenRows, Continue, tables, AcquireCooldown
  <2> QED
    BY <1>1, <2>2, <2>3 DEF IndInv, AnsweredRevocationsHold, tables, AcquireCooldown
<1> QED
  BY <1>2, <1>3

\* The slot of a new token had no row.
LEMMA InsertTokenInv ==
    ASSUME NEW r \in Request, IndInv, InsertToken(r)
    PROVE  IndInv'
<1>1. TypeOK'
  <2>1. token' \in [Request -> TokenRow]
    BY DEF IndInv, TypeOK, TokenRow, Handler, NoToken, InsertToken
  <2>2. req' \in [Request -> Handler]
    BY ContinueType DEF IndInv, Step, InsertToken
  <2> QED
    BY <2>1, <2>2 DEF IndInv, TypeOK, InsertToken
<1>2. HandlersAgreeWithRows'
  BY DEF IndInv, TypeOK, HandlersAgreeWithRows, SecretsOpenRows, InsertToken, Continue,
     SessionsOf
<1>3. SecretsOpenRows'
  BY NullAssumption DEF IndInv, TypeOK, HandlersAgreeWithRows, SecretsOpenRows,
     InsertToken, Continue
<1>4. AnsweredRevocationsHold'
  BY DEF IndInv, AnsweredRevocationsHold, InsertToken
<1> QED
  BY <1>1, <1>2, <1>3, <1>4 DEF IndInv

\* The secret that is published opens the row just inserted.
LEMMA PublishTokenInv ==
    ASSUME NEW r \in Request, IndInv, PublishToken(r)
    PROVE  IndInv'
  BY DEF IndInv, TypeOK, HandlersAgreeWithRows, SecretsOpenRows,
     AnsweredRevocationsHold, Handler, Step, PublishToken, tables, Idle, Answer, SessionsOf

\* A consumed token stays its account's.
LEMMA ConsumeTokenInv ==
    ASSUME NEW r \in Request, IndInv, ConsumeToken(r)
    PROVE  IndInv'
<1>1. TypeOK'
  <2>1. token' \in [Request -> TokenRow]
    BY DEF IndInv, TypeOK, TokenRow, ConsumeToken
  <2>2. req' \in [Request -> Handler]
    BY ContinueType DEF IndInv, Step, ConsumeToken
  <2> QED
    BY <2>1, <2>2 DEF IndInv, TypeOK, ConsumeToken
<1>2. HandlersAgreeWithRows'
  BY DEF IndInv, TypeOK, HandlersAgreeWithRows, ConsumeToken, Continue, SessionsOf
<1>3. SecretsOpenRows'
  BY DEF IndInv, SecretsOpenRows, ConsumeToken, Continue
<1>4. AnsweredRevocationsHold'
  BY DEF IndInv, AnsweredRevocationsHold, ConsumeToken
<1> QED
  BY <1>1, <1>2, <1>3, <1>4 DEF IndInv

\* The sessions the account has now are those RevokeAll will have to revoke.
LEMMA UpdateHashInv ==
    ASSUME NEW r \in Request, IndInv, UpdateHash(r)
    PROVE  IndInv'
<1>1. TypeOK'
  <2> DEFINE P == SessionsOf(req[r].account)
  <2>0. P \in SUBSET Request
    BY DEF SessionsOf
  <2>1. req' = [req EXCEPT ![r] = [req[r] EXCEPT !.at = "revokeAll", !.prior = P]]
    BY DEF UpdateHash
  <2> HIDE DEF P
  <2>2. req' \in [Request -> Handler]
    <3>1. req[r] \in Handler
      BY DEF IndInv, TypeOK
    <3>2. [req[r] EXCEPT !.at = "revokeAll", !.prior = P] \in Handler
      BY <2>0, <3>1 DEF Handler, Step
    <3> QED
      BY <2>1, <3>2 DEF IndInv, TypeOK
  <2>3. hash' \in [Account -> Password \cup {Null}]
    BY DEF IndInv, TypeOK, Handler, UpdateHash
  <2> QED
    BY <2>2, <2>3 DEF IndInv, TypeOK, UpdateHash
<1>2. HandlersAgreeWithRows'
  BY DEF IndInv, TypeOK, HandlersAgreeWithRows, UpdateHash, SessionsOf
<1>3. SecretsOpenRows'
  BY DEF IndInv, TypeOK, SecretsOpenRows, UpdateHash
<1>4. AnsweredRevocationsHold'
  BY DEF IndInv, AnsweredRevocationsHold, UpdateHash
<1> QED
  BY <1>1, <1>2, <1>3, <1>4 DEF IndInv

\* Every session remembered by UpdateHash is the account's still, and is revoked.
LEMMA RevokeAllInv ==
    ASSUME NEW r \in Request, IndInv, RevokeAll(r)
    PROVE  IndInv'
<1>1. TypeOK'
  <2>1. session' \in [Request -> SessionRow]
    BY RevokeRevokes DEF IndInv, RevokeAll
  <2>2. req' \in [Request -> Handler]
    BY AnswerType DEF IndInv, RevokeAll
  <2>3. doomed' \subseteq Request
    BY DEF IndInv, TypeOK, Handler, RevokeAll
  <2> QED
    BY <2>1, <2>2, <2>3 DEF IndInv, TypeOK, RevokeAll
<1>2. HandlersAgreeWithRows'
  <2>1. \A s \in Request : session'[s].user = session[s].user
    BY RevokeRevokes DEF IndInv, RevokeAll
  <2>2. \A a : SessionsOf(a)' = SessionsOf(a)
    BY <2>1 DEF SessionsOf
  <2>3. /\ req'[r] = Idle
        /\ \A q \in Request \ {r} : req'[q] = req[q]
        /\ UNCHANGED <<users, token, mailbox>>
    BY DEF IndInv, TypeOK, RevokeAll, Answer
  <2>4. \A q \in Request : req[q].ref \in Request \cup {Null}
    BY DEF IndInv, TypeOK, Handler
  <2> QED
    BY <2>1, <2>2, <2>3, <2>4 DEF IndInv, HandlersAgreeWithRows, Idle
<1>3. SecretsOpenRows'
  BY DEF IndInv, TypeOK, SecretsOpenRows, SessionRow, RevokeAll, Idle, Answer, Revoke
<1>4. AnsweredRevocationsHold'
  BY RevokeRevokes, NullAssumption DEF IndInv, TypeOK, HandlersAgreeWithRows,
     AnsweredRevocationsHold, SessionsOf, RevokeAll
<1> QED
  BY <1>1, <1>2, <1>3, <1>4 DEF IndInv

\* Accepting only ends a handler.
LEMMA VerifyAcceptInv ==
    ASSUME NEW r \in Request, IndInv, VerifyAccept(r)
    PROVE  IndInv'
  BY DEF IndInv, TypeOK, HandlersAgreeWithRows, SecretsOpenRows,
     AnsweredRevocationsHold, Handler, Step, VerifyAccept, tables, Idle, Answer, SessionsOf

\* So does refusing.
LEMMA VerifyRefuseInv ==
    ASSUME NEW r \in Request, IndInv, VerifyRefuse(r)
    PROVE  IndInv'
  BY DEF IndInv, TypeOK, HandlersAgreeWithRows, SecretsOpenRows,
     AnsweredRevocationsHold, Handler, Step, VerifyRefuse, tables, Idle, Answer, SessionsOf

\* A logout dooms the row its secret opens, and revokes it in the same step.
LEMMA LogoutInv ==
    ASSUME NEW s \in Request, IndInv, Logout(s)
    PROVE  IndInv'
<1>1. TypeOK'
  <2>1. session' \in [Request -> SessionRow]
    BY RevokeRevokes DEF IndInv, Logout
  <2> QED
    BY <2>1 DEF IndInv, TypeOK, Logout
<1>2. HandlersAgreeWithRows'
  <2>1. \A q \in Request : session'[q].user = session[q].user
    BY RevokeRevokes DEF IndInv, Logout
  <2>2. \A a : SessionsOf(a)' = SessionsOf(a)
    BY <2>1 DEF SessionsOf
  <2>3. \A q \in Request : req[q].ref \in Request \cup {Null}
    BY DEF IndInv, TypeOK, Handler
  <2> QED
    BY <2>1, <2>2, <2>3 DEF IndInv, HandlersAgreeWithRows, Logout
<1>3. SecretsOpenRows'
  BY DEF IndInv, TypeOK, SecretsOpenRows, SessionRow, Logout, Revoke
<1>4. AnsweredRevocationsHold'
  BY RevokeRevokes DEF IndInv, TypeOK, SecretsOpenRows, AnsweredRevocationsHold, Logout
<1> QED
  BY <1>1, <1>2, <1>3, <1>4 DEF IndInv

\* An expired session keeps its owner and its revocation.
LEMMA ExpireSessionInv ==
    ASSUME NEW s \in Request, IndInv, ExpireSession(s)
    PROVE  IndInv'
<1>1. TypeOK'
  <2>1. session' \in [Request -> SessionRow]
    BY DEF IndInv, TypeOK, SessionRow, ExpireSession
  <2> QED
    BY <2>1 DEF IndInv, TypeOK, ExpireSession
<1>2. HandlersAgreeWithRows'
  BY DEF IndInv, HandlersAgreeWithRows, ExpireSession, SessionsOf
<1>3. SecretsOpenRows'
  BY DEF IndInv, SecretsOpenRows, ExpireSession
<1>4. AnsweredRevocationsHold'
  BY DEF IndInv, AnsweredRevocationsHold, ExpireSession
<1> QED
  BY <1>1, <1>2, <1>3, <1>4 DEF IndInv

\* An expired token keeps its owner.
LEMMA ExpireTokenInv ==
    ASSUME NEW s \in Request, IndInv, ExpireToken(s)
    PROVE  IndInv'
<1>1. TypeOK'
  <2>1. token' \in [Request -> TokenRow]
    BY DEF IndInv, TypeOK, TokenRow, ExpireToken
  <2> QED
    BY <2>1 DEF IndInv, TypeOK, ExpireToken
<1>2. HandlersAgreeWithRows'
  BY DEF IndInv, HandlersAgreeWithRows, ExpireToken, SessionsOf
<1>3. SecretsOpenRows'
  BY DEF IndInv, SecretsOpenRows, ExpireToken
<1>4. AnsweredRevocationsHold'
  BY DEF IndInv, AnsweredRevocationsHold, ExpireToken
<1> QED
  BY <1>1, <1>2, <1>3, <1>4 DEF IndInv

\* A cooldown ends.
LEMMA CooldownExpiresInv ==
    ASSUME NEW a \in Account, IndInv, CooldownExpires(a)
    PROVE  IndInv'
  BY DEF IndInv, TypeOK, HandlersAgreeWithRows, SecretsOpenRows,
     AnsweredRevocationsHold, CooldownExpires, tables, SessionsOf

\* An operator locks or unlocks an account.
LEMMA SetStatusInv ==
    ASSUME NEW a \in Account, IndInv, SetStatus(a)
    PROVE  IndInv'
  BY DEF IndInv, TypeOK, HandlersAgreeWithRows, SecretsOpenRows,
     AnsweredRevocationsHold, SetStatus, SessionsOf

\* A failure ends handlers; their rows stay, unknown to anybody.
LEMMA FailInv ==
    ASSUME NEW R \in (SUBSET InFlight) \ {{}}, IndInv, Fail(R)
    PROVE  IndInv'
<1>1. TypeOK'
  BY MaxFailuresAssumption DEF IndInv, TypeOK, Handler, Step, Idle, tables, Fail
<1>2. HandlersAgreeWithRows'
  BY DEF IndInv, HandlersAgreeWithRows, Idle, SessionsOf, tables, Fail
<1>3. SecretsOpenRows'
  BY DEF IndInv, SecretsOpenRows, Idle, tables, Fail
<1>4. AnsweredRevocationsHold'
  BY DEF IndInv, AnsweredRevocationsHold, tables, Fail
<1> QED
  BY <1>1, <1>2, <1>3, <1>4 DEF IndInv

-----------------------------------------------------------------------------
(* The theorems.                                                            *)

\* The invariant is inductive.
LEMMA NextInv == IndInv /\ [Next]_vars => IndInv'
<1> SUFFICES ASSUME IndInv, [Next]_vars PROVE IndInv'
  OBVIOUS
<1>1. ASSUME NEW r \in Request, Handle(r) PROVE IndInv'
  BY <1>1, InsertSessionInv, ReplyWithCookieInv, AcquireCooldownInv, InsertTokenInv,
     PublishTokenInv, ConsumeTokenInv, UpdateHashInv, RevokeAllInv, VerifyAcceptInv,
     VerifyRefuseInv DEF Handle
<1>2. ASSUME NEW r \in Request, Receive(r) PROVE IndInv'
  BY <1>2, RegisterInsertUserInv, LoginFindUserInv, GoogleResolveUserInv,
     ResetFindUserInv, ConfirmFindTokenInv, VerifyFindSessionInv DEF Receive
<1>3. ASSUME Environment PROVE IndInv'
  BY <1>3, LogoutInv, ExpireSessionInv, ExpireTokenInv, CooldownExpiresInv,
     SetStatusInv, FailInv DEF Environment
<1>4. ASSUME UNCHANGED vars PROVE IndInv'
  BY <1>4 DEF vars, tables, IndInv, TypeOK, HandlersAgreeWithRows, SecretsOpenRows,
     AnsweredRevocationsHold, SessionsOf
<1> QED
  BY <1>1, <1>2, <1>3, <1>4 DEF Next

\* IndInv holds in every reachable state.
THEOREM Invariance == Spec => []IndInv
  BY InitInv, NextInv, PTL DEF Spec

\* Every variable keeps its type, and the handlers stay in step with the rows
\* they work on (TypeOK).
THEOREM TypeCorrect == Spec => []TypeOK
<1>1. IndInv => TypeOK
  BY DEF IndInv
<1> QED
  BY <1>1, Invariance, PTL

\* What a handler read from a row still holds when it acts on it, in the sense
\* of HandlersAgreeWithRows, although no route opens a transaction.
THEOREM HandlersAgree == Spec => []HandlersAgreeWithRows
<1>1. IndInv => HandlersAgreeWithRows
  BY DEF IndInv
<1> QED
  BY <1>1, Invariance, PTL

\* A logout or a password reset that has been answered has revoked the sessions
\* it was for, for good, under any interleaving and any failures.
THEOREM RevocationsHold == Spec => []AnsweredRevocationsHold
<1>1. IndInv => AnsweredRevocationsHold
  BY DEF IndInv
<1> QED
  BY <1>1, Invariance, PTL

\* A verification that starts after the revocation was answered refuses the
\* session.
THEOREM RevokedSessionsStayOut == Spec => RevokedStaysOut
<1>1. IndInv /\ [Next]_vars =>
        [\A r \in Request : VerifyAccept(r) => req[r].prior = {}]_vars
  BY DEF IndInv, HandlersAgreeWithRows, VerifyAccept
<1> QED
  BY <1>1, Invariance, PTL DEF Spec, RevokedStaysOut

\* Only a token of the account that its owner received, spent by then, changes
\* an existing account's password.
THEOREM PasswordAuthorised == Spec => PasswordChangeAuthorised
<1> DEFINE Authorised == \A a \in users : hash'[a] # hash[a] =>
                            \E t \in mailbox : token[t].user = a /\ token[t].consumed
<1>1. ASSUME IndInv, [Next]_vars PROVE [Authorised]_vars
  <2>1. ASSUME NEW r \in Request, UpdateHash(r) PROVE Authorised
    BY <1>1, <2>1 DEF IndInv, HandlersAgreeWithRows, UpdateHash
  <2>2. ASSUME NEW r \in Request, NEW a \in Account, NEW p \in Password,
               RegisterInsertUser(r, a, p)
        PROVE  Authorised
    BY <2>2 DEF RegisterInsertUser
  <2>3. ASSUME NEW r \in Request, Handle(r), ~UpdateHash(r) PROVE hash' = hash
    BY <2>3 DEF Handle, InsertSession, ReplyWithCookie, AcquireCooldown, InsertToken,
       PublishToken, ConsumeToken, RevokeAll, VerifyAccept, VerifyRefuse, tables
  <2>4. ASSUME NEW r \in Request, Receive(r),
               ~\E a \in Account, p \in Password : RegisterInsertUser(r, a, p)
        PROVE  hash' = hash
    BY <2>4 DEF Receive, LoginFindUser, GoogleResolveUser, ResetFindUser,
       ConfirmFindToken, VerifyFindSession, tables
  <2>5. ASSUME Environment PROVE hash' = hash
    BY <2>5 DEF Environment, Logout, ExpireSession, ExpireToken, CooldownExpires,
       SetStatus, Fail, tables
  <2> QED
    BY <1>1, <2>1, <2>2, <2>3, <2>4, <2>5 DEF Next
<1> QED
  BY <1>1, Invariance, PTL DEF Spec, PasswordChangeAuthorised

-----------------------------------------------------------------------------
(* What ResetReachesEverySession rests on: unless something fails, a reset   *)
(* lets go of no session until it has revoked it.                            *)

Reaching(r, s) ==
    /\ req[r].at \in {"updateHash", "revokeAll"}
    /\ session[s].user = req[r].account

\* A row of sessions keeps its owner.
LEMMA OwnersStay ==
    ASSUME IndInv, Next, NEW s \in Request, session[s].user # Null
    PROVE  session'[s].user = session[s].user
<1> USE DEF IndInv
<1>1. ASSUME NEW r \in Request, InsertSession(r) PROVE session'[s] = session[s]
  BY <1>1 DEF InsertSession, HandlersAgreeWithRows, TypeOK
<1>2. ASSUME NEW S, Revoke(S) PROVE session'[s].user = session[s].user
  BY <1>2, RevokeRevokes
<1>3. ASSUME NEW q \in Request, ExpireSession(q)
      PROVE  session'[s].user = session[s].user
  <2>1. session'[s] \in {session[s], [session[s] EXCEPT !.expired = TRUE]}
    BY <1>3 DEF ExpireSession, TypeOK
  <2> QED
    BY <2>1 DEF TypeOK, SessionRow
<1>4. ASSUME NEW r \in Request, Handle(r) PROVE session'[s].user = session[s].user
  <2>1. CASE InsertSession(r)
    BY <1>1, <2>1
  <2>2. CASE RevokeAll(r)
    BY <1>2, <2>2 DEF RevokeAll
  <2>3. CASE ~InsertSession(r) /\ ~RevokeAll(r)
    BY <1>4, <2>3 DEF Handle, ReplyWithCookie, AcquireCooldown, InsertToken, PublishToken,
       ConsumeToken, UpdateHash, VerifyAccept, VerifyRefuse, tables
  <2> QED
    BY <2>1, <2>2, <2>3
<1>5. ASSUME NEW r \in Request, Receive(r) PROVE session' = session
  BY <1>5 DEF Receive, RegisterInsertUser, LoginFindUser, GoogleResolveUser, ResetFindUser,
     ConfirmFindToken, VerifyFindSession, tables
<1>6. ASSUME Environment PROVE session'[s].user = session[s].user
  BY <1>2, <1>3, <1>6 DEF Environment, Logout, ExpireToken, CooldownExpires, SetStatus, Fail, tables
<1> QED
  BY <1>4, <1>5, <1>6 DEF Next

\* While a reset is between its change of the password and its answer, no other
\* handler, client, operator or clock takes a session of the account out of its
\* reach; its own steps only bring it nearer, until the session is revoked. Only a
\* failure leaves one behind (passwordResetConfirm.ts:37-44).
THEOREM ResetsLetNothingGo ==
    Spec => [][\A r, s \in Request : Reaching(r, s) =>
                  session'[s].revoked \/ Reaching(r, s)' \/ failures' = failures + 1]_vars
<1>1. IndInv /\ [Next]_vars =>
        [\A r, s \in Request : Reaching(r, s) =>
            session'[s].revoked \/ Reaching(r, s)' \/ failures' = failures + 1]_vars
  <2> SUFFICES ASSUME IndInv, Next, NEW r \in Request, NEW s \in Request, Reaching(r, s)
               PROVE  session'[s].revoked \/ Reaching(r, s)' \/ failures' = failures + 1
    OBVIOUS
  <2> USE DEF IndInv
  <2>1. session'[s].user = session[s].user
    BY OwnersStay, NullAssumption DEF Reaching, HandlersAgreeWithRows, TypeOK
  <2>2. ASSUME req'[r] = req[r] PROVE Reaching(r, s)'
    BY <2>1, <2>2 DEF Reaching
  <2>3. CASE UpdateHash(r)
    <3>1. req'[r].at = "revokeAll" /\ req'[r].account = req[r].account
      BY <2>3 DEF UpdateHash, TypeOK, Handler
    <3> QED
      BY <2>1, <3>1 DEF Reaching
  <2>4. CASE RevokeAll(r)
    <3>1. s \in SessionsOf(req[r].account) /\ Revoke(SessionsOf(req[r].account))
      BY <2>4 DEF RevokeAll, Reaching, SessionsOf
    <3> QED
      BY <3>1, RevokeRevokes
  <2>5. ASSUME NEW q \in Request, Handle(q) PROVE q # r \/ UpdateHash(r) \/ RevokeAll(r)
    BY <2>5 DEF Reaching, Handle, InsertSession, ReplyWithCookie, AcquireCooldown, InsertToken,
       PublishToken, ConsumeToken, VerifyAccept, VerifyRefuse
  <2>6. ASSUME NEW q \in Request, Receive(q) PROVE q # r
    BY <2>6 DEF Reaching, Receive, RegisterInsertUser, LoginFindUser, GoogleResolveUser,
       ResetFindUser, ConfirmFindToken, VerifyFindSession, Unused
  <2>7. ASSUME NEW q \in Request \ {r}, Handle(q) PROVE req'[r] = req[r]
    BY <2>7 DEF Handle, InsertSession, ReplyWithCookie, AcquireCooldown, InsertToken, PublishToken,
       ConsumeToken, UpdateHash, RevokeAll, VerifyAccept, VerifyRefuse, Continue, Answer, TypeOK
  <2>8. ASSUME NEW q \in Request \ {r}, Receive(q) PROVE req'[r] = req[r]
    BY <2>8 DEF Receive, RegisterInsertUser, LoginFindUser, GoogleResolveUser,
       ResetFindUser, ConfirmFindToken, VerifyFindSession, Start, TypeOK
  <2>9. ASSUME Environment PROVE req' = req \/ failures' = failures + 1
    BY <2>9 DEF Environment, Logout, ExpireSession, ExpireToken, CooldownExpires, SetStatus, Fail
  <2> QED
    BY <2>2, <2>3, <2>4, <2>5, <2>6, <2>7, <2>8, <2>9 DEF Next
<1> QED
  BY <1>1, Invariance, PTL DEF Spec

-----------------------------------------------------------------------------
(* Sessions are what SessionRegister promises.                              *)

\* The register that the tables and the handlers stand for.
Owner == [s \in Request |-> session[s].user]
Valid == {s \in Request : ActiveSession(s)}
LookedUp == [r \in Request |-> IF req[r].at = "verifyUser" THEN req[r].ref ELSE Null]

\* A handler that moves between steps outside the verification looks nothing up.
LEMMA OthersLookNothingUp ==
    ASSUME TypeOK, NEW r \in Request, NEW h, req' = [req EXCEPT ![r] = h],
           req[r].at # "verifyUser", h.at # "verifyUser"
    PROVE  LookedUp' = LookedUp
<1>1. \A q \in Request : req'[q] = IF q = r THEN h ELSE req[q]
  BY DEF TypeOK
<1> QED
  BY <1>1 DEF LookedUp

\* The same for the three ways in which the actions move a handler.
LEMMA MovesLookNothingUp ==
    ASSUME TypeOK, NEW r \in Request, req[r].at # "verifyUser",
           \/ \E step, a, p, t : step \in Step \ {"verifyUser"} /\ Start(r, step, a, p, t)
           \/ \E step \in Step \ {"verifyUser"} : Continue(r, step)
           \/ Answer(r)
    PROVE  LookedUp' = LookedUp
<1>1. req[r] \in Handler
  BY DEF TypeOK
<1>2. ASSUME NEW step \in Step \ {"verifyUser"}, NEW a, NEW p, NEW t,
             Start(r, step, a, p, t)
      PROVE  LookedUp' = LookedUp
  <2> DEFINE h == [Idle EXCEPT !.at = step, !.account = a, !.password = p, !.ref = t]
  <2>1. req' = [req EXCEPT ![r] = h] /\ h.at = step
    BY <1>2 DEF Start, Idle
  <2> QED
    BY <1>2, <2>1, OthersLookNothingUp
<1>3. ASSUME NEW step \in Step \ {"verifyUser"}, Continue(r, step)
      PROVE  LookedUp' = LookedUp
  <2> DEFINE h == [req[r] EXCEPT !.at = step]
  <2>1. req' = [req EXCEPT ![r] = h] /\ h.at = step
    BY <1>1, <1>3 DEF Continue, Handler
  <2> QED
    BY <1>3, <2>1, OthersLookNothingUp
<1>4. ASSUME Answer(r) PROVE LookedUp' = LookedUp
  <2>1. req' = [req EXCEPT ![r] = Idle] /\ Idle.at # "verifyUser"
    BY <1>4 DEF Answer, Idle
  <2> QED
    BY <2>1, OthersLookNothingUp
<1> QED
  BY <1>2, <1>3, <1>4

\* At first there are no sessions and no verifications.
LEMMA InitMaps == Init => Register!Init
  BY DEF Init, Register!Init, NoSession, Idle, ActiveSession

\* What touches neither sessions nor verifications is at most a change of the
\* accounts that are enabled.
LEMMA StatusMaps ==
    ASSUME TypeOK', UNCHANGED <<session, doomed>>, LookedUp' = LookedUp
    PROVE  Register!SetStatus
<1>1. active' \in SUBSET Account
  BY DEF TypeOK
<1>2. Owner' = Owner /\ Valid' = Valid
  BY DEF Owner, Valid, ActiveSession
<1> QED
  BY <1>1, <1>2 DEF Register!SetStatus, Owner, Valid, LookedUp

\* The INSERT into sessions opens one.
LEMMA InsertSessionMaps ==
    ASSUME IndInv, NEW r \in Request, InsertSession(r)
    PROVE  \E a \in Account : Register!Open(r, a)
<1>0. PICK a \in Account : a = req[r].account
  BY DEF IndInv, TypeOK, HandlersAgreeWithRows, InsertSession
<1> DEFINE row == [NoSession EXCEPT !.user = a]
<1>1. /\ a # Null
      /\ session[r].user = Null
      /\ req[r].at # "verifyUser"
  BY NullAssumption DEF IndInv, TypeOK, HandlersAgreeWithRows, InsertSession
<1>2. \A s \in Request : session'[s] = IF s = r THEN row ELSE session[s]
  BY <1>0 DEF IndInv, TypeOK, InsertSession
<1>3. row.user = a /\ ~row.revoked /\ ~row.expired
  BY DEF NoSession
<1>4. Owner' = [Owner EXCEPT ![r] = a] /\ Valid' = Valid \cup {r}
  BY <1>1, <1>2, <1>3 DEF Owner, Valid, ActiveSession
<1>5. LookedUp' = LookedUp
  BY <1>1, MovesLookNothingUp DEF IndInv, InsertSession, Step
<1>6. Register!Open(r, a)
  BY <1>1, <1>4, <1>5 DEF Register!Open, Owner, Valid, LookedUp, InsertSession
<1> QED
  BY <1>6

\* The UPDATE that revokes ends exactly the sessions it names.
LEMMA RevokeEnds ==
    ASSUME TypeOK, NEW S, Revoke(S)
    PROVE  Owner' = Owner /\ Valid' = Valid \ S
<1>1. ASSUME NEW s \in Request
      PROVE  /\ session'[s].user = session[s].user
             /\ session'[s].revoked = (session[s].revoked \/ s \in S)
             /\ session'[s].expired = session[s].expired
  <2>1. session'[s] = [session[s] EXCEPT !.revoked = @ \/ s \in S]
    BY DEF Revoke
  <2>2. session[s] \in SessionRow
    BY DEF TypeOK
  <2> QED
    BY <2>1, <2>2 DEF SessionRow
<1>2. Owner' = Owner
  BY <1>1 DEF Owner
<1>3. Valid' = Valid \ S
  BY <1>1 DEF Valid, ActiveSession
<1> QED
  BY <1>2, <1>3

\* A reset ends all the sessions of its account at once.
LEMMA RevokeAllMaps ==
    ASSUME IndInv, NEW r \in Request, RevokeAll(r)
    PROVE  \E a \in Account : Register!End(Register!OwnedBy(a))
<1> DEFINE a == req[r].account
<1>1. /\ a \in Account
      /\ req[r].prior \subseteq SessionsOf(a)
      /\ req[r].at # "verifyUser"
  BY DEF IndInv, TypeOK, HandlersAgreeWithRows, RevokeAll
<1>2. Register!OwnedBy(a) = SessionsOf(a)
  BY DEF Register!OwnedBy, SessionsOf
<1>3. Owner' = Owner /\ Valid' = Valid \ SessionsOf(a)
  BY RevokeEnds DEF IndInv, RevokeAll
<1>4. LookedUp' = LookedUp
  BY <1>1, MovesLookNothingUp DEF IndInv, RevokeAll
<1>5. Register!End(SessionsOf(a))
  BY <1>1, <1>3, <1>4 DEF Register!End, Owner, Valid, LookedUp, RevokeAll
<1> QED
  BY <1>1, <1>2, <1>5

\* A logout ends one session.
LEMMA LogoutMaps ==
    ASSUME IndInv, NEW s \in Request, Logout(s)
    PROVE  Owner[s] # Null /\ Register!End({s})
<1>1. Owner[s] # Null
  BY DEF IndInv, SecretsOpenRows, Logout, Owner
<1>2. Owner' = Owner /\ Valid' = Valid \ {s} /\ LookedUp' = LookedUp
  BY RevokeEnds DEF IndInv, Logout, LookedUp
<1> QED
  BY <1>1, <1>2 DEF Register!End, Owner, Valid, LookedUp, Logout

\* So does an expiry, of which nobody is told.
LEMMA ExpireSessionMaps ==
    ASSUME IndInv, NEW s \in Request, ExpireSession(s)
    PROVE  Owner[s] # Null /\ Register!End({s})
<1>1. Owner[s] # Null
  BY DEF ExpireSession, ActiveSession, Owner
<1>2. \A q \in Request : /\ session'[q].user = session[q].user
                         /\ session'[q].revoked = session[q].revoked
                         /\ session'[q].expired = IF q = s THEN TRUE ELSE session[q].expired
  BY DEF IndInv, TypeOK, SessionRow, ExpireSession
<1>3. Owner' = Owner
  BY <1>2 DEF Owner
<1>4. Valid' = Valid \ {s}
  BY <1>2 DEF Valid, ActiveSession
<1>5. LookedUp' = LookedUp /\ active' = active /\ doomed' = doomed \cup {}
  BY DEF ExpireSession, LookedUp
<1>6. {} \in SUBSET {s}
  OBVIOUS
<1> QED
  BY <1>1, <1>3, <1>4, <1>5, <1>6 DEF Register!End, Owner, Valid, LookedUp

\* The first SELECT of a verification looks a session up.
LEMMA VerifyFindSessionMaps ==
    ASSUME IndInv, NEW r \in Request, NEW s \in Request, VerifyFindSession(r, s)
    PROVE  Register!LookUp(r, s)
<1>1. LookedUp[r] = Null /\ s \in Valid
  BY DEF VerifyFindSession, LookedUp, Valid
<1>2. \A q \in Request : req'[q] =
         IF q = r THEN [at |-> "verifyUser", account |-> session[s].user,
                        password |-> Null, ref |-> s, prior |-> doomed \cap {s}]
         ELSE req[q]
  BY DEF IndInv, TypeOK, VerifyFindSession
<1>3. LookedUp' = [LookedUp EXCEPT ![r] = s]
  <2>1. \A q \in Request : LookedUp'[q] = IF q = r THEN s ELSE LookedUp[q]
    BY <1>2 DEF LookedUp
  <2> QED
    BY <2>1 DEF LookedUp
<1>4. Owner' = Owner /\ Valid' = Valid /\ UNCHANGED <<active, doomed>>
  BY DEF VerifyFindSession, tables, Owner, Valid, ActiveSession
<1> QED
  BY <1>1, <1>3, <1>4 DEF Register!LookUp, Owner, Valid, LookedUp

\* The second answers by the account's status at that moment.
LEMMA VerifyAnswerMaps ==
    ASSUME IndInv, NEW r \in Request
    PROVE  /\ VerifyAccept(r) => Register!Accept(r)
           /\ VerifyRefuse(r) => Register!Refuse(r)
<1> SUFFICES ASSUME VerifyAccept(r) \/ VerifyRefuse(r)
             PROVE  /\ VerifyAccept(r) => Register!Accept(r)
                    /\ VerifyRefuse(r) => Register!Refuse(r)
  OBVIOUS
<1>1. /\ req[r].at = "verifyUser" /\ Answer(r)
      /\ UNCHANGED <<tables, doomed>>
  BY DEF VerifyAccept, VerifyRefuse
<1>2. /\ LookedUp[r] = req[r].ref
      /\ req[r].ref \in Request /\ req[r].ref # Null
      /\ Owner[req[r].ref] = req[r].account
  BY <1>1 DEF IndInv, TypeOK, Handler, HandlersAgreeWithRows, LookedUp, Owner
<1>3. LookedUp' = [LookedUp EXCEPT ![r] = Null]
  BY <1>1 DEF LookedUp, Answer, Idle, IndInv, TypeOK
<1>4. Owner' = Owner /\ Valid' = Valid /\ UNCHANGED <<active, doomed>>
  BY <1>1 DEF tables, Owner, Valid, ActiveSession
<1>5. Register!Answer(r)
  BY <1>2, <1>3, <1>4 DEF Register!Answer, Owner, Valid, LookedUp
<1>6. VerifyAccept(r) => Owner[LookedUp[r]] \in active
  BY <1>2 DEF VerifyAccept
<1>7. VerifyRefuse(r) => Owner[LookedUp[r]] \notin active
  BY <1>2 DEF VerifyRefuse
<1> QED
  BY <1>5, <1>6, <1>7 DEF Register!Accept, Register!Refuse, Owner, LookedUp

\* A failure abandons the verifications it ends.
LEMMA FailMaps ==
    ASSUME IndInv, NEW R \in (SUBSET InFlight) \ {{}}, Fail(R)
    PROVE  \E V \in SUBSET Request : Register!Abandon(V)
<1>1. R \in SUBSET Request
  BY DEF InFlight
<1>2. LookedUp' = [v \in Request |-> IF v \in R THEN Null ELSE LookedUp[v]]
  BY DEF Fail, LookedUp, Idle
<1>3. Owner' = Owner /\ Valid' = Valid /\ UNCHANGED <<active, doomed>>
  BY DEF Fail, tables, Owner, Valid, ActiveSession
<1>4. Register!Abandon(R)
  BY <1>2, <1>3 DEF Register!Abandon, Owner, Valid, LookedUp
<1> QED
  BY <1>1, <1>4

\* Every step is a step of the register or a stutter.
LEMMA NextMaps ==
    ASSUME IndInv, IndInv', [Next]_vars
    PROVE  [Register!Next]_(Register!vars)
<1>1. ASSUME UNCHANGED <<session, doomed>>, LookedUp' = LookedUp
      PROVE  Register!Next
  BY <1>1, StatusMaps DEF IndInv, Register!Next
<1>2. ASSUME NEW r \in Request, Handle(r)
      PROVE  Register!Next
  <2>1. CASE \/ ReplyWithCookie(r) \/ AcquireCooldown(r) \/ InsertToken(r)
             \/ PublishToken(r) \/ ConsumeToken(r)
    <3>1. req[r].at # "verifyUser" /\ UNCHANGED <<session, doomed>>
      BY <2>1 DEF ReplyWithCookie, AcquireCooldown, InsertToken, PublishToken,
         ConsumeToken, tables
    <3>2. Answer(r) \/ \E step \in Step \ {"verifyUser"} : Continue(r, step)
      BY <2>1 DEF ReplyWithCookie, AcquireCooldown, InsertToken, PublishToken,
         ConsumeToken, Step
    <3> QED
      BY <1>1, <3>1, <3>2, MovesLookNothingUp DEF IndInv
  <2>2. CASE UpdateHash(r)
    <3> DEFINE h == [req[r] EXCEPT !.at = "revokeAll", !.prior = SessionsOf(req[r].account)]
    <3>1. /\ req' = [req EXCEPT ![r] = h]
          /\ req[r] \in Handler
          /\ req[r].at # "verifyUser" /\ UNCHANGED <<session, doomed>>
      BY <2>2 DEF UpdateHash, IndInv, TypeOK
    <3>2. h.at = "revokeAll"
      BY <3>1 DEF Handler
    <3> QED
      BY <1>1, <3>1, <3>2, OthersLookNothingUp DEF IndInv
  <2>3. CASE InsertSession(r)
    BY <2>3, InsertSessionMaps DEF Register!Next
  <2>4. CASE RevokeAll(r)
    BY <2>4, RevokeAllMaps DEF Register!Next
  <2>5. CASE VerifyAccept(r) \/ VerifyRefuse(r)
    BY <2>5, VerifyAnswerMaps DEF Register!Next
  <2> QED
    BY <1>2, <2>1, <2>2, <2>3, <2>4, <2>5 DEF Handle
<1>3. ASSUME NEW r \in Request, Receive(r)
      PROVE  Register!Next
  <2>1. CASE \E s \in Request : VerifyFindSession(r, s)
    BY <2>1, VerifyFindSessionMaps DEF Register!Next
  <2>2. CASE ~\E s \in Request : VerifyFindSession(r, s)
    <3>1. req[r].at # "verifyUser" /\ UNCHANGED <<session, doomed>>
      BY <1>3, <2>2 DEF Receive, RegisterInsertUser, LoginFindUser, GoogleResolveUser,
         ResetFindUser, ConfirmFindToken, Unused, tables
    <3>2. \E step, a, p, t : step \in Step \ {"verifyUser"} /\ Start(r, step, a, p, t)
      BY <1>3, <2>2 DEF Receive, RegisterInsertUser, LoginFindUser, GoogleResolveUser,
         ResetFindUser, ConfirmFindToken, Step
    <3> QED
      BY <1>1, <3>1, <3>2, MovesLookNothingUp DEF IndInv
  <2> QED
    BY <2>1, <2>2
<1>4. ASSUME Environment PROVE Register!Next
  <2>1. ASSUME NEW s \in Request, Logout(s) \/ ExpireSession(s) PROVE Register!Next
    BY <2>1, LogoutMaps, ExpireSessionMaps DEF Register!Next, Owner
  <2>2. ASSUME NEW s \in Request, ExpireToken(s) PROVE Register!Next
    BY <1>1, <2>2 DEF ExpireToken, LookedUp
  <2>3. ASSUME NEW a \in Account, CooldownExpires(a) \/ SetStatus(a) PROVE Register!Next
    BY <1>1, <2>3 DEF CooldownExpires, SetStatus, tables, LookedUp
  <2>4. ASSUME NEW R \in (SUBSET InFlight) \ {{}}, Fail(R) PROVE Register!Next
    BY <2>4, FailMaps DEF Register!Next
  <2> QED
    BY <1>4, <2>1, <2>2, <2>3, <2>4 DEF Environment
<1>5. ASSUME UNCHANGED vars PROVE Register!Next
  BY <1>1, <1>5 DEF vars, tables, LookedUp
<1> QED
  BY <1>2, <1>3, <1>4, <1>5 DEF Next

\* Sessions are opened, ended, looked up and accepted as in the register, for
\* any number of handlers, however their statements interleave and whatever
\* fails (SessionsAreARegister).
THEOREM Refinement == Spec => SessionsAreARegister
<1> DEFINE AcceptsAsRegister == \A r \in Request : VerifyAccept(r) => Register!Accept(r)
<1>1. Init => Register!Init
  BY InitMaps
<1>2. IndInv /\ IndInv' /\ [Next]_vars => [Register!Next]_(Register!vars)
  BY NextMaps
<1>3. IndInv => [AcceptsAsRegister]_vars
  BY VerifyAnswerMaps
<1>4. Spec => []IndInv
  BY Invariance
<1> QED
  BY <1>1, <1>2, <1>3, <1>4, PTL DEF Spec, SessionsAreARegister, Register!Spec

=============================================================================
