--------------------------- MODULE AccountsProofs ---------------------------
(***************************************************************************)
(* Proofs about Accounts, for any sets of addresses, Google subjects and   *)
(* handlers and any number of failures.  The invariant records what each   *)
(* handler has established by the step it is at: that its account exists,  *)
(* that Google or a token vouches for the address, and that it alone will  *)
(* announce the account it has created.                                    *)
(***************************************************************************)
EXTENDS Accounts, FiniteSetTheorems, TLAPS

\* Which steps belong to which handler, and when the account exists.
Flows ==
    \A r \in Request :
        /\ req[r].at # "idle" => req[r].email \in Email
        /\ req[r].at \notin {"idle", "findByEmail", "insertUser"} => req[r].email \in users
        /\ req[r].at \in {"insertToken", "publishToken"} => req[r].flow \in {"register", "resend"}
        /\ req[r].at = "acquireCooldown" => req[r].flow = "resend"
        /\ req[r].at = "consumeToken" => req[r].flow = "verify"
        /\ req[r].at = "publishCreated" => req[r].flow = "register"
        /\ req[r].at = "insertSession" => req[r].flow \in {"register", "google"}
        /\ req[r].at = "markVerified" => req[r].flow \in {"verify", "google"}
        /\ req[r].at \in {"findByEmail", "insertUser", "link", "linkMark", "publishEvent"} =>
              req[r].flow = "google"
        /\ req[r].flow = "google" => req[r].subject \in Subject
        /\ req[r].isNew => req[r].at \in {"link", "insertSession", "publishEvent"}

\* Links and tokens lead to accounts.
Links ==
    /\ \A s \in Subject : identity[s] # Null => identity[s] \in users
    /\ \A r \in Request : token[r].user # Null => token[r].user \in users

\* What a handler that will mark an address, or that links without marking it, has in hand.
Proof ==
    \A r \in Request :
        /\ req[r].flow = "google" /\ req[r].at # "idle" /\ req[r].at \in
              {"findByEmail", "insertUser", "link", "linkMark", "markVerified"} =>
              req[r].email \in vouched
        /\ req[r].at = "link" => req[r].email \in verified
        /\ req[r].at \in {"acquireCooldown", "insertToken"} => token[r].user = Null
        /\ req[r].at \in {"consumeToken", "markVerified"} /\ req[r].flow = "verify" =>
              req[r].ref \in mailbox /\ token[req[r].ref].user = req[r].email
        /\ req[r].at = "markVerified" /\ req[r].flow = "verify" => token[req[r].ref].consumed

\* The handler that will announce its account as new.
Announcing(r) ==
    \/ req[r].flow = "register" /\ req[r].at \in {"insertToken", "publishToken", "publishCreated"}
    \/ req[r].isNew

\* One handler announces an account, and nobody has done so before.
Announcements ==
    /\ \A event \in published : event.account \in users
    /\ \A r \in Request, event \in published :
          Announcing(r) /\ event.type = "AccountCreated" => event.account # req[r].email
    /\ \A r, q \in Request :
          Announcing(r) /\ Announcing(q) /\ req[r].email = req[q].email => r = q
    /\ \A event, other \in published :
          /\ event.type = "AccountCreated"
          /\ other.type = "AccountCreated"
          /\ event.account = other.account
          => event = other

\* A handler on the way to its event has published none, and has its session.
Events ==
    /\ \A r \in Request, event \in published :
          \/ req[r].at \notin {"idle", "insertSession", "consumeToken", "markVerified"}
          \/ req[r].flow = "google"
          => event.by # r
    /\ \A r \in Request, event \in published :
          req[r].at = "insertSession" /\ event.by = r => event.method = "password"
    /\ \A r \in Request : req[r].at = "publishEvent" => session[r] = req[r].email

IndInv ==
    /\ TypeOK
    /\ Flows
    /\ Links
    /\ Proof
    /\ Announcements
    /\ Events
    /\ VerifiedOnProof
    /\ LinkedIsVerified
    /\ OneEventPerSignIn

-----------------------------------------------------------------------------
(* What the parts of a step do to the handlers. *)

\* A handler goes to its next step, and no other moves.
LEMMA ContinueEffect ==
    ASSUME TypeOK, NEW r \in Request, NEW step \in Step, Continue(r, step)
    PROVE  /\ req' \in [Request -> Handler]
           /\ req'[r].at = step
           /\ req'[r].flow = req[r].flow
           /\ req'[r].email = req[r].email
           /\ req'[r].subject = req[r].subject
           /\ req'[r].isNew = req[r].isNew
           /\ req'[r].ref = req[r].ref
           /\ \A q \in Request \ {r} : req'[q] = req[q]
BY DEF TypeOK, Continue, Handler

\* Nothing is left of a handler that has answered.
LEMMA AnswerEffect ==
    ASSUME TypeOK, NEW r \in Request, Answer(r)
    PROVE  /\ req' \in [Request -> Handler]
           /\ req'[r].at = "idle"
           /\ req'[r].flow = "none"
           /\ req'[r].isNew = FALSE
           /\ \A q \in Request \ {r} : req'[q] = req[q]
BY DEF TypeOK, Answer, Handler, Idle, Step, Flow

\* A handler starts with the address in the request.
LEMMA StartEffect ==
    ASSUME TypeOK, NEW r \in Request, NEW flow \in Flow, NEW step \in Step, NEW e \in Email,
           Start(r, flow, step, e)
    PROVE  /\ req' \in [Request -> Handler]
           /\ req'[r].at = step
           /\ req'[r].flow = flow
           /\ req'[r].email = e
           /\ req'[r].isNew = FALSE
           /\ \A q \in Request \ {r} : req'[q] = req[q]
BY DEF TypeOK, Start, Handler, Idle, Step, Flow

-----------------------------------------------------------------------------
\* The invariant holds before the first request.
LEMMA InitInv == Init => IndInv
<1> SUFFICES ASSUME Init PROVE IndInv
  OBVIOUS
<1> USE DEF Init
<1>1. TypeOK
  <2>1. NoToken \in TokenRow /\ Idle \in Handler
    BY DEF NoToken, TokenRow, Idle, Handler, Step, Flow
  <2>2. 0 \in 0..MaxFailures
    BY MaxFailuresAssumption
  <2> QED
    BY <2>1, <2>2 DEF TypeOK
<1>2. \A r \in Request : req[r].at = "idle" /\ req[r].flow = "none" /\ ~req[r].isNew
  BY DEF Idle
<1>3. Flows /\ Links /\ Proof /\ Announcements /\ Events
  BY <1>2 DEF Flows, Links, NoToken, Proof, Announcements, Announcing, Events
<1>4. VerifiedOnProof /\ LinkedIsVerified /\ OneEventPerSignIn
  BY DEF VerifiedOnProof, LinkedIsVerified, OneEventPerSignIn
<1> QED
  BY <1>1, <1>3, <1>4 DEF IndInv

\* RegisterInsertUser: the address had no account, so nobody announces another.
LEMMA RegisterInv ==
    ASSUME IndInv, NEW r \in Request, NEW e \in Email, RegisterInsertUser(r, e)
    PROVE  IndInv'
<1> USE DEF IndInv
<1>1. Unused(r) /\ e \notin users /\ users' = users \cup {e}
  BY DEF RegisterInsertUser
<1>2. UNCHANGED <<verified, identity, token, session, cooldown, mailbox, published,
                failures, vouched>>
  BY DEF RegisterInsertUser
<1>3. /\ req' \in [Request -> Handler]
      /\ req'[r].at = "insertToken" /\ req'[r].flow = "register" /\ req'[r].email = e
      /\ req'[r].isNew = FALSE
      /\ \A q \in Request \ {r} : req'[q] = req[q]
  <2>1. "register" \in Flow /\ "insertToken" \in Step
    BY DEF Flow, Step
  <2> QED
    BY <2>1, StartEffect DEF RegisterInsertUser
<1>4. TypeOK'
  BY <1>1, <1>2, <1>3 DEF TypeOK
<1>5. Flows' /\ Links'
  BY <1>1, <1>2, <1>3 DEF Flows, Links
<1>6. Proof'
  BY <1>1, <1>2, <1>3 DEF Proof, Unused
<1>7. Announcements'
  BY <1>1, <1>2, <1>3 DEF Announcements, Announcing, Flows, Unused
<1>8. Events'
  BY <1>1, <1>2, <1>3 DEF Events, Unused
<1>9. VerifiedOnProof' /\ OneEventPerSignIn'
  BY <1>2 DEF VerifiedOnProof, OneEventPerSignIn
<1>10. LinkedIsVerified'
  BY <1>1, <1>2, <1>3 DEF LinkedIsVerified, Unused
<1> QED
  BY <1>4, <1>5, <1>6, <1>7, <1>8, <1>9, <1>10

\* A handler that gives up leaves nothing behind, unless it was to mark an address.
LEMMA GiveUpInv ==
    ASSUME IndInv, NEW r \in Request, req[r].at # "markVerified", Answer(r),
           UNCHANGED <<rows, cooldown, mailbox, published, failures, vouched>>
    PROVE  IndInv'
<1> USE DEF IndInv, rows
<1>1. /\ req' \in [Request -> Handler] /\ req'[r].at = "idle" /\ req'[r].flow = "none"
      /\ req'[r].isNew = FALSE
      /\ \A q \in Request \ {r} : req'[q] = req[q]
  BY AnswerEffect
<1>2. TypeOK'
  BY <1>1 DEF TypeOK
<1>3. Flows' /\ Links'
  BY <1>1 DEF Flows, Links
<1>4. Proof'
  BY <1>1 DEF Proof
<1>5. Announcements'
  BY <1>1 DEF Announcements, Announcing
<1>6. Events'
  BY <1>1 DEF Events
<1>7. VerifiedOnProof' /\ OneEventPerSignIn' /\ LinkedIsVerified'
  BY <1>1 DEF VerifiedOnProof, OneEventPerSignIn, LinkedIsVerified
<1> QED
  BY <1>2, <1>3, <1>4, <1>5, <1>6, <1>7

\* InsertToken: the slot had no token, so no handler is using it.
LEMMA InsertTokenInv ==
    ASSUME IndInv, NEW r \in Request, InsertToken(r)
    PROVE  IndInv'
<1> USE DEF IndInv
<1>1. /\ req[r].at = "insertToken"
      /\ token' = [token EXCEPT ![r] = [NoToken EXCEPT !.user = req[r].email]]
  BY DEF InsertToken
<1>2. UNCHANGED <<users, verified, identity, session, cooldown, mailbox, published,
                failures, vouched>>
  BY DEF InsertToken, rows
<1>3. /\ req' \in [Request -> Handler] /\ req'[r].at = "publishToken"
      /\ req'[r].flow = req[r].flow /\ req'[r].email = req[r].email
      /\ req'[r].subject = req[r].subject /\ req'[r].isNew = req[r].isNew
      /\ req'[r].ref = req[r].ref
      /\ \A q \in Request \ {r} : req'[q] = req[q]
  <2>1. "publishToken" \in Step
    BY DEF Step
  <2> QED
    BY <2>1, ContinueEffect DEF InsertToken
<1>4. /\ token' \in [Request -> TokenRow] /\ token'[r].user = req[r].email
      /\ \A q \in Request \ {r} : token'[q] = token[q]
  BY <1>1 DEF TypeOK, NoToken, TokenRow, Handler
<1>5. TypeOK'
  BY <1>1, <1>2, <1>3, <1>4 DEF TypeOK
<1>6. Flows' /\ Links'
  BY <1>1, <1>2, <1>3, <1>4 DEF Flows, Links
<1>7. Proof'
  BY <1>1, <1>2, <1>3, <1>4, NullAssumption DEF Proof, Flows, TypeOK
<1>8. Announcements'
  BY <1>1, <1>2, <1>3, <1>4 DEF Announcements, Announcing
<1>9. Events'
  BY <1>1, <1>2, <1>3, <1>4 DEF Events
<1>10. VerifiedOnProof' /\ OneEventPerSignIn'
  BY <1>1, <1>2, <1>3, <1>4, NullAssumption DEF VerifiedOnProof, OneEventPerSignIn, TypeOK, Proof
<1>11. LinkedIsVerified'
  BY <1>1, <1>2, <1>3, <1>4 DEF LinkedIsVerified
<1> QED
  BY <1>5, <1>6, <1>7, <1>8, <1>9, <1>10, <1>11

\* RegisterPublishCreated: nobody else announces the account.
LEMMA RegisterPublishCreatedInv ==
    ASSUME IndInv, NEW r \in Request, RegisterPublishCreated(r)
    PROVE  IndInv'
<1> USE DEF IndInv
<1>1. /\ req[r].at = "publishCreated"
      /\ published' = published \cup
            {[type |-> "AccountCreated", method |-> "password",
              account |-> req[r].email, by |-> r]}
  BY DEF RegisterPublishCreated, Publish
<1>2. UNCHANGED <<rows, cooldown, mailbox, failures, vouched>>
  BY DEF RegisterPublishCreated, rows
<1>3. /\ req' \in [Request -> Handler] /\ req'[r].at = "insertSession"
      /\ req'[r].flow = req[r].flow /\ req'[r].email = req[r].email
      /\ req'[r].subject = req[r].subject /\ req'[r].isNew = req[r].isNew
      /\ req'[r].ref = req[r].ref
      /\ \A q \in Request \ {r} : req'[q] = req[q]
  <2>1. "insertSession" \in Step
    BY DEF Step
  <2> QED
    BY <2>1, ContinueEffect DEF RegisterPublishCreated
<1>4. TypeOK'
  BY <1>1, <1>2, <1>3 DEF TypeOK, Event, Flows, rows
<1>5. Flows' /\ Links'
  BY <1>1, <1>2, <1>3 DEF Flows, Links, rows
<1>6. Proof'
  BY <1>1, <1>2, <1>3 DEF Proof, rows
<1>7. Announcements'
  BY <1>1, <1>2, <1>3 DEF Announcements, Announcing, Flows, rows
<1>8. Events'
  BY <1>1, <1>2, <1>3 DEF Events, Flows, rows
<1>9. VerifiedOnProof' /\ OneEventPerSignIn'
  BY <1>1, <1>2, <1>3 DEF VerifiedOnProof, OneEventPerSignIn, Events, rows
<1>10. LinkedIsVerified'
  BY <1>1, <1>2, <1>3 DEF LinkedIsVerified, rows
<1> QED
  BY <1>4, <1>5, <1>6, <1>7, <1>8, <1>9, <1>10

\* GoogleFindByEmail: an account that is not verified yet will be marked.
LEMMA FindByEmailInv ==
    ASSUME IndInv, NEW r \in Request, GoogleFindByEmail(r)
    PROVE  IndInv'
<1> USE DEF IndInv
<1>1. req[r].at = "findByEmail"
  BY DEF GoogleFindByEmail
<1>2. UNCHANGED <<users, verified, identity, token, session, cooldown, mailbox, published,
                failures, vouched>>
  BY DEF GoogleFindByEmail, rows
<1>3. PICK step \in {"insertUser", "link", "linkMark"} :
          /\ Continue(r, step)
          /\ step # "insertUser" => req[r].email \in users
          /\ step = "link" => req[r].email \in verified
  BY DEF GoogleFindByEmail
<1>4. /\ req' \in [Request -> Handler] /\ req'[r].at = step
      /\ req'[r].flow = req[r].flow /\ req'[r].email = req[r].email
      /\ req'[r].subject = req[r].subject /\ req'[r].isNew = req[r].isNew
      /\ req'[r].ref = req[r].ref
      /\ \A q \in Request \ {r} : req'[q] = req[q]
  <2>1. step \in Step
    BY DEF Step
  <2> QED
    BY <1>3, <2>1, ContinueEffect
<1>5. TypeOK'
  BY <1>1, <1>2, <1>3, <1>4 DEF TypeOK
<1>6. Flows' /\ Links'
  BY <1>1, <1>2, <1>3, <1>4 DEF Flows, Links
<1>7. Proof'
  BY <1>1, <1>2, <1>3, <1>4 DEF Proof, Flows
<1>8. Announcements'
  BY <1>1, <1>2, <1>3, <1>4 DEF Announcements, Announcing, Flows
<1>9. Events'
  BY <1>1, <1>2, <1>3, <1>4 DEF Events, Flows
<1>10. VerifiedOnProof' /\ OneEventPerSignIn'
  BY <1>1, <1>2, <1>3, <1>4 DEF VerifiedOnProof, OneEventPerSignIn
<1>11. LinkedIsVerified'
  BY <1>1, <1>2, <1>3, <1>4 DEF LinkedIsVerified
<1> QED
  BY <1>5, <1>6, <1>7, <1>8, <1>9, <1>10, <1>11

\* PublishToken: the mailbox may gain the token.
LEMMA PublishTokenInv ==
    ASSUME IndInv, NEW r \in Request, PublishToken(r)
    PROVE  IndInv'
<1> USE DEF IndInv
<1>1. /\ req[r].at = "publishToken" /\ mailbox \subseteq mailbox'
      /\ mailbox' \subseteq mailbox \cup {r}
  BY DEF PublishToken
<1>2. UNCHANGED <<users, verified, identity, token, session, cooldown, published,
                failures, vouched>>
  BY DEF PublishToken, rows
<1>3. CASE req[r].flow = "register"
  <2>1. /\ req' \in [Request -> Handler] /\ req'[r].at = "publishCreated"
        /\ req'[r].flow = req[r].flow /\ req'[r].email = req[r].email
        /\ req'[r].subject = req[r].subject /\ req'[r].isNew = req[r].isNew
        /\ req'[r].ref = req[r].ref
        /\ \A q \in Request \ {r} : req'[q] = req[q]
    <3>1. "publishCreated" \in Step
      BY DEF Step
    <3> QED
      BY <1>1, <1>2, <1>3, <3>1, ContinueEffect DEF PublishToken
  <2>2. TypeOK'
    BY <1>1, <1>2, <1>3, <2>1 DEF TypeOK
  <2>3. Flows' /\ Links'
    BY <1>1, <1>2, <1>3, <2>1 DEF Flows, Links
  <2>4. Proof'
    BY <1>1, <1>2, <1>3, <2>1 DEF Proof, Flows
  <2>5. Announcements'
    BY <1>1, <1>2, <1>3, <2>1 DEF Announcements, Announcing
  <2>6. Events'
    BY <1>1, <1>2, <1>3, <2>1 DEF Events
  <2>7. VerifiedOnProof' /\ OneEventPerSignIn'
    BY <1>1, <1>2, <1>3, <2>1 DEF VerifiedOnProof, OneEventPerSignIn
  <2>8. LinkedIsVerified'
    BY <1>1, <1>2, <1>3, <2>1 DEF LinkedIsVerified
  <2> QED
    BY <2>2, <2>3, <2>4, <2>5, <2>6, <2>7, <2>8
<1>4. CASE req[r].flow # "register"
  <2>1. /\ req' \in [Request -> Handler] /\ req'[r].at = "idle" /\ req'[r].flow = "none"
        /\ req'[r].isNew = FALSE
        /\ \A q \in Request \ {r} : req'[q] = req[q]
    BY <1>1, <1>2, <1>4, AnswerEffect DEF PublishToken
  <2>2. TypeOK'
    BY <1>1, <1>2, <1>4, <2>1 DEF TypeOK
  <2>3. Flows' /\ Links'
    BY <1>1, <1>2, <1>4, <2>1 DEF Flows, Links
  <2>4. Proof'
    BY <1>1, <1>2, <1>4, <2>1 DEF Proof
  <2>5. Announcements'
    BY <1>1, <1>2, <1>4, <2>1 DEF Announcements, Announcing, Flows
  <2>6. Events'
    BY <1>1, <1>2, <1>4, <2>1 DEF Events
  <2>7. VerifiedOnProof' /\ OneEventPerSignIn'
    BY <1>1, <1>2, <1>4, <2>1 DEF VerifiedOnProof, OneEventPerSignIn
  <2>8. LinkedIsVerified'
    BY <1>1, <1>2, <1>4, <2>1 DEF LinkedIsVerified
  <2> QED
    BY <2>2, <2>3, <2>4, <2>5, <2>6, <2>7, <2>8
<1> QED
  BY <1>3, <1>4

\* InsertSession: the slot's events, if any, announce a registration.
LEMMA InsertSessionInv ==
    ASSUME IndInv, NEW r \in Request, InsertSession(r)
    PROVE  IndInv'
<1> USE DEF IndInv
<1>1. req[r].at = "insertSession" /\ session' = [session EXCEPT ![r] = req[r].email]
  BY DEF InsertSession
<1>2. UNCHANGED <<users, verified, identity, token, cooldown, mailbox, published,
                failures, vouched>>
  BY DEF InsertSession
<1>3. /\ session' \in [Request -> Email \cup {Null}] /\ session'[r] = req[r].email
      /\ \A q \in Request \ {r} : session'[q] = session[q]
  BY <1>1 DEF TypeOK, Handler
<1>4. CASE req[r].flow = "google"
  <2>1. /\ req' \in [Request -> Handler] /\ req'[r].at = "publishEvent"
        /\ req'[r].flow = req[r].flow /\ req'[r].email = req[r].email
        /\ req'[r].subject = req[r].subject /\ req'[r].isNew = req[r].isNew
        /\ req'[r].ref = req[r].ref
        /\ \A q \in Request \ {r} : req'[q] = req[q]
    <3>1. "publishEvent" \in Step
      BY DEF Step
    <3> QED
      BY <1>1, <1>2, <1>3, <1>4, <3>1, ContinueEffect DEF InsertSession
  <2>2. TypeOK'
    BY <1>1, <1>2, <1>3, <1>4, <2>1 DEF TypeOK
  <2>3. Flows' /\ Links'
    BY <1>1, <1>2, <1>3, <1>4, <2>1 DEF Flows, Links
  <2>4. Proof'
    BY <1>1, <1>2, <1>3, <1>4, <2>1 DEF Proof
  <2>5. Announcements'
    BY <1>1, <1>2, <1>3, <1>4, <2>1 DEF Announcements, Announcing
  <2>6. Events'
    BY <1>1, <1>2, <1>3, <1>4, <2>1 DEF Events
  <2>7. VerifiedOnProof' /\ OneEventPerSignIn'
    BY <1>1, <1>2, <1>3, <1>4, <2>1 DEF VerifiedOnProof, OneEventPerSignIn, Events, TypeOK, Event
  <2>8. LinkedIsVerified'
    BY <1>1, <1>2, <1>3, <1>4, <2>1 DEF LinkedIsVerified
  <2> QED
    BY <2>2, <2>3, <2>4, <2>5, <2>6, <2>7, <2>8
<1>5. CASE req[r].flow # "google"
  <2>1. /\ req' \in [Request -> Handler] /\ req'[r].at = "idle" /\ req'[r].flow = "none"
        /\ req'[r].isNew = FALSE
        /\ \A q \in Request \ {r} : req'[q] = req[q]
    BY <1>1, <1>2, <1>3, <1>5, AnswerEffect DEF InsertSession
  <2>2. TypeOK'
    BY <1>1, <1>2, <1>3, <1>5, <2>1 DEF TypeOK
  <2>3. Flows' /\ Links'
    BY <1>1, <1>2, <1>3, <1>5, <2>1 DEF Flows, Links
  <2>4. Proof'
    BY <1>1, <1>2, <1>3, <1>5, <2>1 DEF Proof
  <2>5. Announcements'
    BY <1>1, <1>2, <1>3, <1>5, <2>1 DEF Announcements, Announcing
  <2>6. Events'
    BY <1>1, <1>2, <1>3, <1>5, <2>1 DEF Events
  <2>7. VerifiedOnProof' /\ OneEventPerSignIn'
    BY <1>1, <1>2, <1>3, <1>5, <2>1 DEF VerifiedOnProof, OneEventPerSignIn, Events, TypeOK, Event
  <2>8. LinkedIsVerified'
    BY <1>1, <1>2, <1>3, <1>5, <2>1 DEF LinkedIsVerified
  <2> QED
    BY <2>2, <2>3, <2>4, <2>5, <2>6, <2>7, <2>8
<1> QED
  BY <1>4, <1>5

\* MarkVerified: the handler has the proof in hand.
LEMMA MarkVerifiedInv ==
    ASSUME IndInv, NEW r \in Request, MarkVerified(r)
    PROVE  IndInv'
<1> USE DEF IndInv
<1>1. req[r].at = "markVerified" /\ verified' = verified \cup {req[r].email}
  BY DEF MarkVerified
<1>2. UNCHANGED <<users, identity, token, session, cooldown, mailbox, published,
                failures, vouched>>
  BY DEF MarkVerified
<1>3. CASE req[r].flow = "google"
  <2>1. /\ req' \in [Request -> Handler] /\ req'[r].at = "insertSession"
        /\ req'[r].flow = req[r].flow /\ req'[r].email = req[r].email
        /\ req'[r].subject = req[r].subject /\ req'[r].isNew = req[r].isNew
        /\ req'[r].ref = req[r].ref
        /\ \A q \in Request \ {r} : req'[q] = req[q]
    <3>1. "insertSession" \in Step
      BY DEF Step
    <3> QED
      BY <1>1, <1>2, <1>3, <3>1, ContinueEffect DEF MarkVerified
  <2>2. TypeOK'
    BY <1>1, <1>2, <1>3, <2>1 DEF TypeOK, Flows
  <2>3. Flows' /\ Links'
    BY <1>1, <1>2, <1>3, <2>1 DEF Flows, Links
  <2>4. Proof'
    BY <1>1, <1>2, <1>3, <2>1 DEF Proof
  <2>5. Announcements'
    BY <1>1, <1>2, <1>3, <2>1 DEF Announcements, Announcing
  <2>6. Events'
    BY <1>1, <1>2, <1>3, <2>1 DEF Events
  <2>7. VerifiedOnProof' /\ OneEventPerSignIn'
    BY <1>1, <1>2, <1>3, <2>1 DEF VerifiedOnProof, OneEventPerSignIn, Proof, Flows, Events
  <2>8. LinkedIsVerified'
    BY <1>1, <1>2, <1>3, <2>1 DEF LinkedIsVerified
  <2> QED
    BY <2>2, <2>3, <2>4, <2>5, <2>6, <2>7, <2>8
<1>4. CASE req[r].flow # "google"
  <2>1. /\ req' \in [Request -> Handler] /\ req'[r].at = "idle" /\ req'[r].flow = "none"
        /\ req'[r].isNew = FALSE
        /\ \A q \in Request \ {r} : req'[q] = req[q]
    BY <1>1, <1>2, <1>4, AnswerEffect DEF MarkVerified
  <2>2. TypeOK'
    BY <1>1, <1>2, <1>4, <2>1 DEF TypeOK, Flows
  <2>3. Flows' /\ Links'
    BY <1>1, <1>2, <1>4, <2>1 DEF Flows, Links
  <2>4. Proof'
    BY <1>1, <1>2, <1>4, <2>1 DEF Proof
  <2>5. Announcements'
    BY <1>1, <1>2, <1>4, <2>1 DEF Announcements, Announcing
  <2>6. Events'
    BY <1>1, <1>2, <1>4, <2>1 DEF Events
  <2>7. VerifiedOnProof' /\ OneEventPerSignIn'
    BY <1>1, <1>2, <1>4, <2>1 DEF VerifiedOnProof, OneEventPerSignIn, Proof, Flows
  <2>8. LinkedIsVerified'
    BY <1>1, <1>2, <1>4, <2>1 DEF LinkedIsVerified
  <2> QED
    BY <2>2, <2>3, <2>4, <2>5, <2>6, <2>7, <2>8
<1> QED
  BY <1>3, <1>4

\* AcquireCooldown: the cooldown is the account's.
LEMMA AcquireCooldownInv ==
    ASSUME IndInv, NEW r \in Request, AcquireCooldown(r)
    PROVE  IndInv'
<1> USE DEF IndInv
<1>1. req[r].at = "acquireCooldown" /\ cooldown' = cooldown \cup {req[r].email}
  BY DEF AcquireCooldown
<1>2. UNCHANGED <<users, verified, identity, token, session, mailbox, published,
                failures, vouched>>
  BY DEF AcquireCooldown, rows
<1>3. CASE req[r].email \notin cooldown
  <2>1. /\ req' \in [Request -> Handler] /\ req'[r].at = "insertToken"
        /\ req'[r].flow = req[r].flow /\ req'[r].email = req[r].email
        /\ req'[r].subject = req[r].subject /\ req'[r].isNew = req[r].isNew
        /\ req'[r].ref = req[r].ref
        /\ \A q \in Request \ {r} : req'[q] = req[q]
    <3>1. "insertToken" \in Step
      BY DEF Step
    <3> QED
      BY <1>1, <1>2, <1>3, <3>1, ContinueEffect DEF AcquireCooldown
  <2>2. TypeOK'
    BY <1>1, <1>2, <1>3, <2>1 DEF TypeOK, Flows
  <2>3. Flows' /\ Links'
    BY <1>1, <1>2, <1>3, <2>1 DEF Flows, Links
  <2>4. Proof'
    BY <1>1, <1>2, <1>3, <2>1 DEF Proof
  <2>5. Announcements'
    BY <1>1, <1>2, <1>3, <2>1 DEF Announcements, Announcing, Flows
  <2>6. Events'
    BY <1>1, <1>2, <1>3, <2>1 DEF Events
  <2>7. VerifiedOnProof' /\ OneEventPerSignIn'
    BY <1>1, <1>2, <1>3, <2>1 DEF VerifiedOnProof, OneEventPerSignIn
  <2>8. LinkedIsVerified'
    BY <1>1, <1>2, <1>3, <2>1 DEF LinkedIsVerified
  <2> QED
    BY <2>2, <2>3, <2>4, <2>5, <2>6, <2>7, <2>8
<1>4. CASE req[r].email \in cooldown
  <2>1. /\ req' \in [Request -> Handler] /\ req'[r].at = "idle" /\ req'[r].flow = "none"
        /\ req'[r].isNew = FALSE
        /\ \A q \in Request \ {r} : req'[q] = req[q]
    BY <1>1, <1>2, <1>4, AnswerEffect DEF AcquireCooldown
  <2>2. TypeOK'
    BY <1>1, <1>2, <1>4, <2>1 DEF TypeOK, Flows
  <2>3. Flows' /\ Links'
    BY <1>1, <1>2, <1>4, <2>1 DEF Flows, Links
  <2>4. Proof'
    BY <1>1, <1>2, <1>4, <2>1 DEF Proof
  <2>5. Announcements'
    BY <1>1, <1>2, <1>4, <2>1 DEF Announcements, Announcing
  <2>6. Events'
    BY <1>1, <1>2, <1>4, <2>1 DEF Events
  <2>7. VerifiedOnProof' /\ OneEventPerSignIn'
    BY <1>1, <1>2, <1>4, <2>1 DEF VerifiedOnProof, OneEventPerSignIn
  <2>8. LinkedIsVerified'
    BY <1>1, <1>2, <1>4, <2>1 DEF LinkedIsVerified
  <2> QED
    BY <2>2, <2>3, <2>4, <2>5, <2>6, <2>7, <2>8
<1> QED
  BY <1>3, <1>4

\* ConsumeToken: the token had reached the address of its account.
LEMMA ConsumeTokenInv ==
    ASSUME IndInv, NEW r \in Request, ConsumeToken(r)
    PROVE  IndInv'
<1> USE DEF IndInv
<1>1. /\ req[r].at = "consumeToken" /\ req[r].ref \in mailbox
      /\ token[req[r].ref].user = req[r].email
  BY DEF ConsumeToken, Proof, Flows
<1>2. token' = [token EXCEPT ![req[r].ref].consumed = TRUE]
  BY DEF ConsumeToken
<1>3. UNCHANGED <<users, verified, identity, session, cooldown, mailbox, published,
                failures, vouched>>
  BY DEF ConsumeToken, rows
<1>4. /\ req' \in [Request -> Handler] /\ req'[r].at = "markVerified"
      /\ req'[r].flow = req[r].flow /\ req'[r].email = req[r].email
      /\ req'[r].subject = req[r].subject /\ req'[r].isNew = req[r].isNew
      /\ req'[r].ref = req[r].ref
      /\ \A q \in Request \ {r} : req'[q] = req[q]
  <2>1. "markVerified" \in Step
    BY DEF Step
  <2> QED
    BY <2>1, ContinueEffect DEF ConsumeToken
<1>5. /\ token' \in [Request -> TokenRow] /\ token'[req[r].ref].consumed
      /\ \A q \in Request : token'[q].user = token[q].user
      /\ \A q \in Request : token[q].consumed => token'[q].consumed
  BY <1>1, <1>2 DEF TypeOK, TokenRow
<1>6. TypeOK'
  BY <1>1, <1>2, <1>3, <1>4, <1>5 DEF TypeOK
<1>7. Flows' /\ Links'
  BY <1>1, <1>2, <1>3, <1>4, <1>5 DEF Flows, Links
<1>8. Proof'
  BY <1>1, <1>2, <1>3, <1>4, <1>5 DEF Proof, Flows
<1>9. Announcements'
  BY <1>1, <1>2, <1>3, <1>4, <1>5 DEF Announcements, Announcing
<1>10. Events'
  BY <1>1, <1>2, <1>3, <1>4, <1>5 DEF Events
<1>11. VerifiedOnProof' /\ OneEventPerSignIn'
  BY <1>1, <1>2, <1>3, <1>4, <1>5 DEF VerifiedOnProof, OneEventPerSignIn
<1>12. LinkedIsVerified'
  BY <1>1, <1>2, <1>3, <1>4, <1>5 DEF LinkedIsVerified
<1> QED
  BY <1>6, <1>7, <1>8, <1>9, <1>10, <1>11, <1>12

\* GooglePublish: the slot's first event, and the account's first announcement.
LEMMA GooglePublishInv ==
    ASSUME IndInv, NEW r \in Request, GooglePublish(r)
    PROVE  IndInv'
<1> USE DEF IndInv
<1>1. PICK type \in {"AccountCreated", "AuthLogin"} :
          /\ published' = published \cup
                {[type |-> type, method |-> "google", account |-> req[r].email, by |-> r]}
          /\ type = IF req[r].isNew THEN "AccountCreated" ELSE "AuthLogin"
  BY DEF GooglePublish, Publish
<1>2. req[r].at = "publishEvent"
  BY DEF GooglePublish
<1>3. UNCHANGED <<users, verified, identity, token, session, cooldown, mailbox, failures, vouched>>
  BY DEF GooglePublish, rows
<1>4. /\ req' \in [Request -> Handler] /\ req'[r].at = "idle" /\ req'[r].flow = "none"
      /\ req'[r].isNew = FALSE
      /\ \A q \in Request \ {r} : req'[q] = req[q]
  BY AnswerEffect DEF GooglePublish
<1>5. TypeOK'
  BY <1>1, <1>2, <1>3, <1>4 DEF TypeOK, Event, Flows
<1>6. Flows' /\ Links'
  BY <1>1, <1>2, <1>3, <1>4 DEF Flows, Links
<1>7. Proof'
  BY <1>1, <1>2, <1>3, <1>4 DEF Proof
<1>8. Announcements'
  BY <1>1, <1>2, <1>3, <1>4 DEF Announcements, Announcing, Flows
<1>9. Events'
  BY <1>1, <1>2, <1>3, <1>4 DEF Events, Flows
<1>10. VerifiedOnProof' /\ OneEventPerSignIn'
  BY <1>1, <1>2, <1>3, <1>4 DEF VerifiedOnProof, OneEventPerSignIn, Events, Flows
<1>11. LinkedIsVerified'
  BY <1>1, <1>2, <1>3, <1>4 DEF LinkedIsVerified
<1> QED
  BY <1>5, <1>6, <1>7, <1>8, <1>9, <1>10, <1>11

\* GoogleInsertUser: the address had no account, so nobody announces another.
LEMMA GoogleInsertUserInv ==
    ASSUME IndInv, NEW r \in Request, GoogleInsertUser(r)
    PROVE  IndInv'
<1> USE DEF IndInv
<1>1. /\ req[r].at = "insertUser" /\ req[r].flow = "google"
      /\ req[r].email \in Email /\ req[r].email \in vouched
  BY DEF GoogleInsertUser, Flows, Proof
<1>2. CASE req[r].email \in users
  BY <1>1, <1>2, GiveUpInv DEF GoogleInsertUser, rows
<1>3. CASE req[r].email \notin users
  <2>1. /\ users' = users \cup {req[r].email}
        /\ verified' = verified \cup {req[r].email}
        /\ UNCHANGED <<identity, token, session, cooldown, mailbox, published, failures, vouched>>
    BY <1>3 DEF GoogleInsertUser
  <2>2. /\ req' \in [Request -> Handler] /\ req'[r].at = "link" /\ req'[r].isNew
        /\ req'[r].flow = req[r].flow /\ req'[r].email = req[r].email
        /\ req'[r].subject = req[r].subject
        /\ \A q \in Request \ {r} : req'[q] = req[q]
    BY <1>3 DEF GoogleInsertUser, TypeOK, Handler, Step
  <2>3. TypeOK'
    BY <1>1, <2>1, <2>2 DEF TypeOK
  <2>4. Flows' /\ Links'
    BY <1>1, <2>1, <2>2 DEF Flows, Links
  <2>5. Proof'
    BY <1>1, <2>1, <2>2 DEF Proof
  <2>6. Announcements'
    BY <1>1, <1>3, <2>1, <2>2 DEF Announcements, Announcing, Flows
  <2>7. Events'
    BY <1>1, <2>1, <2>2 DEF Events
  <2>8. VerifiedOnProof' /\ OneEventPerSignIn' /\ LinkedIsVerified'
    BY <1>1, <2>1, <2>2 DEF VerifiedOnProof, OneEventPerSignIn, LinkedIsVerified
  <2> QED
    BY <2>3, <2>4, <2>5, <2>6, <2>7, <2>8
<1> QED
  BY <1>2, <1>3

\* GoogleLink: the address is verified already, or will be marked next.
LEMMA GoogleLinkInv ==
    ASSUME IndInv, NEW r \in Request, GoogleLink(r)
    PROVE  IndInv'
<1> USE DEF IndInv
<1>1. /\ req[r].at \in {"link", "linkMark"} /\ req[r].flow = "google"
      /\ req[r].email \in users /\ req[r].email \in Email /\ req[r].subject \in Subject
  BY DEF GoogleLink, Flows
<1>2. CASE identity[req[r].subject] # Null
  BY <1>1, <1>2, GiveUpInv DEF GoogleLink, rows
<1>3. CASE identity[req[r].subject] = Null
  <2>1. /\ identity' = [identity EXCEPT ![req[r].subject] = req[r].email]
        /\ UNCHANGED <<users, verified, token, session, cooldown, mailbox, published,
                       failures, vouched>>
    BY <1>3 DEF GoogleLink
  <2>2. PICK step \in {"insertSession", "markVerified"} :
          /\ Continue(r, step)
          /\ step = "insertSession" <=> req[r].at = "link"
    BY <1>3 DEF GoogleLink
  <2>3. /\ req' \in [Request -> Handler] /\ req'[r].at = step
        /\ req'[r].flow = req[r].flow /\ req'[r].email = req[r].email
        /\ req'[r].subject = req[r].subject /\ req'[r].isNew = req[r].isNew
        /\ \A q \in Request \ {r} : req'[q] = req[q]
    <3>1. step \in Step
      BY DEF Step
    <3> QED
      BY <2>2, <3>1, ContinueEffect
  <2>4. /\ identity' \in [Subject -> Email \cup {Null}]
        /\ identity'[req[r].subject] = req[r].email
        /\ \A s \in Subject \ {req[r].subject} : identity'[s] = identity[s]
    BY <1>1, <2>1 DEF TypeOK
  <2>5. TypeOK'
    BY <1>1, <2>1, <2>3, <2>4 DEF TypeOK
  <2>6. Flows' /\ Links'
    BY <1>1, <2>1, <2>2, <2>3, <2>4 DEF Flows, Links
  <2>7. Proof'
    BY <1>1, <2>1, <2>2, <2>3 DEF Proof
  <2>8. Announcements'
    BY <1>1, <2>1, <2>3 DEF Announcements, Announcing
  <2>9. Events'
    BY <1>1, <2>1, <2>3 DEF Events
  <2>10. VerifiedOnProof' /\ OneEventPerSignIn'
    BY <2>1 DEF VerifiedOnProof, OneEventPerSignIn
  <2>11. LinkedIsVerified'
    BY <1>1, <2>1, <2>2, <2>3, <2>4 DEF LinkedIsVerified, Proof
  <2> QED
    BY <2>5, <2>6, <2>7, <2>8, <2>9, <2>10, <2>11
<1> QED
  BY <1>2, <1>3

\* GoogleFindIdentity: either the subject is linked, or Google vouches for the address.
LEMMA GoogleFindIdentityInv ==
    ASSUME IndInv, NEW r \in Request, NEW s \in Subject, NEW e \in Email, NEW v \in BOOLEAN,
           GoogleFindIdentity(r, s, e, v)
    PROVE  IndInv'
<1> USE DEF IndInv
<1>1. Unused(r) /\ (identity[s] # Null \/ v) /\ vouched' = IF v THEN vouched \cup {e} ELSE vouched
  BY DEF GoogleFindIdentity
<1>2. UNCHANGED <<users, verified, identity, token, session, cooldown, mailbox, published,
                failures>>
  BY DEF GoogleFindIdentity, rows
<1>3. /\ req' \in [Request -> Handler] /\ req'[r].flow = "google"
      /\ req'[r].subject = s /\ req'[r].isNew = FALSE
      /\ req'[r].at = IF identity[s] = Null THEN "findByEmail" ELSE "insertSession"
      /\ req'[r].email = IF identity[s] = Null THEN e ELSE identity[s]
      /\ \A q \in Request \ {r} : req'[q] = req[q]
  BY DEF GoogleFindIdentity, TypeOK, Handler, Idle, Step, Flow
<1>4. TypeOK'
  BY <1>1, <1>2, <1>3 DEF TypeOK
<1>5. Flows' /\ Links'
  BY <1>1, <1>2, <1>3 DEF Flows, Links, TypeOK
<1>6. Proof'
  BY <1>1, <1>2, <1>3 DEF Proof, Unused
<1>7. Announcements'
  BY <1>1, <1>2, <1>3 DEF Announcements, Announcing, Unused
<1>8. Events'
  BY <1>1, <1>2, <1>3 DEF Events, Unused
<1>9. VerifiedOnProof' /\ OneEventPerSignIn'
  BY <1>1, <1>2, <1>3 DEF VerifiedOnProof, OneEventPerSignIn
<1>10. LinkedIsVerified'
  BY <1>1, <1>2, <1>3 DEF LinkedIsVerified, Unused
<1> QED
  BY <1>4, <1>5, <1>6, <1>7, <1>8, <1>9, <1>10

\* VerifyFindToken: the token it has found was delivered.
LEMMA VerifyFindTokenInv ==
    ASSUME IndInv, NEW r \in Request, NEW t \in Request, VerifyFindToken(r, t)
    PROVE  IndInv'
<1> USE DEF IndInv
<1>1. /\ req[r].at = "idle" /\ t \in mailbox
      /\ token[t].user \in Email /\ token[t].user \in users
  BY DEF VerifyFindToken, ValidToken, TypeOK, TokenRow, Links
<1>2. UNCHANGED <<users, verified, identity, token, session, cooldown, mailbox, published,
                failures, vouched>>
  BY DEF VerifyFindToken, rows
<1>3. /\ req' \in [Request -> Handler] /\ req'[r].flow = "verify" /\ req'[r].at = "consumeToken"
      /\ req'[r].isNew = FALSE /\ req'[r].email = token[t].user /\ req'[r].ref = t
      /\ \A q \in Request \ {r} : req'[q] = req[q]
  BY <1>1 DEF VerifyFindToken, TypeOK, Handler, Idle, Step, Flow
<1>4. TypeOK'
  BY <1>1, <1>2, <1>3 DEF TypeOK
<1>5. Flows' /\ Links'
  BY <1>1, <1>2, <1>3 DEF Flows, Links
<1>6. Proof'
  BY <1>1, <1>2, <1>3 DEF Proof
<1>7. Announcements'
  BY <1>1, <1>2, <1>3 DEF Announcements, Announcing
<1>8. Events'
  BY <1>1, <1>2, <1>3 DEF Events
<1>9. VerifiedOnProof' /\ OneEventPerSignIn'
  BY <1>1, <1>2, <1>3 DEF VerifiedOnProof, OneEventPerSignIn
<1>10. LinkedIsVerified'
  BY <1>1, <1>2, <1>3 DEF LinkedIsVerified
<1> QED
  BY <1>4, <1>5, <1>6, <1>7, <1>8, <1>9, <1>10

\* ResendFindUser: the slot is unused and the account exists.
LEMMA ResendFindUserInv ==
    ASSUME IndInv, NEW r \in Request, NEW e \in Email, ResendFindUser(r, e)
    PROVE  IndInv'
<1> USE DEF IndInv
<1>1. Unused(r) /\ e \in users
  BY DEF ResendFindUser
<1>2. UNCHANGED <<users, verified, identity, token, session, cooldown, mailbox, published,
                failures, vouched>>
  BY DEF ResendFindUser, rows
<1>3. /\ req' \in [Request -> Handler]
      /\ req'[r].at = "acquireCooldown" /\ req'[r].flow = "resend" /\ req'[r].email = e
      /\ req'[r].isNew = FALSE
      /\ \A q \in Request \ {r} : req'[q] = req[q]
  <2>1. "resend" \in Flow /\ "acquireCooldown" \in Step
    BY DEF Flow, Step
  <2> QED
    BY <2>1, StartEffect DEF ResendFindUser
<1>4. TypeOK'
  BY <1>1, <1>2, <1>3 DEF TypeOK
<1>5. Flows' /\ Links'
  BY <1>1, <1>2, <1>3 DEF Flows, Links
<1>6. Proof'
  BY <1>1, <1>2, <1>3 DEF Proof, Unused
<1>7. Announcements'
  BY <1>1, <1>2, <1>3 DEF Announcements, Announcing, Unused
<1>8. Events'
  BY <1>1, <1>2, <1>3 DEF Events, Unused
<1>9. VerifiedOnProof' /\ OneEventPerSignIn'
  BY <1>1, <1>2, <1>3 DEF VerifiedOnProof, OneEventPerSignIn
<1>10. LinkedIsVerified'
  BY <1>1, <1>2, <1>3 DEF LinkedIsVerified, Unused
<1> QED
  BY <1>4, <1>5, <1>6, <1>7, <1>8, <1>9, <1>10

-----------------------------------------------------------------------------
(* Steps of nobody's handler *)

\* Tokens and cooldowns expire.
LEMMA ExpiryInv ==
    ASSUME IndInv,
           (\E t \in Request : ExpireToken(t)) \/ (\E e \in Email : CooldownExpires(e))
    PROVE  IndInv'
<1> USE DEF IndInv
<1>1. UNCHANGED <<users, verified, identity, session, mailbox, published, req, failures, vouched>>
  BY DEF ExpireToken, CooldownExpires, rows
<1>2. /\ cooldown' \subseteq users /\ token' \in [Request -> TokenRow]
      /\ \A q \in Request : token'[q].user = token[q].user /\ token'[q].consumed = token[q].consumed
  <2>1. ASSUME NEW t \in Request, ExpireToken(t)
        PROVE  /\ cooldown' \subseteq users /\ token' \in [Request -> TokenRow]
               /\ \A q \in Request : /\ token'[q].user = token[q].user
                                     /\ token'[q].consumed = token[q].consumed
    BY <2>1 DEF ExpireToken, TypeOK, TokenRow
  <2>2. ASSUME NEW e \in Email, CooldownExpires(e)
        PROVE  cooldown' \subseteq users /\ token' = token
    BY <2>2 DEF CooldownExpires, rows, TypeOK
  <2> QED
    BY <2>1, <2>2 DEF TypeOK
<1>3. TypeOK'
  BY <1>1, <1>2 DEF TypeOK
<1>4. Flows' /\ Links'
  BY <1>1, <1>2 DEF Flows, Links
<1>5. Proof'
  BY <1>1, <1>2 DEF Proof, TypeOK
<1>6. Announcements' /\ Events'
  BY <1>1 DEF Announcements, Announcing, Events
<1>7. VerifiedOnProof' /\ LinkedIsVerified' /\ OneEventPerSignIn'
  BY <1>1, <1>2 DEF VerifiedOnProof, LinkedIsVerified, OneEventPerSignIn, TypeOK
<1> QED
  BY <1>3, <1>4, <1>5, <1>6, <1>7

\* A failure excuses what its handler has not done.
LEMMA FailInv ==
    ASSUME IndInv, NEW R \in SUBSET InFlight, Fail(R)
    PROVE  IndInv'
<1> USE DEF IndInv
<1>1. UNCHANGED <<rows, cooldown, mailbox, published, vouched>>
  BY DEF Fail
<1>2. failures' \in 0..MaxFailures /\ failures' > 0
  BY MaxFailuresAssumption DEF Fail, TypeOK
<1>3. Idle \in Handler
  BY DEF Idle, Handler, Step, Flow
<1>4. /\ req' \in [Request -> Handler]
      /\ \A q \in Request : \/ req'[q] = req[q]
                            \/ req'[q].at = "idle" /\ req'[q].flow = "none" /\ ~req'[q].isNew
  <2>1. \A q \in Request : req'[q] = IF q \in R THEN Idle ELSE req[q]
    BY DEF Fail
  <2>2. req' \in [Request -> Handler]
    BY <1>3, <2>1 DEF Fail, TypeOK
  <2> QED
    BY <2>1, <2>2 DEF Idle
<1>5. TypeOK'
  BY <1>1, <1>2, <1>4 DEF TypeOK, rows
<1>6. Flows' /\ Links'
  BY <1>1, <1>4 DEF Flows, Links, rows
<1>7. Proof'
  BY <1>1, <1>4 DEF Proof, rows
<1>8. Announcements'
  BY <1>1, <1>4 DEF Announcements, Announcing, rows
<1>9. Events'
  BY <1>1, <1>4 DEF Events, rows
<1>10. VerifiedOnProof' /\ LinkedIsVerified' /\ OneEventPerSignIn'
  BY <1>1, <1>2 DEF VerifiedOnProof, LinkedIsVerified, OneEventPerSignIn, rows
<1> QED
  BY <1>5, <1>6, <1>7, <1>8, <1>9, <1>10

\* So does a step that changes nothing.
LEMMA StutterInv == IndInv /\ UNCHANGED vars => IndInv'
<1> SUFFICES ASSUME IndInv, UNCHANGED vars PROVE IndInv'
  OBVIOUS
<1> USE DEF IndInv, vars, rows
<1>1. TypeOK' /\ Flows' /\ Links' /\ Proof'
  BY DEF TypeOK, Flows, Links, Proof
<1>2. Announcements' /\ Events'
  BY DEF Announcements, Announcing, Events
<1>3. VerifiedOnProof' /\ LinkedIsVerified' /\ OneEventPerSignIn'
  BY DEF VerifiedOnProof, LinkedIsVerified, OneEventPerSignIn
<1> QED
  BY <1>1, <1>2, <1>3

\* Every step keeps the invariant.
LEMMA NextInv == IndInv /\ [Next]_vars => IndInv'
<1> SUFFICES ASSUME IndInv, [Next]_vars PROVE IndInv'
  OBVIOUS
<1>1. ASSUME NEW r \in Request, Handle(r) PROVE IndInv'
  BY <1>1, InsertTokenInv, PublishTokenInv, RegisterPublishCreatedInv, InsertSessionInv,
     FindByEmailInv, GoogleInsertUserInv, GoogleLinkInv, GooglePublishInv, ConsumeTokenInv,
     MarkVerifiedInv, AcquireCooldownInv DEF Handle
<1>2. ASSUME NEW r \in Request, Receive(r) PROVE IndInv'
  BY <1>2, RegisterInv, ResendFindUserInv, GoogleFindIdentityInv, VerifyFindTokenInv DEF Receive
<1> QED
  BY <1>1, <1>2, ExpiryInv, FailInv, StutterInv DEF Next

\* The invariant holds throughout.
THEOREM Invariance == Spec => []IndInv
BY InitInv, NextInv, PTL DEF Spec

-----------------------------------------------------------------------------
\* Every variable keeps its type.
THEOREM TypeCorrect == Spec => []TypeOK
<1>1. IndInv => TypeOK
  BY DEF IndInv
<1> QED
  BY <1>1, Invariance, PTL

\* No account is announced as new twice, however its creators race.
THEOREM WelcomedOnce == Spec => []WelcomedAtMostOnce
<1>1. IndInv => WelcomedAtMostOnce
  <2> SUFFICES ASSUME IndInv, NEW e \in Email PROVE Cardinality(Created(e)) <= 1
    BY DEF WelcomedAtMostOnce
  <2>1. \A event, other \in Created(e) : event = other
    BY DEF IndInv, Announcements, Created
  <2>2. CASE Created(e) = {}
    BY <2>2, FS_EmptySet
  <2>3. CASE Created(e) # {}
    <3>1. PICK event \in Created(e) : TRUE
      BY <2>3
    <3>2. Created(e) = {event}
      BY <2>1, <3>1
    <3>3. Cardinality({event}) = 1
      BY FS_Singleton
    <3> QED
      BY <3>2, <3>3
  <2> QED
    BY <2>2, <2>3
<1> QED
  BY <1>1, Invariance, PTL

\* An address is marked verified only on proof.
THEOREM ProofFirst == Spec => []VerifiedOnProof
<1>1. IndInv => VerifiedOnProof
  BY DEF IndInv
<1> QED
  BY <1>1, Invariance, PTL

\* Linking a Google identity leaves the address verified.
THEOREM LinkingMarks == Spec => []LinkedIsVerified
<1>1. IndInv => LinkedIsVerified
  BY DEF IndInv
<1> QED
  BY <1>1, Invariance, PTL

\* No sign-in announces two things, and none of Google anything before its session.
THEOREM SignInEvents == Spec => []OneEventPerSignIn
<1>1. IndInv => OneEventPerSignIn
  BY DEF IndInv
<1> QED
  BY <1>1, Invariance, PTL

-----------------------------------------------------------------------------
(* Accounts are what AccountDirectory promises.                             *)

\* What the directory needs of the handlers besides IndInv: one that may still
\* create a session has created none, and a Google sign-in past its link is for
\* the account its subject is linked to.
Entering ==
    \A r \in Request :
        /\ req[r].flow \in {"register", "resend", "google"} /\ req[r].at # "publishEvent" =>
              session[r] = Null
        /\ req[r].flow = "google" /\ req[r].at \in {"insertSession", "publishEvent", "markVerified"} =>
              identity[req[r].subject] = req[r].email

\* It is kept by a step of one handler that touches neither sessions nor links
\* and does not bring the handler past its link.
LEMMA KeepsEntering ==
    ASSUME Entering, NEW r \in Request, UNCHANGED <<session, identity>>,
           \A q \in Request \ {r} : req'[q] = req[q],
           \/ req'[r].flow \in {"none", "verify"}
           \/ /\ req'[r].flow = req[r].flow
              /\ req'[r].email = req[r].email
              /\ req'[r].subject = req[r].subject
              /\ req[r].at # "publishEvent"
              /\ \/ req'[r].at \notin {"insertSession", "publishEvent", "markVerified"}
                 \/ req[r].at \in {"insertSession", "publishEvent", "markVerified"}
                 \/ req[r].flow # "google"
    PROVE  Entering'
BY DEF Entering

\* The steps of that kind.
LEMMA PlainStepEntering ==
    ASSUME IndInv, Entering, NEW r \in Request,
           \/ InsertToken(r) \/ PublishToken(r) \/ RegisterPublishCreated(r)
           \/ GoogleFindByEmail(r) \/ GooglePublish(r) \/ ConsumeToken(r)
           \/ MarkVerified(r) \/ AcquireCooldown(r)
    PROVE  Entering'
<1>1. UNCHANGED <<session, identity>>
  BY DEF InsertToken, PublishToken, RegisterPublishCreated, GoogleFindByEmail,
     GooglePublish, ConsumeToken, MarkVerified, AcquireCooldown, rows
<1>2. \/ Answer(r)
      \/ /\ req[r].at # "publishEvent"
         /\ \E step \in Step :
              /\ Continue(r, step)
              /\ \/ step \notin {"insertSession", "publishEvent", "markVerified"}
                 \/ req[r].at = "markVerified"
                 \/ req[r].flow # "google"
  <2>1. CASE InsertToken(r) \/ PublishToken(r) \/ AcquireCooldown(r)
    BY <2>1 DEF InsertToken, PublishToken, AcquireCooldown, Step
  <2>2. CASE RegisterPublishCreated(r) \/ ConsumeToken(r)
    BY <2>2 DEF RegisterPublishCreated, ConsumeToken, IndInv, Flows, Step
  <2>3. CASE GoogleFindByEmail(r)
    BY <2>3 DEF GoogleFindByEmail, Step
  <2>4. CASE GooglePublish(r)
    BY <2>4 DEF GooglePublish
  <2>5. CASE MarkVerified(r)
    BY <2>5 DEF MarkVerified, Step
  <2> QED
    BY <2>1, <2>2, <2>3, <2>4, <2>5
<1>3. CASE Answer(r)
  BY <1>1, <1>3, AnswerEffect, KeepsEntering DEF IndInv
<1>4. ASSUME NEW step \in Step, Continue(r, step), req[r].at # "publishEvent",
             \/ step \notin {"insertSession", "publishEvent", "markVerified"}
             \/ req[r].at = "markVerified"
             \/ req[r].flow # "google"
      PROVE  Entering'
  BY <1>1, <1>4, ContinueEffect, KeepsEntering DEF IndInv
<1> QED
  BY <1>2, <1>3, <1>4

\* A created account leads to its link, a lost race to an answer.
LEMMA GoogleInsertUserEntering ==
    ASSUME IndInv, Entering, NEW r \in Request, GoogleInsertUser(r)
    PROVE  Entering'
<1>1. UNCHANGED <<session, identity>> /\ req[r].at = "insertUser"
  BY DEF GoogleInsertUser
<1>2. CASE req[r].email \in users
  BY <1>1, <1>2, AnswerEffect, KeepsEntering DEF IndInv, GoogleInsertUser
<1>3. CASE req[r].email \notin users
  <2>1. req' = [req EXCEPT ![r].at = "link", ![r].isNew = TRUE] /\ req[r] \in Handler
    BY <1>3 DEF GoogleInsertUser, IndInv, TypeOK
  <2>2. /\ \A q \in Request \ {r} : req'[q] = req[q]
        /\ req'[r].flow = req[r].flow /\ req'[r].email = req[r].email
        /\ req'[r].subject = req[r].subject /\ req'[r].at = "link"
    BY <2>1 DEF IndInv, TypeOK, Handler
  <2> QED
    BY <1>1, <2>2, KeepsEntering
<1> QED
  BY <1>2, <1>3

\* A link that exists is never moved; a new one is to the handler's account.
LEMMA GoogleLinkEntering ==
    ASSUME IndInv, Entering, NEW r \in Request, GoogleLink(r)
    PROVE  Entering'
<1> DEFINE s == req[r].subject
<1>1. /\ req[r].at \in {"link", "linkMark"} /\ req[r].flow = "google"
      /\ s \in Subject /\ req[r].email \in Email
      /\ session' = session
  BY DEF GoogleLink, IndInv, Flows
<1>2. CASE identity[s] # Null
  BY <1>1, <1>2, AnswerEffect, KeepsEntering DEF IndInv, GoogleLink
<1>3. CASE identity[s] = Null
  <2>1. /\ identity' = [identity EXCEPT ![s] = req[r].email]
        /\ \E step \in {"insertSession", "markVerified"} : Continue(r, step)
    BY <1>3 DEF GoogleLink
  <2>2. /\ req'[r].at \in {"insertSession", "markVerified"}
        /\ req'[r].flow = req[r].flow /\ req'[r].email = req[r].email
        /\ req'[r].subject = s
        /\ \A q \in Request \ {r} : req'[q] = req[q]
    BY <2>1, ContinueEffect DEF IndInv, Step
  <2>3. \A i \in Subject : identity'[i] = IF i = s THEN req[r].email ELSE identity[i]
    BY <2>1 DEF IndInv, TypeOK
  <2>4. \A q \in Request : req[q].flow = "google" => req[q].subject \in Subject
    BY DEF IndInv, Flows
  <2>5. \A q \in Request : req[q].at # "idle" => req[q].email # Null
    BY NullAssumption DEF IndInv, Flows
  <2> QED
    BY <1>1, <1>3, <2>2, <2>3, <2>4, <2>5 DEF Entering
<1> QED
  BY <1>2, <1>3

\* The session is created by the step that leaves insertSession.
LEMMA InsertSessionEntering ==
    ASSUME IndInv, Entering, NEW r \in Request, InsertSession(r)
    PROVE  Entering'
<1>1. /\ req[r].at = "insertSession" /\ identity' = identity
      /\ session' = [session EXCEPT ![r] = req[r].email]
  BY DEF InsertSession
<1>2. \A q \in Request \ {r} : session'[q] = session[q]
  BY <1>1 DEF IndInv, TypeOK
<1>3. CASE req[r].flow = "google"
  <2>1. Continue(r, "publishEvent")
    BY <1>3 DEF InsertSession
  <2>2. /\ req'[r].at = "publishEvent"
        /\ req'[r].flow = req[r].flow /\ req'[r].email = req[r].email
        /\ req'[r].subject = req[r].subject
        /\ \A q \in Request \ {r} : req'[q] = req[q]
    BY <2>1, ContinueEffect DEF IndInv, Step
  <2> QED
    BY <1>1, <1>2, <1>3, <2>2 DEF Entering
<1>4. CASE req[r].flow # "google"
  <2>1. Answer(r)
    BY <1>4 DEF InsertSession
  <2>2. req'[r].flow = "none" /\ \A q \in Request \ {r} : req'[q] = req[q]
    BY <2>1, AnswerEffect DEF IndInv
  <2> QED
    BY <1>1, <1>2, <2>2 DEF Entering
<1> QED
  BY <1>3, <1>4

\* A handler that may create a session starts in a slot without one.
LEMMA ReceiveEntering ==
    ASSUME IndInv, Entering, NEW r \in Request, Receive(r)
    PROVE  Entering'
<1>1. UNCHANGED <<session, identity>>
  BY DEF Receive, RegisterInsertUser, ResendFindUser, GoogleFindIdentity, VerifyFindToken, rows
<1>2. ASSUME NEW e \in Email, RegisterInsertUser(r, e) \/ ResendFindUser(r, e)
      PROVE  Entering'
  <2>1. session[r] = Null
    BY <1>2 DEF RegisterInsertUser, ResendFindUser, Unused
  <2>2. \/ Start(r, "register", "insertToken", e)
        \/ Start(r, "resend", "acquireCooldown", e)
    BY <1>2 DEF RegisterInsertUser, ResendFindUser
  <2>3. /\ req'[r].flow \in {"register", "resend"}
        /\ \A q \in Request \ {r} : req'[q] = req[q]
    BY <2>2, StartEffect DEF IndInv, Flow, Step
  <2> QED
    BY <1>1, <2>1, <2>3 DEF Entering
<1>3. ASSUME NEW s \in Subject, NEW e \in Email, NEW v \in BOOLEAN,
             GoogleFindIdentity(r, s, e, v)
      PROVE  Entering'
  <2>1. session[r] = Null
    BY <1>3 DEF GoogleFindIdentity, Unused
  <2>2. req' = [req EXCEPT ![r] =
            [Idle EXCEPT !.flow = "google", !.subject = s,
                         !.at = IF identity[s] = Null THEN "findByEmail" ELSE "insertSession",
                         !.email = IF identity[s] = Null THEN e ELSE identity[s]]]
    BY <1>3 DEF GoogleFindIdentity
  <2>3. /\ req'[r].flow = "google" /\ req'[r].subject = s
        /\ req'[r].at = IF identity[s] = Null THEN "findByEmail" ELSE "insertSession"
        /\ req'[r].email = IF identity[s] = Null THEN e ELSE identity[s]
        /\ \A q \in Request \ {r} : req'[q] = req[q]
    BY <2>2 DEF IndInv, TypeOK, Idle
  <2> QED
    BY <1>1, <2>1, <2>3 DEF Entering
<1>4. ASSUME NEW t \in Request, VerifyFindToken(r, t)
      PROVE  Entering'
  <2>1. req' = [req EXCEPT ![r] = [Idle EXCEPT !.at = "consumeToken", !.flow = "verify",
                                              !.email = token[t].user, !.ref = t]]
    BY <1>4 DEF VerifyFindToken
  <2>2. req'[r].flow = "verify" /\ \A q \in Request \ {r} : req'[q] = req[q]
    BY <2>1 DEF IndInv, TypeOK, Idle
  <2> QED
    BY <1>1, <2>2, KeepsEntering
<1> QED
  BY <1>2, <1>3, <1>4 DEF Receive

\* Every step keeps it.
LEMMA NextEntering == IndInv /\ Entering /\ [Next]_vars => Entering'
<1> SUFFICES ASSUME IndInv, Entering, [Next]_vars PROVE Entering'
  OBVIOUS
<1>1. ASSUME NEW r \in Request, Handle(r) PROVE Entering'
  BY <1>1, PlainStepEntering, GoogleInsertUserEntering, GoogleLinkEntering,
     InsertSessionEntering DEF Handle
<1>2. ASSUME NEW r \in Request, Receive(r) PROVE Entering'
  BY <1>2, ReceiveEntering
<1>3. ASSUME NEW r \in Request, ExpireToken(r) PROVE Entering'
  BY <1>3 DEF ExpireToken, Entering
<1>4. ASSUME NEW e \in Email, CooldownExpires(e) PROVE Entering'
  BY <1>4 DEF CooldownExpires, rows, Entering
<1>5. ASSUME NEW R \in (SUBSET InFlight) \ {{}}, Fail(R) PROVE Entering'
  BY <1>5 DEF Fail, rows, Entering, Idle
<1>6. CASE UNCHANGED vars
  BY <1>6 DEF vars, rows, Entering
<1> QED
  BY <1>1, <1>2, <1>3, <1>4, <1>5, <1>6 DEF Next

\* A Google sign-in past its link is for the account its subject is linked to.
LEMMA EnteringHolds == Spec => []Entering
<1>1. Init => Entering
  BY DEF Init, Entering, Idle
<1> QED
  BY <1>1, NextEntering, Invariance, PTL DEF Spec

\* The addresses that Google or a spent token vouches for, and those announced.
Evidence == {e \in Email : \/ e \in vouched
                           \/ \E t \in mailbox : token[t].user = e /\ token[t].consumed}
Welcomed == {e \in Email : Created(e) # {}}

\* There are no accounts before the first request.
LEMMA InitMaps == Init => Directory!Init
BY DEF Init, Directory!Init, Created

\* Evidence is not lost, and a step that changes nothing else is a step of the
\* directory.
LEMMA EvidenceMaps ==
    ASSUME vouched \subseteq vouched', mailbox \subseteq mailbox',
           \A t \in mailbox : token[t].user \in Email /\ token[t].consumed =>
               token'[t].user = token[t].user /\ token'[t].consumed,
           UNCHANGED <<users, verified, identity, session>>, Welcomed' = Welcomed
    PROVE  Directory!GiveEvidence
<1>1. Evidence \subseteq Evidence' /\ Evidence' \subseteq Email
  BY DEF Evidence
<1> QED
  BY <1>1 DEF Directory!GiveEvidence, Evidence, Welcomed

\* A registration creates an account that is not verified.
LEMMA RegisterInsertUserMaps ==
    ASSUME IndInv, NEW r \in Request, NEW e \in Email, RegisterInsertUser(r, e)
    PROVE  Directory!Create(e)
<1>1. /\ e \notin users /\ users' = users \cup {e}
      /\ UNCHANGED <<verified, identity, session, token, mailbox, published, vouched>>
  BY DEF RegisterInsertUser
<1>2. Evidence' = Evidence /\ Welcomed' = Welcomed
  BY <1>1 DEF Evidence, Welcomed, Created
<1> QED
  BY <1>1, <1>2 DEF Directory!Create, Evidence, Welcomed

\* A Google sign-in creates one that Google has vouched for, unless it exists.
LEMMA GoogleInsertUserMaps ==
    ASSUME IndInv, NEW r \in Request, GoogleInsertUser(r)
    PROVE  UNCHANGED Directory!vars \/ \E e \in Email : Directory!Create(e)
<1>1. /\ req[r].at = "insertUser"
      /\ UNCHANGED <<identity, session, token, mailbox, published, vouched>>
  BY DEF GoogleInsertUser
<1>2. Evidence' = Evidence /\ Welcomed' = Welcomed
  BY <1>1 DEF Evidence, Welcomed, Created
<1>3. PICK e \in Email : e = req[r].email
  BY <1>1 DEF IndInv, Flows
<1>4. CASE e \in users
  <2>1. UNCHANGED <<users, verified>>
    BY <1>3, <1>4 DEF GoogleInsertUser
  <2> QED
    BY <1>1, <1>2, <2>1 DEF Directory!vars, Evidence, Welcomed
<1>5. CASE e \notin users
  <2>1. users' = users \cup {e} /\ verified' = verified \cup {e}
    BY <1>3, <1>5 DEF GoogleInsertUser
  <2>2. e \in Evidence
    BY <1>1, <1>3 DEF IndInv, Flows, Proof, Evidence
  <2>3. verified' = verified \cup ({e} \cap Evidence)
    BY <2>1, <2>2
  <2> QED
    BY <1>1, <1>2, <1>5, <2>1, <2>3 DEF Directory!Create, Evidence, Welcomed
<1> QED
  BY <1>4, <1>5

\* An identity is linked, once, to an account whose address is vouched for.
LEMMA GoogleLinkMaps ==
    ASSUME IndInv, NEW r \in Request, GoogleLink(r)
    PROVE  \/ UNCHANGED Directory!vars
           \/ \E i \in Subject, e \in Email : Directory!Link(i, e)
<1>1. /\ req[r].at \in {"link", "linkMark"}
      /\ UNCHANGED <<users, verified, session, token, mailbox, published, vouched>>
  BY DEF GoogleLink
<1>2. Evidence' = Evidence /\ Welcomed' = Welcomed
  BY <1>1 DEF Evidence, Welcomed, Created
<1>3. PICK e \in Email : e = req[r].email
  BY <1>1 DEF IndInv, Flows
<1>4. PICK i \in Subject : i = req[r].subject
  BY <1>1 DEF IndInv, Flows
<1>5. CASE identity[i] # Null
  <2>1. UNCHANGED identity
    BY <1>4, <1>5 DEF GoogleLink
  <2> QED
    BY <1>1, <1>2, <2>1 DEF Directory!vars, Evidence, Welcomed
<1>6. CASE identity[i] = Null
  <2>1. identity' = [identity EXCEPT ![i] = e]
    BY <1>3, <1>4, <1>6 DEF GoogleLink
  <2>2. e \in users \cap Evidence
    BY <1>1, <1>3 DEF IndInv, Flows, Proof, Evidence
  <2> QED
    BY <1>1, <1>2, <1>6, <2>1, <2>2 DEF Directory!Link, Evidence, Welcomed
<1> QED
  BY <1>5, <1>6

\* An address is marked on the evidence of the handler that marks it.
LEMMA MarkVerifiedMaps ==
    ASSUME IndInv, NEW r \in Request, MarkVerified(r)
    PROVE  \E e \in Email : Directory!Prove(e)
<1>1. /\ req[r].at = "markVerified" /\ verified' = verified \cup {req[r].email}
      /\ UNCHANGED <<users, identity, session, token, mailbox, published, vouched>>
  BY DEF MarkVerified
<1>2. Evidence' = Evidence /\ Welcomed' = Welcomed
  BY <1>1 DEF Evidence, Welcomed, Created
<1>3. PICK e \in Email : e = req[r].email
  BY <1>1 DEF IndInv, Flows
<1>4. e \in users \cap Evidence
  <2>1. e \in users /\ req[r].flow \in {"verify", "google"}
    BY <1>1, <1>3 DEF IndInv, Flows
  <2>2. e \in Evidence
    BY <1>1, <1>3, <2>1 DEF IndInv, Proof, Evidence
  <2> QED
    BY <2>1, <2>2
<1> QED
  BY <1>1, <1>2, <1>3, <1>4 DEF Directory!Prove, Evidence, Welcomed

\* A session is for an account that exists; one opened for a Google identity,
\* for the account that identity is linked to.
LEMMA InsertSessionMaps ==
    ASSUME IndInv, Entering, NEW r \in Request, InsertSession(r)
    PROVE  /\ \E e \in Email : Directory!Enter(r, e)
           /\ EntersAsLinked(r)
<1>1. /\ req[r].at = "insertSession" /\ session' = [session EXCEPT ![r] = req[r].email]
      /\ UNCHANGED <<users, verified, identity, token, mailbox, published, vouched>>
  BY DEF InsertSession
<1>2. Evidence' = Evidence /\ Welcomed' = Welcomed
  BY <1>1 DEF Evidence, Welcomed, Created
<1>3. PICK e \in Email : e = req[r].email
  BY <1>1 DEF IndInv, Flows
<1>4. session[r] = Null /\ e \in users
  BY <1>1, <1>3 DEF IndInv, Flows, Entering
<1>5. Directory!Enter(r, e)
  BY <1>1, <1>2, <1>3, <1>4 DEF Directory!Enter, Evidence, Welcomed
<1>6. EntersAsLinked(r)
  <2> SUFFICES ASSUME req[r].flow = "google"
               PROVE  Directory!EnterAs(r, req[r].subject)
    BY DEF EntersAsLinked
  <2>1. identity[req[r].subject] = e
    BY <1>1, <1>3 DEF Entering
  <2>2. identity[req[r].subject] # Null
    BY <2>1, NullAssumption
  <2> QED
    BY <1>1, <1>2, <1>3, <1>4, <2>1, <2>2
    DEF Directory!EnterAs, Directory!Enter, Evidence, Welcomed
<1> QED
  BY <1>5, <1>6

\* The handler that announces an account is the first to do so.
LEMMA PublishCreatedMaps ==
    ASSUME IndInv, NEW r \in Request,
           RegisterPublishCreated(r) \/ (GooglePublish(r) /\ req[r].isNew)
    PROVE  Directory!Welcome(req[r].email) /\ \E e \in Email : Directory!Welcome(e)
<1>1. /\ req[r].at \in {"publishCreated", "publishEvent"}
      /\ UNCHANGED <<users, verified, identity, session, token, mailbox, vouched>>
  BY DEF RegisterPublishCreated, GooglePublish, Publish, rows
<1>2. Evidence' = Evidence
  BY <1>1 DEF Evidence
<1>3. PICK e \in Email : e = req[r].email
  BY <1>1 DEF IndInv, Flows
<1>4. Announcing(r)
  BY DEF RegisterPublishCreated, GooglePublish, IndInv, Flows, Announcing
<1>5. e \in users \ Welcomed
  BY <1>1, <1>3, <1>4 DEF IndInv, Flows, Announcements, Welcomed, Created
<1>6. Welcomed' = Welcomed \cup {e}
  <2>1. PICK method \in {"password", "google"} :
           published' = published \cup
               {[type |-> "AccountCreated", method |-> method, account |-> e, by |-> r]}
    BY <1>3 DEF RegisterPublishCreated, GooglePublish, Publish
  <2> DEFINE event == [type |-> "AccountCreated", method |-> method, account |-> e, by |-> r]
  <2>2. published' = published \cup {event}
    BY <2>1
  <2>3. event.type = "AccountCreated" /\ event.account = e
    OBVIOUS
  <2> HIDE DEF event
  <2>4. \A a \in Email : Created(a)' # {} <=> Created(a) # {} \/ a = e
    BY <2>2, <2>3 DEF Created
  <2> QED
    BY <2>4, Zenon DEF Welcomed
<1> QED
  BY <1>1, <1>2, <1>3, <1>5, <1>6 DEF Directory!Welcome, Evidence, Welcomed

\* The other steps of a handler only add evidence.
LEMMA PlainStepMaps ==
    ASSUME IndInv, NEW r \in Request,
           \/ InsertToken(r) \/ PublishToken(r) \/ GoogleFindByEmail(r) \/ ConsumeToken(r)
           \/ AcquireCooldown(r) \/ (GooglePublish(r) /\ ~req[r].isNew)
    PROVE  Directory!GiveEvidence
<1>1. UNCHANGED <<users, verified, identity, session, vouched>> /\ mailbox \subseteq mailbox'
  BY DEF InsertToken, PublishToken, GoogleFindByEmail, ConsumeToken, AcquireCooldown,
     GooglePublish, rows
<1>2. Welcomed' = Welcomed
  <2>1. CASE UNCHANGED published
    BY <2>1 DEF Welcomed, Created
  <2>2. CASE GooglePublish(r) /\ ~req[r].isNew
    BY <2>2 DEF GooglePublish, Publish, Welcomed, Created
  <2> QED
    BY <2>1, <2>2 DEF InsertToken, PublishToken, GoogleFindByEmail, ConsumeToken, AcquireCooldown
<1>3. \A t \in mailbox : token[t].user \in Email /\ token[t].consumed =>
          token'[t].user = token[t].user /\ token'[t].consumed
  <2>1. CASE InsertToken(r)
    <3>1. token[r].user = Null
      BY <2>1 DEF InsertToken, IndInv, Proof
    <3>2. \A t \in Request \ {r} : token'[t] = token[t]
      BY <2>1 DEF InsertToken, IndInv, TypeOK
    <3> QED
      BY <3>1, <3>2, NullAssumption DEF IndInv, TypeOK
  <2>2. CASE ConsumeToken(r)
    BY <2>2 DEF ConsumeToken, IndInv, TypeOK, TokenRow
  <2>3. CASE UNCHANGED token
    BY <2>3
  <2> QED
    BY <2>1, <2>2, <2>3
    DEF PublishToken, GoogleFindByEmail, AcquireCooldown, GooglePublish, rows
<1> QED
  BY <1>1, <1>2, <1>3, EvidenceMaps

\* Every step is one of the directory or a stutter.
LEMMA NextMaps == IndInv /\ Entering /\ [Next]_vars => [Directory!Next]_(Directory!vars)
<1> SUFFICES ASSUME IndInv, Entering, [Next]_vars PROVE [Directory!Next]_(Directory!vars)
  OBVIOUS
<1>1. ASSUME NEW r \in Request, Handle(r) PROVE [Directory!Next]_(Directory!vars)
  <2>1. CASE RegisterPublishCreated(r) \/ (GooglePublish(r) /\ req[r].isNew)
    BY <2>1, PublishCreatedMaps DEF Directory!Next
  <2>2. CASE InsertSession(r)
    BY <2>2, InsertSessionMaps DEF Directory!Next
  <2>3. CASE GoogleInsertUser(r) \/ GoogleLink(r) \/ MarkVerified(r)
    BY <2>3, GoogleInsertUserMaps, GoogleLinkMaps, MarkVerifiedMaps DEF Directory!Next
  <2>4. CASE \/ InsertToken(r) \/ PublishToken(r) \/ GoogleFindByEmail(r) \/ ConsumeToken(r)
             \/ AcquireCooldown(r) \/ (GooglePublish(r) /\ ~req[r].isNew)
    BY <2>4, PlainStepMaps DEF Directory!Next
  <2> QED
    BY <1>1, <2>1, <2>2, <2>3, <2>4 DEF Handle
<1>2. ASSUME NEW r \in Request, NEW e \in Email, RegisterInsertUser(r, e)
      PROVE  [Directory!Next]_(Directory!vars)
  BY <1>2, RegisterInsertUserMaps DEF Directory!Next
<1>3. ASSUME UNCHANGED <<users, verified, identity, session, published, mailbox>>,
             vouched \subseteq vouched',
             \A t \in mailbox : /\ token'[t].user = token[t].user
                                /\ token'[t].consumed = token[t].consumed
      PROVE  [Directory!Next]_(Directory!vars)
  <2>1. Welcomed' = Welcomed
    BY <1>3 DEF Welcomed, Created
  <2> QED
    BY <1>3, <2>1, EvidenceMaps DEF Directory!Next
<1>4. ASSUME NEW r \in Request, Receive(r),
             \A e \in Email : ~RegisterInsertUser(r, e)
      PROVE  [Directory!Next]_(Directory!vars)
  BY <1>3, <1>4 DEF Receive, ResendFindUser, GoogleFindIdentity, VerifyFindToken, rows
<1>5. ASSUME NEW t \in Request, ExpireToken(t) PROVE [Directory!Next]_(Directory!vars)
  BY <1>3, <1>5 DEF ExpireToken, IndInv, TypeOK, TokenRow
<1>6. CASE \/ \E e \in Email : CooldownExpires(e)
           \/ \E R \in (SUBSET InFlight) \ {{}} : Fail(R)
           \/ UNCHANGED vars
  BY <1>3, <1>6 DEF CooldownExpires, Fail, vars, rows
<1> QED
  BY <1>1, <1>2, <1>4, <1>5, <1>6 DEF Next

\* Accounts are created, linked, verified, entered and announced as in the
\* directory, for any number of handlers, however their statements interleave
\* and whatever fails (AccountsAreADirectory).
THEOREM Refinement == Spec => AccountsAreADirectory
<1> DEFINE AsLinkedAndFirst == \A r \in Request : EntersAsLinked(r) /\ WelcomesFirst(r)
<1>1. Init => Directory!Init
  BY InitMaps
<1>2. IndInv /\ Entering /\ [Next]_vars => [Directory!Next]_(Directory!vars)
  BY NextMaps
<1>3. IndInv /\ Entering => [AsLinkedAndFirst]_vars
  BY InsertSessionMaps, PublishCreatedMaps DEF EntersAsLinked, WelcomesFirst
<1> QED
  BY <1>1, <1>2, <1>3, Invariance, EnteringHolds, PTL
  DEF Spec, AccountsAreADirectory, Directory!Spec

=============================================================================
