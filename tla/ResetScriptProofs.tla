------------------------- MODULE ResetScriptProofs -------------------------
(***************************************************************************)
(* Proofs about ResetScript, for any sets of users, rows and keys, any     *)
(* chunk and any number of failures.  The invariant says, for every step   *)
(* of the script, what of the old data is still to be deleted (it is in    *)
(* the scan, in its result or in the transaction) and what the             *)
(* verification would have seen had it not been written meanwhile.         *)
(***************************************************************************)
EXTENDS ResetScript, TLAPS

\* What the open transaction has deleted; deleting a user deletes its sessions.
TransactionInv ==
    /\ at \notin {"deleteUsers", "commit"} => tx = NoTransaction
    /\ at = "deleteUsers" => tx.users = {}
    /\ at = "commit" => \A r \in Sessions : session[r] \in tx.users => r \in tx.sessions

\* Where the old rows and keys still are.
Deleting == at \in {"deleteSessions", "deleteUsers", "commit", "unlink"}
OldKeys ==
    /\ at = "scan" => keys \subseteq written \cup toScan \cup found
    /\ Deleting => keys \subseteq written \cup found
    /\ Verifying => keys \subseteq written
OldRows ==
    /\ at \in {"deleteUsers", "commit"} => Sessions \subseteq written \cup tx.sessions
    /\ at = "commit" => users \subseteq written \cup tx.users
    /\ at = "unlink" \/ Verifying => users \cup Sessions \subseteq written

\* What the verification cannot have missed.
Seen ==
    /\ at \in {"countUsers", "rescan"} /\ ~remains => Sessions \subseteq fresh
    /\ at = "rescan" /\ ~remains => users \subseteq fresh /\ keys \subseteq fresh \cup toScan

\* Nobody deletes without consent.
Consented == at # "idle" /\ options.execute => Consent(options)
Committed == Deleting \/ Verifying => options.execute

IndInv ==
    /\ TypeOK
    /\ TransactionInv
    /\ OldKeys
    /\ OldRows
    /\ Seen
    /\ Consented
    /\ Committed
    /\ OldDataIsGone
    /\ CleanIsTrue
    /\ SessionsHaveUsers

-----------------------------------------------------------------------------
\* What the script holds when it does not run.
LEMMA DryRunTypes == DryRun \in Options /\ NoTransaction \in Transaction
<1>1. DryRun \in Options
  BY DEF DryRun, Options
<1>2. NoTransaction \in Transaction
  BY DEF NoTransaction, Transaction
<1> QED
  BY <1>1, <1>2

\* The invariant holds when the script is started.
LEMMA InitInv == Init => IndInv
<1> SUFFICES ASSUME Init PROVE IndInv
  OBVIOUS
<1> USE DEF Init
<1>1. TypeOK
  <2>1. DryRun \in Options /\ NoTransaction \in Transaction
    BY DryRunTypes
  <2>2. session \in [Row -> User \cup {Null}]
    OBVIOUS
  <2>3. 0 \in 0..MaxFailures
    BY MaxFailuresAssumption
  <2> QED
    BY <2>1, <2>2, <2>3 DEF TypeOK, Steps, Outcomes
<1>2. TransactionInv /\ OldKeys /\ OldRows /\ Seen /\ Consented /\ Committed
  BY DEF TransactionInv, OldKeys, OldRows, Seen, Consented, Committed, Deleting, Verifying
<1>3. OldDataIsGone /\ CleanIsTrue
  BY DEF OldDataIsGone, CleanIsTrue, Executed
<1>4. SessionsHaveUsers
  BY NullAssumption DEF SessionsHaveUsers, Sessions
<1> QED
  BY <1>1, <1>2, <1>3, <1>4 DEF IndInv

-----------------------------------------------------------------------------
(* The types *)

\* The service keeps the types.
LEMMA ServiceTypes ==
    ASSUME TypeOK, NEW r \in Row, Service(r)
    PROVE  TypeOK'
<1> USE DEF TypeOK, script, stores, history, Writes
<1>1. ASSUME NEW u \in User, Register(r, u) PROVE TypeOK'
  BY <1>1 DEF Register
<1>2. ASSUME NEW u \in User, FindUser(r, u) PROVE TypeOK'
  BY <1>2 DEF FindUser
<1>3. CASE InsertSession(r)
  BY <1>3 DEF InsertSession
<1>4. CASE InsertRefused(r)
  BY <1>4 DEF InsertRefused
<1> QED
  BY <1>1, <1>2, <1>3, <1>4 DEF Service

\* Writing and losing keys keeps the types.
LEMMA KeyTypes ==
    ASSUME TypeOK, NEW k \in Key, WriteKey(k) \/ KeyGoes(k)
    PROVE  TypeOK'
BY DEF TypeOK, script, history, Writes, WriteKey, KeyGoes

\* The script keeps the types.
LEMMA ScriptTypes ==
    ASSUME TypeOK, Proceed
    PROVE  TypeOK'
<1> USE DEF TypeOK, stores, history, Goto, Steps, Outcomes
<1>1. ASSUME NEW k \in Key, Scan(k) \/ Rescan(k) PROVE TypeOK'
  BY <1>1 DEF Scan, Rescan
<1>2. CASE EndDryRun
  BY <1>2 DEF EndDryRun
<1>3. CASE BeginTransaction
  BY <1>3 DEF BeginTransaction
<1>4. CASE DeleteSessions
  BY <1>4 DEF DeleteSessions, Transaction, Sessions
<1>5. CASE DeleteUsers
  BY <1>5 DEF DeleteUsers, Transaction, Sessions
<1>6. CASE Commit
  BY <1>6 DEF Commit, Transaction, NoTransaction
<1>7. CASE Unlink \/ BeginVerification
  BY <1>7 DEF Unlink, BeginVerification
<1>8. CASE CountSessions \/ CountUsers
  BY <1>8 DEF CountSessions, CountUsers
<1>9. CASE Report
  BY <1>9 DEF Report, Options, DryRun
<1> QED
  BY <1>1, <1>2, <1>3, <1>4, <1>5, <1>6, <1>7, <1>8, <1>9 DEF Proceed

\* Starting and failing keep the types.
LEMMA EndsTypes ==
    ASSUME TypeOK, (\E o \in Options : Refuse(o) \/ Begin(o)) \/ Fail
    PROVE  TypeOK'
<1> USE DEF TypeOK, stores, history, Goto, Steps, Outcomes
<1>1. ASSUME NEW o \in Options, Refuse(o) \/ Begin(o) PROVE TypeOK'
  BY <1>1 DEF Refuse, Begin
<1>2. CASE Fail
  <2>1. failures' \in 0..MaxFailures
    BY <1>2, MaxFailuresAssumption DEF Fail
  <2> QED
    BY <1>2, <2>1, DryRunTypes DEF Fail
<1> QED
  BY <1>1, <1>2

\* Every step keeps the types.
LEMMA NextTypes == TypeOK /\ [Next]_vars => TypeOK'
<1> SUFFICES ASSUME TypeOK, [Next]_vars PROVE TypeOK'
  OBVIOUS
<1>1. CASE UNCHANGED vars
  BY <1>1 DEF vars, stores, script, history, TypeOK
<1> QED
  BY <1>1, ServiceTypes, KeyTypes, ScriptTypes, EndsTypes DEF Next

-----------------------------------------------------------------------------
(* The service *)

\* What the service inserts is written, and fresh while the script verifies.
LEMMA RegisterInv ==
    ASSUME IndInv, NEW r \in Row, NEW u \in User, Register(r, u)
    PROVE  IndInv'
<1>1. TypeOK'
  BY ServiceTypes DEF Service, IndInv
<1>2. UNCHANGED <<script, session, keys>> /\ users' = users \cup {u} /\ Writes(u)
  BY DEF Register
<1>3. Sessions' = Sessions
  BY <1>2 DEF Sessions
<1> QED
  BY <1>1, <1>2, <1>3 DEF IndInv, script, Writes, TransactionInv, OldKeys, OldRows, Seen,
     Consented, Committed, Consent, Deleting, Verifying, Executed, Ended, OldDataIsGone,
     CleanIsTrue, Data, SessionsHaveUsers

\* Rows are inserted with a user that no transaction has deleted.
LEMMA InsertSessionInv ==
    ASSUME IndInv, NEW r \in Row, InsertSession(r)
    PROVE  IndInv'
<1>1. TypeOK'
  BY ServiceTypes DEF Service, IndInv
<1>2. /\ UNCHANGED <<script, users, keys>> /\ Writes(r)
      /\ session' = [session EXCEPT ![r] = handler[r]]
      /\ handler[r] \in users \ tx.users
  BY DEF InsertSession
<1>3. Sessions' = Sessions \cup {r}
  BY <1>2, NullAssumption DEF Sessions, IndInv, TypeOK
<1>4. \A q \in Sessions' : session'[q] = IF q = r THEN handler[r] ELSE session[q]
  BY <1>2, <1>3 DEF Sessions, IndInv, TypeOK
<1>5. TransactionInv' /\ SessionsHaveUsers'
  BY <1>2, <1>3, <1>4 DEF IndInv, script, TransactionInv, SessionsHaveUsers
<1>6. OldKeys' /\ OldRows' /\ Seen' /\ Consented' /\ Committed'
  BY <1>2, <1>3 DEF IndInv, script, Writes, OldKeys, OldRows, Seen, Consented, Committed,
     Consent, Deleting, Verifying, Executed, Ended
<1>7. OldDataIsGone' /\ CleanIsTrue'
  BY <1>2, <1>3 DEF IndInv, script, Writes, OldDataIsGone, CleanIsTrue, Data, Executed, Ended
<1> QED
  BY <1>1, <1>5, <1>6, <1>7 DEF IndInv

\* The other steps of handlers touch no store.
LEMMA HandlerInv ==
    ASSUME IndInv, TypeOK', UNCHANGED <<stores, script, history>>
    PROVE  IndInv'
<1>1. Sessions' = Sessions
  BY DEF Sessions, stores
<1> QED
  BY <1>1 DEF IndInv, stores, script, history, TransactionInv, OldKeys, OldRows, Seen,
     Consented, Committed, Consent, Deleting, Verifying, Executed, OldDataIsGone, CleanIsTrue, Data,
     SessionsHaveUsers

\* The service keeps the invariant.
LEMMA ServiceInv ==
    ASSUME IndInv, NEW r \in Row, Service(r)
    PROVE  IndInv'
<1>1. TypeOK'
  BY ServiceTypes DEF IndInv
<1>2. ASSUME NEW u \in User, FindUser(r, u) PROVE IndInv'
  BY <1>1, <1>2, HandlerInv DEF FindUser
<1>3. CASE InsertRefused(r)
  BY <1>1, <1>3, HandlerInv DEF InsertRefused
<1> QED
  BY <1>2, <1>3, RegisterInv, InsertSessionInv DEF Service

\* So do the keys that it writes and loses.
LEMMA KeyInv ==
    ASSUME IndInv, NEW k \in Key, WriteKey(k) \/ KeyGoes(k)
    PROVE  IndInv'
<1>1. TypeOK'
  BY KeyTypes DEF IndInv
<1>2. UNCHANGED <<script, users, session>>
  BY DEF WriteKey, KeyGoes
<1>3. Sessions' = Sessions
  BY <1>2 DEF Sessions
<1>4. (keys' = keys \cup {k} /\ Writes(k)) \/ (keys' \subseteq keys /\ UNCHANGED history)
  BY DEF WriteKey, KeyGoes
<1> QED
  BY <1>1, <1>2, <1>3, <1>4 DEF IndInv, script, history, Writes, TransactionInv, OldKeys,
     OldRows, Seen, Consented, Committed, Consent, Deleting, Verifying, Executed, Ended,
     OldDataIsGone, CleanIsTrue, Data, SessionsHaveUsers

-----------------------------------------------------------------------------
(* The script *)

\* Nothing is deleted by the steps that look.
LEMMA LookInv ==
    ASSUME IndInv,
           \/ \E k \in Key : Scan(k) \/ Rescan(k)
           \/ EndDryRun \/ BeginTransaction \/ BeginVerification
           \/ CountSessions \/ CountUsers \/ Report
    PROVE  IndInv'
<1>1. TypeOK'
  BY ScriptTypes DEF IndInv, Proceed
<1>2. UNCHANGED <<stores, tx>>
  BY DEF Scan, Rescan, EndDryRun, BeginTransaction, BeginVerification, CountSessions, CountUsers,
     Report
<1>3. Sessions' = Sessions /\ Data' = Data
  BY <1>2 DEF Sessions, Data, stores
<1> USE DEF IndInv, TransactionInv, OldKeys, OldRows, Seen, Consented, Committed, Consent,
    Deleting, Verifying, Executed, OldDataIsGone, CleanIsTrue, SessionsHaveUsers, stores,
    history, Goto
<1>4. ASSUME NEW k \in Key, Scan(k) PROVE IndInv'
  BY <1>1, <1>2, <1>3, <1>4 DEF Scan
<1>5. ASSUME NEW k \in Key, Rescan(k) PROVE IndInv'
  BY <1>1, <1>2, <1>3, <1>5 DEF Rescan
<1>6. CASE EndDryRun
  BY <1>1, <1>2, <1>3, <1>6 DEF EndDryRun
<1>7. CASE BeginTransaction
  BY <1>1, <1>2, <1>3, <1>7 DEF BeginTransaction
<1>8. CASE BeginVerification
  BY <1>1, <1>2, <1>3, <1>8 DEF BeginVerification
<1>9. CASE CountSessions
  BY <1>1, <1>2, <1>3, <1>9 DEF CountSessions
<1>10. CASE CountUsers
  BY <1>1, <1>2, <1>3, <1>10 DEF CountUsers, TypeOK
<1>11. CASE Report
  BY <1>1, <1>2, <1>3, <1>11 DEF Report, Data
<1> QED
  BY <1>4, <1>5, <1>6, <1>7, <1>8, <1>9, <1>10, <1>11

\* The transaction collects all rows that are older than it.
LEMMA DeleteInv ==
    ASSUME IndInv, DeleteSessions \/ DeleteUsers
    PROVE  IndInv'
<1>1. TypeOK'
  BY ScriptTypes DEF IndInv, Proceed
<1>2. UNCHANGED <<stores, options, toScan, found, remains, outcome, history>>
  BY DEF DeleteSessions, DeleteUsers
<1>3. Sessions' = Sessions /\ Data' = Data
  BY <1>2 DEF Sessions, Data, stores
<1> USE DEF IndInv, TransactionInv, OldKeys, OldRows, Seen, Consented, Committed, Consent,
    Deleting, Verifying, Executed, OldDataIsGone, CleanIsTrue, SessionsHaveUsers, stores,
    history, Goto
<1>4. CASE DeleteSessions
  <2>1. tx'.users = {} /\ tx'.sessions = Sessions
    BY <1>4 DEF DeleteSessions, NoTransaction
  <2> QED
    BY <1>1, <1>2, <1>3, <1>4, <2>1 DEF DeleteSessions
<1>5. CASE DeleteUsers
  <2>1. tx'.users = users /\ tx'.sessions = tx.sessions \cup Sessions
    BY <1>5 DEF DeleteUsers
  <2> QED
    BY <1>1, <1>2, <1>3, <1>5, <2>1 DEF DeleteUsers
<1> QED
  BY <1>4, <1>5

\* What a commit leaves of the tables.
LEMMA CommitLeaves ==
    ASSUME IndInv, Commit
    PROVE  /\ users' = users \ tx.users
           /\ Sessions' = Sessions \ tx.sessions
           /\ \A r \in Sessions' : session'[r] = session[r]
           /\ users' \cup Sessions' \subseteq written
<1>1. users' = users \ tx.users
  BY DEF Commit
<1>2. Sessions' = Sessions \ tx.sessions /\ \A r \in Sessions' : session'[r] = session[r]
  BY DEF Commit, Sessions, IndInv, TypeOK
<1>3. users \subseteq written \cup tx.users /\ Sessions \subseteq written \cup tx.sessions
  BY DEF Commit, IndInv, OldRows
<1> QED
  BY <1>1, <1>2, <1>3

\* COMMIT leaves the rows written since the run began, and each keeps its user.
LEMMA CommitInv ==
    ASSUME IndInv, Commit
    PROVE  IndInv'
<1>1. TypeOK'
  BY ScriptTypes DEF IndInv, Proceed
<1>2. /\ at = "commit" /\ at' = "unlink" /\ tx' = NoTransaction
      /\ UNCHANGED <<keys, options, toScan, found, remains, outcome, history>>
  BY DEF Commit, Goto
<1>3. SessionsHaveUsers'
  BY <1>2, CommitLeaves DEF IndInv, SessionsHaveUsers, TransactionInv
<1>4. TransactionInv' /\ OldKeys' /\ OldRows' /\ Seen' /\ Consented' /\ Committed'
  BY <1>2, CommitLeaves DEF IndInv, TransactionInv, OldKeys, OldRows, Seen, Consented, Committed,
     Consent, Deleting, Verifying, history
<1>5. OldDataIsGone' /\ CleanIsTrue'
  BY <1>2, CommitLeaves DEF IndInv, OldDataIsGone, CleanIsTrue, Data, Executed, history
<1> QED
  BY <1>1, <1>3, <1>4, <1>5 DEF IndInv

\* UNLINK shrinks the old keys and the scan's result alike.
LEMMA UnlinkInv ==
    ASSUME IndInv, Unlink
    PROVE  IndInv'
<1>1. TypeOK'
  BY ScriptTypes DEF IndInv, Proceed
<1>2. PICK C \in SUBSET found : keys' = keys \ C /\ found' = found \ C
  BY DEF Unlink
<1>3. /\ at = "unlink"
      /\ UNCHANGED <<users, session, at, options, toScan, tx, remains, outcome, history>>
  BY DEF Unlink
<1>4. Sessions' = Sessions
  BY <1>3 DEF Sessions
<1> QED
  BY <1>1, <1>2, <1>3, <1>4 DEF IndInv, TransactionInv, OldKeys, OldRows, Seen, Consented,
     Committed, Consent, Deleting, Verifying, Executed, OldDataIsGone, CleanIsTrue, Data,
     SessionsHaveUsers, history

\* A run begins with everything in the scan, and a failure ends it with nothing done.
LEMMA EndsInv ==
    ASSUME IndInv, (\E o \in Options : Refuse(o) \/ Begin(o)) \/ Fail
    PROVE  IndInv'
<1>1. TypeOK'
  BY EndsTypes DEF IndInv
<1>2. UNCHANGED stores
  BY DEF Refuse, Begin, Fail
<1>3. Sessions' = Sessions
  BY <1>2 DEF Sessions, stores
<1> USE DEF IndInv, TransactionInv, OldKeys, OldRows, Seen, Consented, Committed, Consent,
    Deleting, Verifying, Executed, Ended, OldDataIsGone, CleanIsTrue, SessionsHaveUsers,
    stores, Goto
<1>4. ASSUME NEW o \in Options, Refuse(o) PROVE IndInv'
  BY <1>1, <1>2, <1>3, <1>4 DEF Refuse
<1>5. ASSUME NEW o \in Options, Begin(o) PROVE IndInv'
  BY <1>1, <1>2, <1>3, <1>5 DEF Begin, TypeOK
<1>6. CASE Fail
  BY <1>1, <1>2, <1>3, <1>6 DEF Fail
<1> QED
  BY <1>4, <1>5, <1>6

\* Every step keeps the invariant.
LEMMA NextInv == IndInv /\ [Next]_vars => IndInv'
<1> SUFFICES ASSUME IndInv, [Next]_vars PROVE IndInv'
  OBVIOUS
<1>1. CASE UNCHANGED vars
  BY <1>1, HandlerInv, NextTypes DEF vars, IndInv
<1>2. CASE Proceed
  BY <1>2, LookInv, DeleteInv, CommitInv, UnlinkInv DEF Proceed
<1> QED
  BY <1>1, <1>2, ServiceInv, KeyInv, EndsInv DEF Next

\* The invariant holds throughout.
THEOREM Invariance == Spec => []IndInv
BY InitInv, NextInv, PTL DEF Spec

-----------------------------------------------------------------------------
\* Every variable keeps its type.
THEOREM TypeCorrect == Spec => []TypeOK
<1>1. IndInv => TypeOK
  BY DEF IndInv
<1> QED
  BY <1>1, Invariance, PTL

\* A run that was carried out leaves only what the service has written since it began.
THEOREM OldDataGone == Spec => []OldDataIsGone
<1>1. IndInv => OldDataIsGone
  BY DEF IndInv
<1> QED
  BY <1>1, Invariance, PTL

\* verifiedClean says what it says, although rows and keys are looked at one by one.
THEOREM CleanTrue == Spec => []CleanIsTrue
<1>1. IndInv => CleanIsTrue
  BY DEF IndInv
<1> QED
  BY <1>1, Invariance, PTL

\* No sessions row outlives its user.
THEOREM NoOrphans == Spec => []SessionsHaveUsers
<1>1. IndInv => SessionsHaveUsers
  BY DEF IndInv
<1> QED
  BY <1>1, Invariance, PTL

-----------------------------------------------------------------------------
\* The service's inserts take no row away.
LEMMA ServiceKeepsRows ==
    ASSUME TypeOK, NEW r \in Row, Service(r)
    PROVE  users \subseteq users' /\ Sessions \subseteq Sessions'
<1>1. ASSUME NEW u \in User, Register(r, u) \/ FindUser(r, u)
      PROVE  users \subseteq users' /\ Sessions \subseteq Sessions'
  BY <1>1 DEF Register, FindUser, stores, Sessions
<1>2. CASE InsertSession(r)
  BY <1>2, NullAssumption DEF InsertSession, TypeOK, Sessions
<1>3. CASE InsertRefused(r)
  BY <1>3 DEF InsertRefused, stores, Sessions
<1> QED
  BY <1>1, <1>2, <1>3 DEF Service

\* Only COMMIT deletes rows.
LEMMA OnlyCommitDeletes ==
    ASSUME TypeOK, [Next]_vars, ~Commit
    PROVE  users \subseteq users' /\ Sessions \subseteq Sessions'
<1>1. ASSUME users' = users, session' = session
      PROVE  users \subseteq users' /\ Sessions \subseteq Sessions'
  BY <1>1 DEF Sessions
<1>2. CASE UNCHANGED vars
  BY <1>1, <1>2 DEF vars, stores
<1>3. ASSUME NEW k \in Key, WriteKey(k) \/ KeyGoes(k) PROVE users' = users /\ session' = session
  BY <1>3 DEF WriteKey, KeyGoes
<1>4. ASSUME NEW o \in Options, Refuse(o) \/ Begin(o) PROVE users' = users /\ session' = session
  BY <1>4 DEF Refuse, Begin, stores
<1>5. CASE Proceed
  BY <1>1, <1>5 DEF Proceed, Scan, Rescan, EndDryRun, BeginTransaction, DeleteSessions, DeleteUsers,
     Unlink, BeginVerification, CountSessions, CountUsers, Report, stores
<1>6. CASE Fail
  BY <1>1, <1>6 DEF Fail, stores
<1> QED
  BY <1>1, <1>2, <1>3, <1>4, <1>5, <1>6, ServiceKeepsRows DEF Next

\* Rows vanish with consent only, and all the old ones in one step.
THEOREM OneTransaction == Spec => RowsVanishTogether
<1>1. IndInv /\ [Next]_vars =>
        \/ users \subseteq users' /\ Sessions \subseteq Sessions'
        \/ /\ options.execute /\ options.confirmed /\ (options.production => options.override)
           /\ users' \cup Sessions' \subseteq written
  <2> SUFFICES ASSUME IndInv, [Next]_vars
               PROVE  \/ users \subseteq users' /\ Sessions \subseteq Sessions'
                      \/ /\ options.execute /\ options.confirmed
                         /\ options.production => options.override
                         /\ users' \cup Sessions' \subseteq written
    OBVIOUS
  <2>1. CASE Commit
    <3>1. Consent(options)
      BY <2>1 DEF Commit, IndInv, Consented, Committed, Deleting
    <3> QED
      BY <2>1, <3>1, CommitLeaves DEF Consent
  <2>2. CASE ~Commit
    BY <2>2, OnlyCommitDeletes DEF IndInv
  <2> QED
    BY <2>1, <2>2
<1> QED
  BY <1>1, Invariance, PTL DEF Spec, RowsVanishTogether

-----------------------------------------------------------------------------
(* What HandlersGoOn rests on: a handler waits for a transaction that is     *)
(* about to end, and for one end of it only.                                 *)

HandlersHaveUsers == \A r \in Row : handler[r] \in users \cup {Null, Gone}
NobodyWaitsInVain ==
    \A r \in Row : handler[r] # Null =>
        handler[r] \in users \ tx.users \/ handler[r] = Gone \/ at = "commit"

\* A handler that has a user can go on with it, or is told that it is gone, or waits
\* for the COMMIT that the script has come to (resetAuthDataCore.ts:118-135).
THEOREM WaitersHaveACommit == Spec => []NobodyWaitsInVain
<1>1. Init => HandlersHaveUsers
  BY DEF Init, HandlersHaveUsers
<1>2. TypeOK /\ HandlersHaveUsers /\ [Next]_vars => HandlersHaveUsers'
  <2> SUFFICES ASSUME TypeOK, HandlersHaveUsers, [Next]_vars PROVE HandlersHaveUsers'
    OBVIOUS
  <2>1. CASE Commit
    BY <2>1 DEF Commit, HandlersHaveUsers, TypeOK
  <2>2. ASSUME NEW r \in Row, Service(r) PROVE HandlersHaveUsers'
    BY <2>2 DEF Service, Register, FindUser, InsertSession, InsertRefused, stores,
       HandlersHaveUsers, TypeOK
  <2>3. ASSUME users' = users, handler' = handler PROVE HandlersHaveUsers'
    BY <2>3 DEF HandlersHaveUsers
  <2>4. ASSUME NEW k \in Key, WriteKey(k) \/ KeyGoes(k) PROVE HandlersHaveUsers'
    BY <2>3, <2>4 DEF WriteKey, KeyGoes
  <2>5. ASSUME NEW o \in Options, Refuse(o) \/ Begin(o) PROVE HandlersHaveUsers'
    BY <2>3, <2>5 DEF Refuse, Begin, stores
  <2>6. CASE Fail \/ UNCHANGED vars
    BY <2>3, <2>6 DEF Fail, vars, stores
  <2>7. CASE Proceed /\ ~Commit
    BY <2>3, <2>7 DEF Proceed, Scan, Rescan, EndDryRun, BeginTransaction, DeleteSessions,
       DeleteUsers, Unlink, BeginVerification, CountSessions, CountUsers, Report, stores
  <2> QED
    BY <2>1, <2>2, <2>4, <2>5, <2>6, <2>7 DEF Next
<1>3. IndInv /\ HandlersHaveUsers => NobodyWaitsInVain
  <2> SUFFICES ASSUME IndInv, HandlersHaveUsers, at # "commit", NEW r \in Row,
                      handler[r] # Null
               PROVE  handler[r] \in users \ tx.users \/ handler[r] = Gone
    BY DEF NobodyWaitsInVain
  <2>1. tx.users = {}
    BY DEF IndInv, TransactionInv, NoTransaction
  <2> QED
    BY <2>1 DEF HandlersHaveUsers
<1>4. IndInv => TypeOK
  BY DEF IndInv
<1> QED
  BY <1>1, <1>2, <1>3, <1>4, Invariance, PTL DEF Spec

\* The next step of the script ends the wait: COMMIT tells the handler that its user
\* is gone, a rollback gives it back.  Nothing else moves it.
THEOREM WaitsAreForOneTransaction ==
    Spec => [][\A r \in Row : handler[r] \in tx.users =>
                  \/ handler'[r] = handler[r] /\ UNCHANGED <<at, tx>>
                  \/ handler'[r] = Gone
                  \/ handler'[r] = handler[r] /\ tx'.users = {}]_vars
<1>1. IndInv /\ [Next]_vars =>
        [\A r \in Row : handler[r] \in tx.users =>
            \/ handler'[r] = handler[r] /\ UNCHANGED <<at, tx>>
            \/ handler'[r] = Gone
            \/ handler'[r] = handler[r] /\ tx'.users = {}]_vars
  <2> SUFFICES ASSUME IndInv, Next, NEW r \in Row, handler[r] \in tx.users
               PROVE  \/ handler'[r] = handler[r] /\ UNCHANGED <<at, tx>>
                      \/ handler'[r] = Gone
                      \/ handler'[r] = handler[r] /\ tx'.users = {}
    OBVIOUS
  <2>1. at = "commit" /\ handler[r] \in User
    BY DEF IndInv, TransactionInv, NoTransaction, TypeOK, Transaction
  <2>2. CASE Commit
    BY <2>2 DEF Commit
  <2>3. CASE Fail
    BY <2>3 DEF Fail, NoTransaction
  <2>4. ASSUME NEW q \in Row, Service(q) PROVE handler'[r] = handler[r] /\ UNCHANGED script
    <3>1. q # r
      BY <2>1, <2>4, NullAssumption DEF Service, Register, FindUser, InsertSession, InsertRefused
    <3> QED
      BY <2>4, <3>1 DEF Service, Register, FindUser, InsertSession, InsertRefused, IndInv, TypeOK
  <2>5. ASSUME NEW k \in Key, WriteKey(k) \/ KeyGoes(k) PROVE UNCHANGED <<handler, script>>
    BY <2>5 DEF WriteKey, KeyGoes
  <2>6. ~(\E o \in Options : Refuse(o) \/ Begin(o))
    BY <2>1 DEF Refuse, Begin, Ended
  <2>7. Proceed => Commit
    BY <2>1 DEF Proceed, Scan, Rescan, EndDryRun, BeginTransaction, DeleteSessions, DeleteUsers,
       Unlink, BeginVerification, CountSessions, CountUsers, Report
  <2> QED
    BY <2>2, <2>3, <2>4, <2>5, <2>6, <2>7 DEF Next, script
<1> QED
  BY <1>1, Invariance, PTL DEF Spec

=============================================================================
