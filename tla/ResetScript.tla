---------------------------- MODULE ResetScript ----------------------------
(***************************************************************************)
(* scripts/reset-auth-data.ts against a service that goes on serving.  The *)
(* script scans Redis, deletes all rows in one transaction (children       *)
(* first), unlinks the keys the scan found, and then counts and scans      *)
(* again to see what is left.  Each statement and each Redis command is    *)
(* atomic; the service inserts rows and writes keys between any two.       *)
(*                                                                         *)
(* "sessions" stands for every table with a user_id that references users  *)
(* ON DELETE CASCADE.  A key is a name under one of the four prefixes.     *)
(***************************************************************************)
EXTENDS Integers, FiniteSets

CONSTANTS
    User,        \* users rows, by their address
    Row,         \* sessions rows, and the handlers that insert them
    Key,         \* Redis keys under the prefixes of the service
    Null,        \* no row, no user
    Gone,        \* the id of a users row that has been deleted
    Chunk,       \* keys per UNLINK command
    MaxFailures  \* bound: how many failures may happen

ASSUME NullAssumption == Null \notin User /\ Gone \notin User \cup {Null}
ASSUME ChunkAssumption == Chunk \in Nat \ {0}
ASSUME MaxFailuresAssumption == MaxFailures \in Nat

VARIABLES
    users,     \* users rows, committed
    session,   \* sessions rows, committed: the user each references
    keys,      \* Redis keys
    handler,   \* the user each handler has found or inserted
    at,        \* where the script is
    options,   \* its arguments and environment
    toScan,    \* keys that a scan in progress has not come by
    found,     \* keys it has found and not unlinked
    tx,        \* rows its open transaction has deleted
    remains,   \* whether the verification has seen a row or a key
    outcome,   \* what the script reported last
    failures,  \* failures so far
    written,   \* history: what the service has written since the script began
    fresh      \* history: what it has written since the verification began

stores == <<users, session, keys>>
script == <<at, options, toScan, found, tx, remains, outcome>>
history == <<written, fresh>>
vars == <<stores, handler, script, failures, history>>

\* A dry run looks at none of the other options.
Options == {o \in [execute : BOOLEAN, confirmed : BOOLEAN,
                   production : BOOLEAN, override : BOOLEAN] :
                ~o.execute => ~o.confirmed /\ ~o.production /\ ~o.override}
DryRun == [execute |-> FALSE, confirmed |-> FALSE, production |-> FALSE, override |-> FALSE]
Steps == {"idle", "scan", "deleteSessions", "deleteUsers", "commit", "unlink",
          "countSessions", "countUsers", "rescan"}
Outcomes == {"none", "refused", "dryRun", "error", "clean", "dirty"}
Transaction == [users : SUBSET User, sessions : SUBSET Row]

NoTransaction == [users |-> {}, sessions |-> {}]
Sessions == {r \in Row : session[r] # Null}

Init ==
    /\ users \in SUBSET User
    /\ session \in [Row -> users \cup {Null}]
    /\ keys \in SUBSET Key
    /\ handler = [r \in Row |-> Null]
    /\ at = "idle"
    /\ options = DryRun
    /\ toScan = {}
    /\ found = {}
    /\ tx = NoTransaction
    /\ remains = FALSE
    /\ outcome = "none"
    /\ failures = 0
    /\ written = {}
    /\ fresh = {}

Goto(step) == at' = step
Ended == at = "idle"

-----------------------------------------------------------------------------
(* The service *)

\* What is written while the script runs, or after it has reported; and what is
\* written while it verifies, or after it has reported.
Executed == outcome \in {"clean", "dirty"}
Verifying == at \in {"countSessions", "countUsers", "rescan"}
Writes(x) ==
    /\ written' = IF Ended /\ ~Executed THEN written ELSE written \cup {x}
    /\ fresh' = IF Verifying \/ outcome = "clean" THEN fresh \cup {x} ELSE fresh

\* A registration inserts a users row and goes on with it.
Register(r, u) ==
    /\ handler[r] = Null
    /\ session[r] = Null
    /\ u \notin users
    /\ users' = users \cup {u}
    /\ handler' = [handler EXCEPT ![r] = u]
    /\ Writes(u)
    /\ UNCHANGED <<session, keys, script, failures>>

\* A login finds the row; what a transaction has deleted and not committed is
\* still found.
FindUser(r, u) ==
    /\ handler[r] = Null
    /\ session[r] = Null
    /\ u \in users
    /\ handler' = [handler EXCEPT ![r] = u]
    /\ UNCHANGED <<stores, script, failures, history>>

\* The foreign key makes the INSERT wait while an open transaction has deleted
\* the users row.
InsertSession(r) ==
    /\ handler[r] \in users \ tx.users
    /\ session' = [session EXCEPT ![r] = handler[r]]
    /\ handler' = [handler EXCEPT ![r] = Null]
    /\ Writes(r)
    /\ UNCHANGED <<users, keys, script, failures>>

\* The row is gone: the foreign key is violated, the client gets a 500.
InsertRefused(r) ==
    /\ handler[r] = Gone
    /\ handler' = [handler EXCEPT ![r] = Null]
    /\ UNCHANGED <<stores, script, failures, history>>

\* Every request counts against its rate limits first, many set a cooldown, an
\* OTP challenge or an OAuth state.
WriteKey(k) ==
    /\ keys' = keys \cup {k}
    /\ Writes(k)
    /\ UNCHANGED <<users, session, handler, script, failures>>

\* A key expires, or the service deletes it.
KeyGoes(k) ==
    /\ k \in keys
    /\ keys' = keys \ {k}
    /\ UNCHANGED <<users, session, handler, script, failures, history>>

-----------------------------------------------------------------------------
(* The script *)

\* What it takes to delete anything.
Consent(o) == o.execute /\ o.confirmed /\ (o.production => o.override)

Refuse(o) ==
    /\ Ended
    /\ o.execute /\ ~Consent(o)
    /\ outcome' = "refused"
    /\ written' = {}
    /\ fresh' = {}
    /\ UNCHANGED <<stores, handler, at, options, toScan, found, tx, remains, failures>>

\* Tables and rows are listed and counted for the report only.
Begin(o) ==
    /\ Ended
    /\ o.execute => Consent(o)
    /\ options' = o
    /\ outcome' = "none"
    /\ Goto("scan")
    /\ toScan' = Key
    /\ found' = {}
    /\ remains' = FALSE
    /\ written' = {}
    /\ fresh' = {}
    /\ UNCHANGED <<stores, handler, tx, failures>>

\* SCAN comes by every key that exists throughout, and by any key at a moment of
\* its own: one written meanwhile may be found or missed.
Scan(k) ==
    /\ at = "scan"
    /\ k \in toScan
    /\ toScan' = toScan \ {k}
    /\ found' = IF k \in keys THEN found \cup {k} ELSE found
    /\ UNCHANGED <<stores, handler, at, options, tx, remains, outcome, failures, history>>

EndDryRun ==
    /\ at = "scan"
    /\ toScan = {}
    /\ ~options.execute
    /\ Goto("idle")
    /\ outcome' = "dryRun"
    /\ found' = {}
    /\ written' = {}
    /\ UNCHANGED <<stores, handler, options, toScan, tx, remains, failures, fresh>>

\* BEGIN
BeginTransaction ==
    /\ at = "scan"
    /\ toScan = {}
    /\ options.execute
    /\ Goto("deleteSessions")
    /\ UNCHANGED <<stores, handler, options, toScan, found, tx, remains, outcome,
                   failures, history>>

\* DELETE FROM each child table: the rows committed by now.
DeleteSessions ==
    /\ at = "deleteSessions"
    /\ tx' = [tx EXCEPT !.sessions = Sessions]
    /\ Goto("deleteUsers")
    /\ UNCHANGED <<stores, handler, options, toScan, found, remains, outcome,
                   failures, history>>

\* Mutant of DeleteUsers: the foreign keys are missing.
DeleteUsersOnly ==
    /\ at = "deleteUsers"
    /\ tx' = [tx EXCEPT !.users = users]
    /\ Goto("commit")
    /\ UNCHANGED <<stores, handler, options, toScan, found, remains, outcome,
                   failures, history>>

\* DELETE FROM users, and by ON DELETE CASCADE the child rows inserted since.
DeleteUsers ==
    /\ at = "deleteUsers"
    /\ tx' = [users |-> users, sessions |-> tx.sessions \cup Sessions]
    /\ Goto("commit")
    /\ UNCHANGED <<stores, handler, options, toScan, found, remains, outcome,
                   failures, history>>

\* COMMIT
Commit ==
    /\ at = "commit"
    /\ users' = users \ tx.users
    /\ session' = [r \in Row |-> IF r \in tx.sessions THEN Null ELSE session[r]]
    /\ handler' = [r \in Row |-> IF handler[r] \in tx.users THEN Gone ELSE handler[r]]
    /\ tx' = NoTransaction
    /\ Goto("unlink")
    /\ UNCHANGED <<keys, options, toScan, found, remains, outcome,
                   failures, history>>

\* Mutant of Unlink: only the first chunk is unlinked.
UnlinkOnce ==
    /\ at = "unlink"
    /\ \E C \in SUBSET found :
        /\ C # {}
        /\ Cardinality(C) <= Chunk
        /\ keys' = keys \ C
    /\ found' = {}
    /\ UNCHANGED <<users, session, handler, at, options, toScan, tx, remains, outcome,
                   failures, history>>

\* UNLINK of a chunk of what the scan found before the rows were deleted.
Unlink ==
    /\ at = "unlink"
    /\ \E C \in SUBSET found :
        /\ C # {}
        /\ Cardinality(C) <= Chunk
        /\ keys' = keys \ C
        /\ found' = found \ C
    /\ UNCHANGED <<users, session, handler, at, options, toScan, tx, remains, outcome,
                   failures, history>>

\* The counts and the second scan begin.
BeginVerification ==
    /\ at = "unlink"
    /\ found = {}
    /\ Goto("countSessions")
    /\ UNCHANGED <<stores, handler, options, toScan, found, tx, remains, outcome,
                   failures, history>>

CountSessions ==
    /\ at = "countSessions"
    /\ remains' = (remains \/ Sessions # {})
    /\ Goto("countUsers")
    /\ UNCHANGED <<stores, handler, options, toScan, found, tx, outcome, failures, history>>

CountUsers ==
    /\ at = "countUsers"
    /\ remains' = (remains \/ users # {})
    /\ Goto("rescan")
    /\ toScan' = Key
    /\ UNCHANGED <<stores, handler, options, found, tx, outcome, failures, history>>

\* Mutant of Rescan: it looks at the keys found before.
RescanBefore(k) ==
    /\ at = "rescan"
    /\ k \in toScan
    /\ toScan' = toScan \ {k}
    /\ remains' = (remains \/ k \in found)
    /\ UNCHANGED <<stores, handler, at, options, found, tx, outcome, failures, history>>

Rescan(k) ==
    /\ at = "rescan"
    /\ k \in toScan
    /\ toScan' = toScan \ {k}
    /\ remains' = (remains \/ k \in keys)
    /\ UNCHANGED <<stores, handler, at, options, found, tx, outcome, failures, history>>

\* verifiedClean; the exit code is 1 unless it is true.
Report ==
    /\ at = "rescan"
    /\ toScan = {}
    /\ Goto("idle")
    /\ outcome' = IF remains THEN "dirty" ELSE "clean"
    /\ options' = DryRun
    /\ remains' = FALSE
    /\ fresh' = IF remains THEN {} ELSE fresh
    /\ UNCHANGED <<stores, handler, toScan, found, tx, failures, written>>

\* Mutant of Fail: the deletions so far are kept, as without BEGIN.
FailKeepsDeletions ==
    /\ ~Ended
    /\ failures < MaxFailures
    /\ failures' = failures + 1
    /\ users' = users \ tx.users
    /\ session' = [r \in Row |-> IF r \in tx.sessions THEN Null ELSE session[r]]
    /\ Goto("idle")
    /\ outcome' = "error"
    /\ toScan' = {}
    /\ found' = {}
    /\ tx' = NoTransaction
    /\ options' = DryRun
    /\ remains' = FALSE
    /\ written' = {}
    /\ fresh' = {}
    /\ UNCHANGED <<keys, handler>>

\* Mutant of Fail: neither ROLLBACK nor the end of the connection.
FailInTransaction ==
    /\ ~Ended
    /\ failures < MaxFailures
    /\ failures' = failures + 1
    /\ Goto("idle")
    /\ outcome' = "error"
    /\ toScan' = {}
    /\ found' = {}
    /\ options' = DryRun
    /\ remains' = FALSE
    /\ written' = {}
    /\ fresh' = {}
    /\ UNCHANGED <<stores, handler, tx>>

\* A statement or command fails or the script dies: an open transaction is rolled
\* back, and nobody takes up what is left.
Fail ==
    /\ ~Ended
    /\ failures < MaxFailures
    /\ failures' = failures + 1
    /\ Goto("idle")
    /\ outcome' = "error"
    /\ toScan' = {}
    /\ found' = {}
    /\ tx' = NoTransaction
    /\ options' = DryRun
    /\ remains' = FALSE
    /\ written' = {}
    /\ fresh' = {}
    /\ UNCHANGED <<stores, handler>>

-----------------------------------------------------------------------------
Proceed ==
    \/ \E k \in Key : Scan(k) \/ Rescan(k)
    \/ EndDryRun
    \/ BeginTransaction
    \/ DeleteSessions
    \/ DeleteUsers
    \/ Commit
    \/ Unlink
    \/ BeginVerification
    \/ CountSessions
    \/ CountUsers
    \/ Report

Service(r) ==
    \/ \E u \in User : Register(r, u) \/ FindUser(r, u)
    \/ InsertSession(r)
    \/ InsertRefused(r)

Next ==
    \/ \E r \in Row : Service(r)
    \/ \E k \in Key : WriteKey(k) \/ KeyGoes(k)
    \/ \E o \in Options : Refuse(o) \/ Begin(o)
    \/ Proceed
    \/ Fail

Spec == Init /\ [][Next]_vars

\* Both stores answer: the script goes on, and so does a handler whose INSERT is
\* not waiting for the script's transaction.
FairSpec ==
    /\ Spec
    /\ WF_vars(Proceed)
    /\ \A r \in Row : WF_vars(InsertSession(r) \/ InsertRefused(r))

-----------------------------------------------------------------------------
TypeOK ==
    /\ users \subseteq User
    /\ session \in [Row -> User \cup {Null}]
    /\ keys \subseteq Key
    /\ handler \in [Row -> User \cup {Null, Gone}]
    /\ at \in Steps
    /\ options \in Options
    /\ toScan \subseteq Key
    /\ found \subseteq Key
    /\ tx \in Transaction
    /\ remains \in BOOLEAN
    /\ outcome \in Outcomes
    /\ failures \in 0..MaxFailures
    /\ written \subseteq User \cup Row \cup Key
    /\ fresh \subseteq User \cup Row \cup Key

Data == users \cup Sessions \cup keys

\* A run that was carried out leaves nothing that it found or could have found:
\* what is in the stores when it reports was written by the service since the run
\* began, and that holds after runs that were cut off (resetAuthDataCore.ts:151-191).
OldDataIsGone == Executed => Data \subseteq written

\* verifiedClean is true: whatever is there was written after the verification had
\* begun, although rows and keys are looked at one after the other
\* (resetAuthDataCore.ts:175-189, README.md:614-616).
CleanIsTrue == outcome = "clean" => Data \subseteq fresh

\* A sessions row never outlives its user, although the deletions and the inserts of
\* the service interleave (0001_init.sql:46, resetAuthDataCore.ts:118-134).
SessionsHaveUsers == \A r \in Sessions : session[r] \in users

\* Rows vanish only if --execute was confirmed and, in production, overridden, and
\* then all that are older than the run vanish in one step: "any failure rolls back
\* everything" (README.md:599-607, resetAuthDataCore.ts:118-158).
RowsVanishTogether ==
    [][\/ users \subseteq users' /\ Sessions \subseteq Sessions'
       \/ /\ options.execute /\ options.confirmed /\ (options.production => options.override)
          /\ users' \cup Sessions' \subseteq written]_vars

\* No request waits for the script's transaction for ever: it is committed or
\* rolled back even if the script fails (resetAuthDataCore.ts:118-135).
HandlersGoOn == \A r \in Row : handler[r] # Null ~> handler[r] = Null

=============================================================================
