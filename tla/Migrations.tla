----------------------------- MODULE Migrations -----------------------------
(***************************************************************************)
(* scripts/migrate.ts, run by several pipelines or people at once.  A run  *)
(* makes sure that schema_migrations exists, reads it once, outside any    *)
(* transaction, and then gives the database each file that it did not find *)
(* there: BEGIN, the file, an INSERT of its name, COMMIT.  What keeps two  *)
(* runs apart is Postgres alone: a transaction that inserts a name, or     *)
(* creates an object, which another open transaction has inserted or       *)
(* created waits for it, and fails if it commits.                          *)
(***************************************************************************)
EXTENDS Integers, FiniteSets

CONSTANTS
    Run,          \* runs of the script
    Files,        \* files are 1..Files, in the order of their names
    Creates,      \* files that create objects: a second application is refused
    MaxFailures   \* bound: how many failures may happen

ASSUME FilesAssumption == Files \in Nat
ASSUME CreatesAssumption == Creates \subseteq 1..Files
ASSUME MaxFailuresAssumption == MaxFailures \in Nat

VARIABLES
    table,     \* schema_migrations exists
    recorded,  \* its rows, committed
    times,     \* how often each file's statements have been committed
    run,       \* where each run is
    found,     \* the rows it read
    file,      \* the file it is at
    failures   \* failures so far

database == <<table, recorded, times>>
vars == <<database, run, found, file, failures>>

File == 1..Files
Applied == {f \in File : times[f] > 0}

\* In a transaction a run has executed the file ("insert" is next) or the INSERT
\* too ("commit" is next).
InTransaction == {"execute", "insert", "commit"}
Step == {"idle", "create", "read", "next"} \cup InTransaction \cup {"failed", "upToDate"}

\* The database may be new, or have been given some of the files before.
Init ==
    /\ \E n \in 0..Files :
        /\ times = [f \in File |-> IF f <= n THEN 1 ELSE 0]
        /\ recorded = 1..n
        /\ table \in IF n = 0 THEN BOOLEAN ELSE {TRUE}
    /\ run = [r \in Run |-> "idle"]
    /\ found = [r \in Run |-> {}]
    /\ file = [r \in Run |-> 0]
    /\ failures = 0

Goto(r, step) == run' = [run EXCEPT ![r] = step]

\* Other open transactions that have executed f, and that have recorded it.
Executing(f, r) == {q \in Run \ {r} : run[q] \in {"insert", "commit"} /\ file[q] = f}
Recording(f, r) == {q \in Run \ {r} : run[q] = "commit" /\ file[q] = f}

-----------------------------------------------------------------------------
\* The script is started, again if it has ended; client.connect succeeds.
Begin(r) ==
    /\ run[r] \in {"idle", "failed", "upToDate"}
    /\ run' = [run EXCEPT ![r] = "create"]
    /\ found' = [found EXCEPT ![r] = {}]
    /\ file' = [file EXCEPT ![r] = 0]
    /\ UNCHANGED <<database, failures>>

\* CREATE TABLE IF NOT EXISTS schema_migrations.  Postgres may refuse one of two
\* that run at the same moment: that is Fail.
CreateTable(r) ==
    /\ run[r] = "create"
    /\ table' = TRUE
    /\ Goto(r, "read")
    /\ UNCHANGED <<recorded, times, found, file, failures>>

\* SELECT id FROM schema_migrations
ReadApplied(r) ==
    /\ run[r] = "read"
    /\ found' = [found EXCEPT ![r] = recorded]
    /\ Goto(r, "next")
    /\ UNCHANGED <<database, file, failures>>

\* The files that are left, in order.
Pending(r) == {f \in File : f > file[r] /\ f \notin found[r]}

\* Mutant of BeginFile: the files come in the order of the directory.
BeginAnyFile(r) ==
    /\ run[r] = "next"
    /\ \E f \in Pending(r) : file' = [file EXCEPT ![r] = f]
    /\ Goto(r, "execute")
    /\ UNCHANGED <<database, found, failures>>

\* BEGIN, for the next file that was not found applied.
BeginFile(r) ==
    /\ run[r] = "next"
    /\ \E f \in Pending(r) :
        /\ \A g \in Pending(r) : f <= g
        /\ file' = [file EXCEPT ![r] = f]
    /\ Goto(r, "execute")
    /\ UNCHANGED <<database, found, failures>>

\* Mutant of Finish: the script returns after its first file.
FinishAfterOne(r) ==
    /\ run[r] = "next"
    /\ Pending(r) = {} \/ file[r] # 0
    /\ Goto(r, "upToDate")
    /\ UNCHANGED <<database, found, file, failures>>

\* All files are applied or were found so: the script exits with code 0.
Finish(r) ==
    /\ run[r] = "next"
    /\ Pending(r) = {}
    /\ Goto(r, "upToDate")
    /\ UNCHANGED <<database, found, file, failures>>

\* The file's statements.  A file that creates objects waits for another
\* transaction that has created them.
ExecuteFile(r) ==
    /\ run[r] = "execute"
    /\ file[r] \in Creates => Executing(file[r], r) = {} /\ file[r] \notin Applied
    /\ Goto(r, "insert")
    /\ UNCHANGED <<database, found, file, failures>>

\* They exist already: ROLLBACK, and the error ends the script.
ExecuteRefused(r) ==
    /\ run[r] = "execute"
    /\ file[r] \in Creates
    /\ file[r] \in Applied
    /\ Goto(r, "failed")
    /\ UNCHANGED <<database, found, file, failures>>

\* Mutant of InsertRow: ON CONFLICT DO NOTHING.
InsertRowQuietly(r) ==
    /\ run[r] = "insert"
    /\ Recording(file[r], r) = {}
    /\ Goto(r, "commit")
    /\ UNCHANGED <<database, found, file, failures>>

\* INSERT INTO schema_migrations: the primary key makes it wait for another
\* transaction that has inserted the same file.
InsertRow(r) ==
    /\ run[r] = "insert"
    /\ Recording(file[r], r) = {}
    /\ file[r] \notin recorded
    /\ Goto(r, "commit")
    /\ UNCHANGED <<database, found, file, failures>>

\* Mutant of InsertRefused: the file is tried again.
InsertRefusedRetries(r) ==
    /\ run[r] = "insert"
    /\ file[r] \in recorded
    /\ Goto(r, "execute")
    /\ UNCHANGED <<database, found, file, failures>>

\* It violates the key: ROLLBACK, and the error ends the script.
InsertRefused(r) ==
    /\ run[r] = "insert"
    /\ file[r] \in recorded
    /\ Goto(r, "failed")
    /\ UNCHANGED <<database, found, file, failures>>

\* COMMIT makes both visible at once.
Commit(r) ==
    /\ run[r] = "commit"
    /\ times' = [times EXCEPT ![file[r]] = @ + 1]
    /\ recorded' = recorded \cup {file[r]}
    /\ Goto(r, "next")
    /\ UNCHANGED <<table, found, file, failures>>

\* Mutant of Fail: the next file is taken after the rollback of one.
FailContinues(r) ==
    /\ run[r] \notin {"idle", "failed", "upToDate"}
    /\ failures < MaxFailures
    /\ failures' = failures + 1
    /\ Goto(r, IF run[r] \in InTransaction THEN "next" ELSE "failed")
    /\ UNCHANGED <<database, found, file>>

\* A statement fails, or the process dies: the script or Postgres rolls back an
\* open transaction, and the script ends with code 1.  A COMMIT whose answer is
\* lost is Commit, then Fail.
Fail(r) ==
    /\ run[r] \notin {"idle", "failed", "upToDate"}
    /\ failures < MaxFailures
    /\ failures' = failures + 1
    /\ Goto(r, "failed")
    /\ UNCHANGED <<database, found, file>>

-----------------------------------------------------------------------------
Proceed(r) ==
    \/ CreateTable(r)
    \/ ReadApplied(r)
    \/ BeginFile(r)
    \/ Finish(r)
    \/ ExecuteFile(r)
    \/ ExecuteRefused(r)
    \/ InsertRow(r)
    \/ InsertRefused(r)
    \/ Commit(r)

Next == \E r \in Run : Begin(r) \/ Proceed(r) \/ Fail(r)

Spec == Init /\ [][Next]_vars

\* Postgres answers every statement that does not wait for another transaction,
\* and the script goes on; nobody has to start it again.
FairSpec == Spec /\ \A r \in Run : WF_vars(Proceed(r))

-----------------------------------------------------------------------------
TypeOK ==
    /\ table \in BOOLEAN
    /\ recorded \subseteq File
    /\ times \in [File -> Nat]
    /\ run \in [Run -> Step]
    /\ found \in [Run -> SUBSET File]
    /\ file \in [Run -> 0..Files]
    /\ failures \in 0..MaxFailures

\* No file's statements take effect twice, although the runs read which files
\* are applied before, and outside, the transactions that apply them
\* (migrate.ts:35-56); for a file that creates nothing only the key of
\* schema_migrations stands in the way.
AppliedAtMostOnce == \A f \in File : times[f] <= 1

\* A run that ends with code 0 leaves the whole schema behind, whatever other
\* runs do at the same time (migrate.ts:38-59).
UpToDateIsTrue == \A r \in Run : run[r] = "upToDate" => Applied = File

\* The files take effect in order, each in one step with its row in
\* schema_migrations: the scripts implement a version that only counts up.
Version == INSTANCE SchemaVersion WITH version <- Cardinality(Applied), record <- recorded
MigrationsCountUp == Version!Spec

\* A run that was started ends: runs that wait for each other's transactions
\* never wait in a circle.
RunsEnd == \A r \in Run : run[r] = "create" ~> run[r] \in {"failed", "upToDate"}

\* A script that is started, after whatever failures, leaves the schema up to
\* date unless something fails from then on, even if it itself ends with an error
\* because another was faster.
SchemaArrives ==
    \A r \in Run, n \in 0..MaxFailures :
        (run[r] = "create" /\ failures = n) ~> (Applied = File \/ failures > n)

=============================================================================
