-------------------------- MODULE MigrationsProofs --------------------------
(***************************************************************************)
(* Proofs about Migrations, for any number of runs, files and failures,    *)
(* and whichever of the files create objects.  The invariant says that     *)
(* schema_migrations lists an initial segment of the files, each applied   *)
(* once, and what each run may conclude from rows it read long ago: they   *)
(* are still there, everything before its file is there too, and a file it *)
(* has inserted is nobody else's.                                          *)
(***************************************************************************)
EXTENDS Migrations, FiniteSetTheorems, TLAPS

\* The files that are recorded are the first ones, and those applied, once each.
Ladder ==
    /\ \E n \in 0..Files : recorded = 1..n
    /\ times = [f \in File |-> IF f \in recorded THEN 1 ELSE 0]

\* What a run relies on.
Knows(r) ==
    /\ run[r] \in {"create", "read"} => file[r] = 0
    /\ run[r] \in {"next", "upToDate"} \cup InTransaction => found[r] \subseteq recorded
    /\ run[r] \in {"next", "upToDate"} =>
          \A f \in File : f <= file[r] => f \in recorded
    /\ run[r] \in InTransaction => file[r] \in File
    /\ run[r] \in InTransaction => \A f \in File : f < file[r] => f \in recorded
    /\ run[r] = "commit" => file[r] \notin recorded
    /\ run[r] = "upToDate" => File \subseteq recorded

\* The primary key lets one open transaction at most insert a file.
OneCommits ==
    \A r, q \in Run : run[r] = "commit" /\ run[q] = "commit" /\ file[r] = file[q] => r = q

IndInv == TypeOK /\ Ladder /\ (\A r \in Run : Knows(r)) /\ OneCommits

\* The invariant holds initially, whatever files the database has been given.
LEMMA InitInv == Init => IndInv
<1> SUFFICES ASSUME Init PROVE IndInv
  OBVIOUS
<1>1. PICK n \in 0..Files :
        /\ times = [f \in File |-> IF f <= n THEN 1 ELSE 0]
        /\ recorded = 1..n
        /\ table \in IF n = 0 THEN BOOLEAN ELSE {TRUE}
  BY DEF Init
<1>2. \A f \in File : f <= n <=> f \in recorded
  BY <1>1, FilesAssumption DEF File
<1>3. TypeOK
  <2>1. recorded \subseteq File /\ times \in [File -> Nat]
    BY <1>1, FilesAssumption DEF File
  <2>2. table \in BOOLEAN
    BY <1>1
  <2>3. /\ run \in [Run -> Step] /\ found \in [Run -> SUBSET File]
        /\ file \in [Run -> 0..Files] /\ failures \in 0..MaxFailures
    BY FilesAssumption, MaxFailuresAssumption DEF Init, Step
  <2> QED
    BY <2>1, <2>2, <2>3 DEF TypeOK
<1>4. Ladder
  BY <1>1, <1>2 DEF Ladder
<1>5. (\A r \in Run : Knows(r)) /\ OneCommits
  BY DEF Init, Knows, OneCommits, InTransaction
<1> QED
  BY <1>3, <1>4, <1>5 DEF IndInv

\* A step of one run that leaves the database alone, and does not insert a file,
\* leaves to the others what they know.
LEMMA Elsewhere ==
    ASSUME IndInv, NEW r \in Run, UNCHANGED database,
           \A q \in Run \ {r} : run'[q] = run[q] /\ found'[q] = found[q] /\ file'[q] = file[q],
           TypeOK', Knows(r)',
           run'[r] = "commit" => Recording(file'[r], r) = {}
    PROVE  IndInv'
<1>1. Ladder'
  BY DEF IndInv, Ladder, database
<1>2. ASSUME NEW q \in Run PROVE Knows(q)'
  <2>1. CASE q = r
    BY <2>1
  <2>2. CASE q # r
    BY <2>2 DEF IndInv, Knows, database
  <2> QED
    BY <2>1, <2>2
<1>3. OneCommits'
  BY DEF IndInv, OneCommits, Recording
<1> QED
  BY <1>1, <1>2, <1>3 DEF IndInv

\* One lemma per action: the script begins.
LEMMA BeginInv == ASSUME IndInv, NEW r \in Run, Begin(r) PROVE IndInv'
<1>1. TypeOK'
  BY FilesAssumption DEF IndInv, TypeOK, Begin, Step, database
<1>2. Knows(r)'
  BY DEF IndInv, TypeOK, Begin, Knows, InTransaction
<1> QED
  BY <1>1, <1>2, Elsewhere DEF IndInv, TypeOK, Begin, database

\* CREATE TABLE IF NOT EXISTS.
LEMMA CreateTableInv == ASSUME IndInv, NEW r \in Run, CreateTable(r) PROVE IndInv'
<1>1. TypeOK'
  BY DEF IndInv, TypeOK, CreateTable, Goto, Step
<1>2. Ladder'
  BY DEF IndInv, Ladder, CreateTable
<1>3. \A q \in Run : Knows(q)'
  BY DEF IndInv, TypeOK, CreateTable, Goto, Knows, InTransaction
<1>4. OneCommits'
  BY DEF IndInv, TypeOK, CreateTable, Goto, OneCommits
<1> QED
  BY <1>1, <1>2, <1>3, <1>4 DEF IndInv

\* The rows are read.
LEMMA ReadAppliedInv == ASSUME IndInv, NEW r \in Run, ReadApplied(r) PROVE IndInv'
<1>1. TypeOK'
  BY DEF IndInv, TypeOK, ReadApplied, Goto, Step, database
<1>2. Knows(r)'
  BY FilesAssumption DEF IndInv, TypeOK, ReadApplied, Goto, Knows, InTransaction, database, File
<1> QED
  BY <1>1, <1>2, Elsewhere DEF IndInv, TypeOK, ReadApplied, Goto

\* BEGIN: every file before the least one that is pending is recorded.
LEMMA BeginFileInv == ASSUME IndInv, NEW r \in Run, BeginFile(r) PROVE IndInv'
<1>1. PICK f \in Pending(r) : /\ \A g \in Pending(r) : f <= g
                              /\ file' = [file EXCEPT ![r] = f]
  BY DEF BeginFile
<1>2. f \in File
  BY DEF Pending
<1>3. TypeOK'
  BY <1>1, <1>2, FilesAssumption DEF IndInv, TypeOK, BeginFile, Goto, Step, InTransaction,
     database, File
<1>4. ASSUME NEW g \in File, g < f PROVE g \in recorded
  <2>1. g \notin Pending(r)
    BY <1>1, <1>2, <1>4 DEF File
  <2>2. g <= file[r] \/ g \in found[r]
    BY <2>1, FilesAssumption DEF Pending, IndInv, TypeOK, File
  <2> QED
    BY <2>2 DEF IndInv, Knows, BeginFile
<1>5. Knows(r)'
  BY <1>1, <1>2, <1>4 DEF IndInv, TypeOK, BeginFile, Goto, Knows, InTransaction, database
<1> QED
  BY <1>1, <1>3, <1>5, Elsewhere DEF IndInv, TypeOK, BeginFile, Goto

\* A run with nothing pending has found, or applied, every file.
LEMMA FinishInv == ASSUME IndInv, NEW r \in Run, Finish(r) PROVE IndInv'
<1>1. TypeOK'
  BY DEF IndInv, TypeOK, Finish, Goto, Step, database
<1>2. ASSUME NEW f \in File PROVE f \in recorded
  <2>1. f \notin Pending(r)
    BY DEF Finish
  <2>2. f <= file[r] \/ f \in found[r]
    BY <2>1, FilesAssumption DEF Pending, IndInv, TypeOK, File
  <2> QED
    BY <2>2 DEF IndInv, Knows, Finish
<1>3. Knows(r)'
  BY <1>2 DEF IndInv, TypeOK, Finish, Goto, Knows, InTransaction, database
<1> QED
  BY <1>1, <1>3, Elsewhere DEF IndInv, TypeOK, Finish, Goto

\* The file's statements run inside the transaction.
LEMMA ExecuteFileInv == ASSUME IndInv, NEW r \in Run, ExecuteFile(r) PROVE IndInv'
<1>1. TypeOK'
  BY DEF IndInv, TypeOK, ExecuteFile, Goto, Step, InTransaction, database
<1>2. Knows(r)'
  BY DEF IndInv, TypeOK, ExecuteFile, Goto, Knows, InTransaction, database
<1> QED
  BY <1>1, <1>2, Elsewhere DEF IndInv, TypeOK, ExecuteFile, Goto

\* The INSERT finds neither a committed row nor an open transaction's.
LEMMA InsertRowInv == ASSUME IndInv, NEW r \in Run, InsertRow(r) PROVE IndInv'
<1>1. TypeOK'
  BY DEF IndInv, TypeOK, InsertRow, Goto, Step, InTransaction, database
<1>2. Knows(r)'
  BY DEF IndInv, TypeOK, InsertRow, Goto, Knows, InTransaction, database
<1> QED
  BY <1>1, <1>2, Elsewhere DEF IndInv, TypeOK, InsertRow, Goto

\* A run that ends with an error relies on nothing.
LEMMA FailedInv ==
    ASSUME IndInv, NEW r \in Run, Goto(r, "failed"), failures' \in 0..MaxFailures,
           UNCHANGED <<database, found, file>>
    PROVE  IndInv'
<1>1. TypeOK'
  BY DEF IndInv, TypeOK, Goto, Step, database
<1>2. Knows(r)'
  BY DEF IndInv, TypeOK, Goto, Knows, InTransaction, database
<1> QED
  BY <1>1, <1>2, Elsewhere DEF IndInv, TypeOK, Goto

\* COMMIT: the file is the next one, and nobody else's.
LEMMA CommitNext ==
    ASSUME IndInv, NEW r \in Run, Commit(r)
    PROVE  /\ file[r] \in File
           /\ recorded = 1..(file[r] - 1)
           /\ recorded' = 1..file[r]
<1>1. file[r] \in File /\ file[r] \notin recorded
  BY DEF IndInv, Knows, Commit, InTransaction
<1>2. \A f \in File : f < file[r] => f \in recorded
  BY DEF IndInv, Knows, Commit, InTransaction
<1>3. PICK n \in 0..Files : recorded = 1..n
  BY DEF IndInv, Ladder
<1>4. n = file[r] - 1
  <2>1. n < file[r]
    BY <1>1, <1>3, FilesAssumption DEF File
  <2>2. CASE n + 1 < file[r]
    <3>1. n + 1 \in File
      BY <1>1, <2>2, FilesAssumption DEF File
    <3> QED
      BY <1>2, <1>3, <2>2, <3>1
  <2> QED
    BY <1>1, <2>1, <2>2, FilesAssumption DEF File
<1> QED
  BY <1>1, <1>3, <1>4, FilesAssumption DEF Commit, File

\* COMMIT keeps the invariant.
LEMMA CommitInv == ASSUME IndInv, NEW r \in Run, Commit(r) PROVE IndInv'
<1>1. /\ file[r] \in File
      /\ recorded = 1..(file[r] - 1)
      /\ recorded' = 1..file[r]
  BY CommitNext
<1>2. times' = [times EXCEPT ![file[r]] = 1]
  <2>1. file[r] \notin recorded
    BY DEF IndInv, Knows, Commit
  <2>2. times[file[r]] = 0
    BY <1>1, <2>1 DEF IndInv, Ladder
  <2> QED
    BY <2>2 DEF Commit
<1>3. TypeOK'
  <2>1. recorded' \subseteq File
    BY <1>1 DEF IndInv, TypeOK, Commit
  <2>2. times' \in [File -> Nat]
    BY <1>1, <1>2 DEF IndInv, TypeOK
  <2> QED
    BY <2>1, <2>2 DEF IndInv, TypeOK, Commit, Goto, Step
<1>4. Ladder'
  <2>1. file[r] \in 0..Files
    BY <1>1, FilesAssumption DEF File
  <2>2. recorded' = recorded \cup {file[r]}
    BY DEF Commit
  <2> QED
    BY <1>1, <1>2, <2>1, <2>2 DEF IndInv, Ladder
<1>5. ASSUME NEW q \in Run PROVE Knows(q)'
  <2>1. found' = found /\ file' = file /\ recorded \subseteq recorded'
    BY DEF Commit
  <2>2. CASE q = r
    <3>1. run'[q] = "next"
      BY <2>2 DEF IndInv, TypeOK, Commit, Goto
    <3>2. found[q] \subseteq recorded
      BY <2>2 DEF IndInv, Knows, Commit, InTransaction
    <3>3. \A f \in File : f <= file[q] => f \in recorded'
      BY <1>1, <2>2, FilesAssumption DEF File
    <3> QED
      BY <2>1, <3>1, <3>2, <3>3 DEF Knows, InTransaction
  <2>3. CASE q # r
    <3>1. run'[q] = run[q] /\ Knows(q)
      BY <2>3 DEF IndInv, TypeOK, Commit, Goto
    <3>2. run[q] = "commit" => file[q] # file[r]
      BY <2>3 DEF IndInv, OneCommits, Commit
    <3>3. run[q] = "commit" => file[q] \notin recorded'
      BY <3>1, <3>2 DEF Knows, Commit
    <3> QED
      BY <2>1, <3>1, <3>3 DEF Knows, InTransaction
  <2> QED
    BY <2>2, <2>3
<1>6. OneCommits'
  BY DEF IndInv, TypeOK, OneCommits, Commit, Goto
<1> QED
  BY <1>3, <1>4, <1>5, <1>6 DEF IndInv

\* Every step keeps the invariant.
LEMMA NextInv == IndInv /\ [Next]_vars => IndInv'
<1> SUFFICES ASSUME IndInv, [Next]_vars PROVE IndInv'
  OBVIOUS
<1>1. CASE UNCHANGED vars
  BY <1>1 DEF IndInv, TypeOK, Ladder, Knows, OneCommits, vars, database
<1>2. ASSUME NEW r \in Run, Begin(r) PROVE IndInv'
  BY <1>2, BeginInv
<1>3. ASSUME NEW r \in Run, Fail(r) PROVE IndInv'
  <2>1. failures' \in 0..MaxFailures
    BY <1>3, MaxFailuresAssumption DEF IndInv, TypeOK, Fail
  <2> QED
    BY <1>3, <2>1, FailedInv DEF Fail
<1>4. ASSUME NEW r \in Run, ExecuteRefused(r) \/ InsertRefused(r) PROVE IndInv'
  BY <1>4, FailedInv DEF ExecuteRefused, InsertRefused, IndInv, TypeOK
<1>5. ASSUME NEW r \in Run, Proceed(r) PROVE IndInv'
  BY <1>4, <1>5, CreateTableInv, ReadAppliedInv, BeginFileInv, FinishInv, ExecuteFileInv,
     InsertRowInv, CommitInv DEF Proceed
<1> QED
  BY <1>1, <1>2, <1>3, <1>5 DEF Next

\* The invariant holds throughout.
THEOREM Invariance == Spec => []IndInv
BY InitInv, NextInv, PTL DEF Spec

-----------------------------------------------------------------------------
\* Every variable keeps its type.
THEOREM TypeCorrect == Spec => []TypeOK
<1>1. IndInv => TypeOK
  BY DEF IndInv
<1> QED
  BY <1>1, Invariance, PTL

\* No file takes effect twice, whether or not its own statements would notice.
THEOREM AppliedOnce == Spec => []AppliedAtMostOnce
<1>1. IndInv => AppliedAtMostOnce
  BY DEF IndInv, Ladder, AppliedAtMostOnce
<1> QED
  BY <1>1, Invariance, PTL

\* In every state of the invariant the applied files are the recorded ones.
LEMMA AppliedIsRecorded == ASSUME IndInv PROVE Applied = recorded
<1>1. \A f \in File : times[f] = IF f \in recorded THEN 1 ELSE 0
  BY DEF IndInv, Ladder
<1> QED
  BY <1>1 DEF Applied, IndInv, TypeOK

\* Exit code 0 means that the schema is complete.
THEOREM UpToDate == Spec => []UpToDateIsTrue
<1>1. IndInv => UpToDateIsTrue
  BY AppliedIsRecorded DEF IndInv, Knows, UpToDateIsTrue, TypeOK
<1> QED
  BY <1>1, Invariance, PTL

\* The version is the number of files that are recorded.
LEMMA VersionOf ==
    ASSUME IndInv, NEW n \in 0..Files, recorded = 1..n
    PROVE  Cardinality(Applied) = n
<1>1. Cardinality(1..n) = n
  BY FS_Interval, FilesAssumption
<1> QED
  BY <1>1, AppliedIsRecorded

\* Any number of scripts, wherever they stop, move the schema one version at a time.
THEOREM Refinement == Spec => MigrationsCountUp
<1>1. Init => Version!Init
  <2> SUFFICES ASSUME Init PROVE Version!Init
    OBVIOUS
  <2>1. PICK n \in 0..Files : recorded = 1..n
    BY DEF Init
  <2>2. Cardinality(Applied) = n
    BY <2>1, InitInv, VersionOf
  <2> QED
    BY <2>1, <2>2 DEF Version!Init
<1>2. ASSUME IndInv, IndInv', [Next]_vars
      PROVE  [Version!Apply]_<<Cardinality(Applied), recorded>>
  <2>1. ASSUME NEW r \in Run, Commit(r) PROVE Version!Apply
    <3>1. /\ file[r] \in File
          /\ recorded = 1..(file[r] - 1)
          /\ recorded' = 1..file[r]
      BY <1>2, <2>1, CommitNext
    <3>2. file[r] \in 0..Files /\ file[r] - 1 \in 0..Files /\ file[r] - 1 < Files
      BY <3>1, FilesAssumption DEF File
    <3>3. Cardinality(Applied) = file[r] - 1
      BY <1>2, <3>1, <3>2, VersionOf
    <3>4. Cardinality(Applied)' = file[r]
      <4>1. Cardinality(1..file[r]) = file[r]
        BY <3>2, FS_Interval, FilesAssumption
      <4>2. Applied' = recorded'
        <5>1. \A f \in File : times'[f] = IF f \in recorded' THEN 1 ELSE 0
          BY <1>2 DEF IndInv, Ladder
        <5> QED
          BY <1>2, <5>1 DEF Applied, IndInv, TypeOK
      <4> QED
        BY <3>1, <4>1, <4>2
    <3>5. recorded' = recorded \cup {Cardinality(Applied)'}
      BY <2>1, <3>4 DEF Commit
    <3> QED
      BY <3>2, <3>3, <3>4, <3>5 DEF Version!Apply
  <2>2. CASE UNCHANGED <<recorded, times>>
    BY <2>2 DEF Applied
  <2>3. ASSUME NEW r \in Run, Begin(r) \/ Fail(r) \/ (Proceed(r) /\ ~Commit(r))
        PROVE  UNCHANGED <<recorded, times>>
    BY <2>3 DEF Begin, Fail, Proceed, CreateTable, ReadApplied, BeginFile, Finish,
       ExecuteFile, ExecuteRefused, InsertRow, InsertRefused, database
  <2> QED
    BY <1>2, <2>1, <2>2, <2>3 DEF Next, vars, database
<1> QED
  BY <1>1, <1>2, Invariance, PTL DEF Spec, MigrationsCountUp, Version!Spec

-----------------------------------------------------------------------------
(* What RunsEnd rests on: a run that is not waiting for another has few     *)
(* statements left, and whoever waits, waits for a run that does not.       *)

\* A bound on the statements that a run has before it.
Rank(r) ==
    CASE run[r] = "create"  -> 4 * Files + 3
      [] run[r] = "read"    -> 4 * Files + 2
      [] run[r] = "next"    -> 4 * (Files - file[r]) + 1
      [] run[r] = "execute" -> 4 * (Files - file[r]) + 4
      [] run[r] = "insert"  -> 4 * (Files - file[r]) + 3
      [] run[r] = "commit"  -> 4 * (Files - file[r]) + 2
      [] OTHER -> 0

\* Whose statement Postgres keeps waiting.
Waiting(r) ==
    \/ /\ run[r] = "execute"
       /\ file[r] \in Creates /\ file[r] \notin Applied
       /\ Executing(file[r], r) # {}
    \/ /\ run[r] = "insert"
       /\ file[r] \notin recorded
       /\ Recording(file[r], r) # {}

\* The rank counts statements.
LEMMA RankIsBounded == ASSUME IndInv, NEW r \in Run PROVE Rank(r) \in 0..(4 * Files + 3)
<1>1. run[r] \in Step /\ file[r] \in 0..Files
  BY DEF IndInv, TypeOK
<1>2. run[r] \in InTransaction => file[r] >= 1
  BY FilesAssumption DEF IndInv, Knows, File
<1> QED
  BY <1>1, <1>2, FilesAssumption DEF Rank, Step, InTransaction

\* Every statement of a run brings it nearer to its end.
LEMMA ProceedCountsDown ==
    ASSUME IndInv, NEW r \in Run, Proceed(r)
    PROVE  Rank(r)' < Rank(r)
<1>1. run \in [Run -> Step] /\ file \in [Run -> 0..Files]
  BY DEF IndInv, TypeOK
<1>2. CASE CreateTable(r)
  BY <1>1, <1>2, FilesAssumption DEF CreateTable, Goto, Rank
<1>3. CASE ReadApplied(r)
  <2>1. run[r] = "read" /\ run'[r] = "next" /\ file'[r] = 0
    BY <1>1, <1>3 DEF ReadApplied, Goto, IndInv, Knows
  <2> QED
    BY <2>1, FilesAssumption DEF Rank
<1>4. CASE BeginFile(r)
  <2>1. PICK f \in Pending(r) : file' = [file EXCEPT ![r] = f]
    BY <1>4 DEF BeginFile
  <2>2. f \in 1..Files /\ f > file[r] /\ file'[r] = f
    BY <1>1, <2>1 DEF Pending, File
  <2>3. run[r] = "next" /\ run'[r] = "execute"
    BY <1>1, <1>4 DEF BeginFile, Goto
  <2>4. Rank(r) = 4 * (Files - file[r]) + 1 /\ Rank(r)' = 4 * (Files - f) + 4
    BY <2>2, <2>3 DEF Rank
  <2> QED
    BY <1>1, <2>2, <2>4, FilesAssumption
<1>5. CASE Finish(r) \/ ExecuteRefused(r) \/ InsertRefused(r)
  <2>1. Rank(r)' = 0
    BY <1>1, <1>5 DEF Finish, ExecuteRefused, InsertRefused, Goto, Rank
  <2>2. Rank(r) > 0
    BY <1>1, <1>5, FilesAssumption DEF Finish, ExecuteRefused, InsertRefused, Rank
  <2> QED
    BY <2>1, <2>2
<1>6. CASE ExecuteFile(r) \/ InsertRow(r) \/ Commit(r)
  BY <1>1, <1>6, FilesAssumption DEF ExecuteFile, InsertRow, Commit, Goto, Rank
<1> QED
  BY <1>2, <1>3, <1>4, <1>5, <1>6 DEF Proceed

\* A run has at most 4 * Files + 3 statements before it, of which each takes one
\* away, and only its start gives it new ones: whatever other runs do, it cannot
\* go on for ever (migrate.ts:38-56).
THEOREM RunsCountDown ==
    Spec => /\ [](\A r \in Run : Rank(r) \in 0..(4 * Files + 3))
            /\ [][\A r \in Run : /\ Proceed(r) => Rank(r)' < Rank(r)
                                 /\ ~Begin(r) => Rank(r)' <= Rank(r)]_vars
<1>1. IndInv => \A r \in Run : Rank(r) \in 0..(4 * Files + 3)
  BY RankIsBounded
<1>2. IndInv /\ IndInv' /\ [Next]_vars =>
          [\A r \in Run : /\ Proceed(r) => Rank(r)' < Rank(r)
                          /\ ~Begin(r) => Rank(r)' <= Rank(r)]_vars
  <2> SUFFICES ASSUME IndInv, IndInv', Next, NEW r \in Run
               PROVE  /\ Proceed(r) => Rank(r)' < Rank(r)
                      /\ ~Begin(r) => Rank(r)' <= Rank(r)
    OBVIOUS
  <2>1. Rank(r) \in 0..(4 * Files + 3) /\ Rank(r)' \in Int
    BY RankIsBounded, FilesAssumption DEF IndInv, TypeOK, Rank
  <2>2. CASE Proceed(r)
    BY <2>1, <2>2, ProceedCountsDown, FilesAssumption
  <2>3. CASE Fail(r)
    <3>1. Rank(r)' = 0
      BY <2>3 DEF IndInv, TypeOK, Fail, Goto, Rank
    <3> QED
      BY <2>1, <3>1, <2>2, FilesAssumption
  <2>4. ASSUME NEW q \in Run \ {r}, Begin(q) \/ Proceed(q) \/ Fail(q)
        PROVE  run'[r] = run[r] /\ file'[r] = file[r]
    BY <2>4 DEF IndInv, TypeOK, Begin, Proceed, Fail, CreateTable, ReadApplied, BeginFile,
       Finish, ExecuteFile, ExecuteRefused, InsertRow, InsertRefused, Commit, Goto
  <2>5. CASE run'[r] = run[r] /\ file'[r] = file[r]
    <3>1. Rank(r)' = Rank(r)
      BY <2>5 DEF Rank
    <3> QED
      BY <2>1, <2>2, <3>1, FilesAssumption
  <2> QED
    BY <2>2, <2>3, <2>4, <2>5 DEF Next
<1> QED
  BY <1>1, <1>2, Invariance, PTL DEF Spec

\* A run that waits does so for another's transaction, and one of these runs has
\* its next statement answered at once: waits do not form a circle, for any
\* number of runs at any files.
THEOREM WaitsEndInATurn ==
    Spec => [](\A r \in Run : Waiting(r) =>
                  \E q \in Executing(file[r], r) : ~Waiting(q) /\ Rank(q) < Rank(r))
<1>1. IndInv => \A r \in Run : Waiting(r) =>
          \E q \in Executing(file[r], r) : ~Waiting(q) /\ Rank(q) < Rank(r)
  <2> SUFFICES ASSUME IndInv, NEW r \in Run, Waiting(r)
               PROVE  \E q \in Executing(file[r], r) : ~Waiting(q) /\ Rank(q) < Rank(r)
    OBVIOUS
  <2>1. file[r] \in 0..Files
    BY DEF IndInv, TypeOK
  <2>2. ASSUME NEW q \in Executing(file[r], r), run[q] = "commit"
        PROVE  ~Waiting(q) /\ Rank(q) < Rank(r)
    BY <2>1, <2>2, FilesAssumption DEF Waiting, Executing, Rank
  <2>3. CASE run[r] = "insert"
    <3>1. PICK q \in Recording(file[r], r) : TRUE
      BY <2>3 DEF Waiting
    <3>2. q \in Executing(file[r], r) /\ run[q] = "commit"
      BY <3>1 DEF Recording, Executing
    <3> QED
      BY <2>2, <3>2
  <2>4. CASE run[r] = "execute"
    <3>1. PICK q \in Executing(file[r], r) : TRUE
      BY <2>4 DEF Waiting
    <3>2. CASE ~Waiting(q)
      BY <2>1, <2>4, <3>1, <3>2, FilesAssumption DEF Executing, Rank
    <3>3. CASE Waiting(q)
      <4>1. run[q] = "insert" /\ file[q] = file[r]
        BY <3>1, <3>3 DEF Waiting, Executing
      <4>2. PICK p \in Recording(file[q], q) : TRUE
        BY <3>3, <4>1 DEF Waiting
      <4>3. p \in Executing(file[r], r) /\ run[p] = "commit"
        BY <2>4, <4>1, <4>2 DEF Recording, Executing
      <4> QED
        BY <2>2, <4>3
    <3> QED
      BY <3>2, <3>3
  <2> QED
    BY <2>3, <2>4 DEF Waiting
<1> QED
  BY <1>1, Invariance, PTL

-----------------------------------------------------------------------------
(* What SchemaArrives rests on: of the runs that are started after a failure *)
(* one is always ahead of what has been applied.                             *)

\* A run that will be refused nothing by what is recorded now.
Ahead(r) ==
    \/ run[r] \in {"create", "read"}
    \/ run[r] = "next" /\ Pending(r) \cap recorded = {}
    \/ run[r] \in InTransaction /\ file[r] \notin recorded
SomeoneIsAhead == \E r \in Run : Ahead(r)

\* A run that is ahead stays so, or ends with the schema up to date, or fails, or
\* another has recorded a file before it and is now ahead itself.
LEMMA TheLeadPasses ==
    ASSUME IndInv, IndInv', NEW r \in Run, Begin(r) \/ Proceed(r), NEW q \in Run, Ahead(q)
    PROVE  Ahead(q)' \/ Ahead(r)' \/ File \subseteq recorded'
<1> USE DEF IndInv, TypeOK, Ahead, InTransaction
<1>1. CASE q # r /\ UNCHANGED recorded
  BY <1>1 DEF Begin, Proceed, CreateTable, ReadApplied, BeginFile, Finish, ExecuteFile,
     ExecuteRefused, InsertRow, InsertRefused, Commit, Goto, Pending
<1>2. CASE Commit(r)
  <2>1. run'[r] = "next" /\ file'[r] = file[r] /\ file[r] \in File /\ recorded' = 1..file[r]
    BY <1>2, CommitNext DEF Commit, Goto
  <2>2. \A f \in recorded' : f <= file'[r]
    BY <2>1 DEF File
  <2>3. Pending(r)' \cap recorded' = {}
    BY <2>1, <2>2, FilesAssumption DEF Pending, File
  <2> QED
    BY <2>1, <2>3
<1>3. CASE q = r /\ ~Commit(r)
  <2>1. CASE Begin(r) \/ CreateTable(r)
    BY <1>3, <2>1 DEF Begin, CreateTable, Goto
  <2>2. CASE ReadApplied(r)
    BY <1>3, <2>2 DEF ReadApplied, Goto, Pending, database
  <2>3. CASE BeginFile(r)
    <3>1. file'[r] \in Pending(r) /\ run'[r] = "execute" /\ UNCHANGED recorded
      BY <2>3 DEF BeginFile, Goto, database
    <3> QED
      BY <1>3, <2>3, <3>1 DEF BeginFile
  <2>4. CASE Finish(r)
    BY <2>4 DEF Finish, Goto, Knows
  <2>5. CASE ExecuteFile(r) \/ InsertRow(r)
    BY <1>3, <2>5 DEF ExecuteFile, InsertRow, Goto, database
  <2>6. ~ExecuteRefused(r) /\ ~InsertRefused(r)
    BY <1>3, AppliedIsRecorded DEF ExecuteRefused, InsertRefused
  <2> QED
    BY <1>3, <2>1, <2>2, <2>3, <2>4, <2>5, <2>6 DEF Proceed
<1>4. UNCHANGED recorded \/ Commit(r)
  BY DEF Begin, Proceed, CreateTable, ReadApplied, BeginFile, Finish, ExecuteFile,
     ExecuteRefused, InsertRow, InsertRefused, database
<1> QED
  BY <1>1, <1>2, <1>3, <1>4

\* Nobody gives up for nothing: as long as one run is ahead, and each is when it is
\* started, a run ends with an error only because something fails or because
\* another is ahead of it (migrate.ts:34-56).
THEOREM TheLeadIsKept ==
    Spec => [][SomeoneIsAhead =>
                  SomeoneIsAhead' \/ Applied' = File \/ failures' = failures + 1]_vars
<1>1. IndInv /\ IndInv' /\ [Next]_vars =>
        [SomeoneIsAhead =>
            SomeoneIsAhead' \/ Applied' = File \/ failures' = failures + 1]_vars
  <2> SUFFICES ASSUME IndInv, IndInv', Next, SomeoneIsAhead
               PROVE  SomeoneIsAhead' \/ Applied' = File \/ failures' = failures + 1
    OBVIOUS
  <2>1. PICK q \in Run : Ahead(q)
    BY DEF SomeoneIsAhead
  <2>2. PICK r \in Run : Begin(r) \/ Proceed(r) \/ Fail(r)
    BY DEF Next
  <2>3. CASE Fail(r)
    BY <2>3 DEF Fail
  <2>4. CASE Begin(r) \/ Proceed(r)
    <3>1. CASE File \subseteq recorded'
      <4>1. \A f \in File : times'[f] = IF f \in recorded' THEN 1 ELSE 0
        BY DEF IndInv, Ladder
      <4>2. \A f \in File : times'[f] > 0
        BY <3>1, <4>1
      <4> QED
        BY <4>2 DEF Applied
    <3>2. CASE Ahead(q)' \/ Ahead(r)'
      BY <3>2 DEF SomeoneIsAhead
    <3> QED
      BY <2>1, <2>4, <3>1, <3>2, TheLeadPasses
  <2> QED
    BY <2>2, <2>3, <2>4
<1> QED
  BY <1>1, Invariance, PTL DEF Spec

=============================================================================
