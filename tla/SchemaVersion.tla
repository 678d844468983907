--------------------------- MODULE SchemaVersion ---------------------------
(***************************************************************************)
(* What the migrations promise: the schema is at some version, the number  *)
(* of files it has been given, and it only moves to the next one, however  *)
(* many migration scripts run and wherever they stop.                      *)
(***************************************************************************)
EXTENDS Naturals

CONSTANT Files  \* the number of files

VARIABLES
    version,  \* files 1..version are applied, each once
    record    \* the files that schema_migrations lists

Init == version \in 0..Files /\ record = 1..version

\* A file is applied and recorded in one step.
Apply ==
    /\ version < Files
    /\ version' = version + 1
    /\ record' = record \cup {version'}

Spec == Init /\ [][Apply]_<<version, record>>

=============================================================================
