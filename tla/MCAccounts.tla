---------------------------- MODULE MCAccounts ----------------------------
(* Small instances of Accounts for TLC.                                     *)
EXTENDS Accounts, TLC

\* Addresses, Google subjects and slots are interchangeable.
Symmetry == Permutations(Email) \cup Permutations(Subject) \cup Permutations(Request)

=============================================================================
