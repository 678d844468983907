--------------------------- MODULE MCCredentials ---------------------------
(* Small instances of Credentials for TLC.                                  *)
EXTENDS Credentials, TLC

\* Accounts, passwords and slots are interchangeable.
Symmetry == Permutations(Account) \cup Permutations(Password) \cup Permutations(Request)

\* Every account exists already, so that only a login checks a password.
ExistingAccounts == Init /\ users = Account

ExistingAccountsSpec == ExistingAccounts /\ [][Next]_vars

=============================================================================
