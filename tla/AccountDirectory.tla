-------------------------- MODULE AccountDirectory --------------------------
(***************************************************************************)
(* What the service promises of accounts, as if one directory held them    *)
(* and every operation took effect in one step: an account is created once *)
(* and welcomed at most once, its address counts as proven only on         *)
(* evidence and from then on for good, an identity is linked to one        *)
(* account for good, and who enters with an identity enters the account it *)
(* is linked to.  The handlers of Accounts implement it.                   *)
(***************************************************************************)
CONSTANTS
    Account,
    Identity,  \* identities of an external provider
    Visit,     \* sessions that may be opened
    None

VARIABLES
    accounts,  \* those that exist
    evidence,  \* those whose address has been vouched for
    proven,    \* those whose address counts as verified
    owner,     \* the account each identity is linked to
    entered,   \* the account each session is for
    welcomed   \* those announced as new

vars == <<accounts, evidence, proven, owner, entered, welcomed>>

Init ==
    /\ accounts = {}
    /\ evidence = {}
    /\ proven = {}
    /\ owner = [i \in Identity |-> None]
    /\ entered = [v \in Visit |-> None]
    /\ welcomed = {}

\* With evidence at hand the new account is proven from the start.
Create(a) ==
    /\ a \notin accounts
    /\ accounts' = accounts \cup {a}
    /\ proven' \in {proven, proven \cup ({a} \cap evidence)}
    /\ UNCHANGED <<evidence, owner, entered, welcomed>>

GiveEvidence ==
    /\ evidence \subseteq evidence' /\ evidence' \subseteq Account
    /\ UNCHANGED <<accounts, proven, owner, entered, welcomed>>

Prove(a) ==
    /\ a \in accounts \cap evidence
    /\ proven' = proven \cup {a}
    /\ UNCHANGED <<accounts, evidence, owner, entered, welcomed>>

Link(i, a) ==
    /\ owner[i] = None
    /\ a \in accounts \cap evidence
    /\ owner' = [owner EXCEPT ![i] = a]
    /\ UNCHANGED <<accounts, evidence, proven, entered, welcomed>>

Enter(v, a) ==
    /\ entered[v] = None
    /\ a \in accounts
    /\ entered' = [entered EXCEPT ![v] = a]
    /\ UNCHANGED <<accounts, evidence, proven, owner, welcomed>>

EnterAs(v, i) == owner[i] # None /\ Enter(v, owner[i])

Welcome(a) ==
    /\ a \in accounts \ welcomed
    /\ welcomed' = welcomed \cup {a}
    /\ UNCHANGED <<accounts, evidence, proven, owner, entered>>

Next ==
    \/ GiveEvidence
    \/ \E a \in Account : Create(a) \/ Prove(a) \/ Welcome(a)
    \/ \E i \in Identity, a \in Account : Link(i, a)
    \/ \E v \in Visit, a \in Account : Enter(v, a)

Spec == Init /\ [][Next]_vars

=============================================================================
