---------------------------- MODULE MCPhoneOtp ----------------------------
(* Small instances of PhoneOtp for TLC.                                     *)
EXTENDS PhoneOtp, TLC

\* Users, numbers and slots are interchangeable.
Symmetry == Permutations(User) \cup Permutations(Phone) \cup Permutations(Request)

=============================================================================
