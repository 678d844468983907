-------------------------- MODULE MCOAuthRedirect --------------------------
(* Small instances of OAuthRedirect for TLC.                                *)
EXTENDS OAuthRedirect, TLC

Symmetry == Permutations(Request)

=============================================================================
