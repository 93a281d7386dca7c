---------------------------- MODULE MCGrantIssuer ----------------------------
(* Model values for GrantIssuer.                                               *)
EXTENDS GrantIssuer, TLC

Symmetry == Permutations(Calls)
=============================================================================
