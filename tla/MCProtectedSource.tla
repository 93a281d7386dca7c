-------------------------- MODULE MCProtectedSource --------------------------
(* Model values for ProtectedSource.                                           *)
EXTENDS ProtectedSource, TLC

Symmetry == Permutations(SourceCommits) \cup Permutations(Revisions)
=============================================================================
