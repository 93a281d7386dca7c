---------------------------- MODULE MCSectionRead ----------------------------
(* Model values for SectionRead.                                               *)
EXTENDS SectionRead, TLC

MCTimes == 0..1

Symmetry == Permutations(Reads) \cup Permutations(Preparations)
=============================================================================
