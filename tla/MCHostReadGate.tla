---------------------------- MODULE MCHostReadGate ----------------------------
(* Model values for HostReadGate.                                              *)
EXTENDS HostReadGate, TLC

MCTimes == 0..2

Symmetry == Permutations(Reads) \cup Permutations(Operations) \cup Permutations(Epochs)
=============================================================================
