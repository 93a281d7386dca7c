------------------------ MODULE MCProtectedDelivery ------------------------
(* Model values and bounds for ProtectedDelivery.                           *)
EXTENDS ProtectedDelivery, TLC

\* Clock samples: equal and later, before and at the expiry of a handle.
MCTimes == 0..2

Symmetry == Permutations(Reads) \cup Permutations(Commits)
=============================================================================
