------------------------ MODULE MCTransportAssociation ------------------------
(* Model values for TransportAssociation.                                      *)
EXTENDS TransportAssociation, TLC

Symmetry == Permutations(Calls) \cup Permutations(Ids)
=============================================================================
