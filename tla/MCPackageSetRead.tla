-------------------------- MODULE MCPackageSetRead --------------------------
(* Model values for PackageSetRead.                                            *)
EXTENDS PackageSetRead, TLC

Symmetry == Permutations(SetReads)
=============================================================================
