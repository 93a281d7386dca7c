--------------------------- MODULE MCExecutionHost ---------------------------
(* Model values for ExecutionHost.                                             *)
EXTENDS ExecutionHost, TLC

Symmetry == Permutations(Calls) \cup Permutations(RequestIds) \cup Permutations(RunIds)
            \cup Permutations(Sources)
=============================================================================
