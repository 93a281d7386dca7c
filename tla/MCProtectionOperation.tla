------------------------ MODULE MCProtectionOperation ------------------------
(* Model values and bounds for ProtectionOperation.                           *)
EXTENDS ProtectionOperation, TLC

\* Clock samples 0..2: before, at and after the first grant's refresh and grace;
\* the last grant expires at 2.
MCTimes == 0..2

G(v, st, r, gr, ex) ==
  [version |-> v, status |-> st, issued |-> 0, refresh |-> r, grace |-> gr, expires |-> ex]

\* An early grant, its renewal, its revocation, and an active reissue.
MCGrants == {G(1, "active", 1, 1, 3), G(1, "active", 2, 2, 3),
             G(2, "revoked", 2, 2, 3), G(3, "active", 2, 2, 2)}

\* Views of the shared store: every version and status, at every time.
MCAdvances == [version: 1..3, status: {"active", "revoked"}, time: MCTimes, revision: 1..2]
              \cup [version: {2}, status: {"expired"}, time: MCTimes, revision: {2}]

Symmetry == Permutations(Observers)
=============================================================================
