SPECIFICATION Spec
CONSTANTS
  Reads = {r1, r2, r3}
  Preparations = {t1}
  MaxVersion = 2
  Times <- MCTimes
  Window = 1
  None = None
SYMMETRY Symmetry
INVARIANTS SnapshotIsOneVersion ExpansionKeepsItsOrigin PreparationInvariant DenialBarsBothFamilies
CHECK_DEADLOCK FALSE
