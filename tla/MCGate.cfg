SPECIFICATION Spec
CONSTANTS
  Reads = {r1, r2, r3}
  Operations = {p, q}
  Public = Public
  Epochs = {e1, e2}
  Times <- MCTimes
  Window = 2
  NoHandle = NoHandle
  NoAnswer = NoAnswer
SYMMETRY Symmetry
INVARIANTS GateInvariant StandingDenialBars
CHECK_DEADLOCK FALSE
