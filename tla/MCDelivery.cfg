SPECIFICATION Spec
CONSTANTS
  Reads = {r1, r2}
  Commits = {c1, c2}
  Times <- MCTimes
  NoTime = NoTime
  NoRead = NoRead
  NoCommit = NoCommit
SYMMETRY Symmetry
INVARIANTS DeliveryInvariant StandingDenialBlocksSend
PROPERTY ImplementsDisclosureHistory
CHECK_DEADLOCK FALSE
