SPECIFICATION Spec
CONSTANTS
  Calls = {c1, c2}
  RequestIds = {q1, q2}
  RunIds = {r1, r2}
  Sources = {s1}
  MaxTime = 2
  Capacity = 2
  NoRequest = NoRequest
  NoAuthorization = NoAuthorization
SYMMETRY Symmetry
INVARIANT AttemptInvariant
PROPERTIES ReceiptsInOrder NoReceiptWithoutSource FirstCauseKept
CHECK_DEADLOCK FALSE
