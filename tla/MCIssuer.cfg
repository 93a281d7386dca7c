SPECIFICATION FairSpec
CONSTANTS
  Calls = {c1, c2, c3}
  Capacity = 2
  MaxTime = 3
  Timeouts = {1, 2}
INVARIANTS PoolInvariant NoGrantSurvives
PROPERTIES EveryCallAnswers ReservationsReturn
CHECK_DEADLOCK FALSE
