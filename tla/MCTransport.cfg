SPECIFICATION FairSpec
CONSTANTS
  Calls = {c1, c2}
  Ids = {i1, i2}
  MaxTime = 3
  Steady = TRUE
  Capacity = 1
  Ttl = 2
  ReadLimits = {1, 2}
  BodyLimit = 1
  NoLength = NoLength
  NoContext = NoContext
INVARIANT AssociationInvariant
PROPERTIES FullMeansLive AcceptedInLifetime ReadingIsBounded
CHECK_DEADLOCK FALSE
