SPECIFICATION FairSpec
CONSTANTS
  Observers = {o1, o2}
  Issuer = issuer
  Kind = "external"
  Mode = "online"
  CanRefresh = TRUE
  Grants <- MCGrants
  Advances <- MCAdvances
  Times <- MCTimes
  NoGrant = NoGrant
  NoView = NoView
  NoObserver = NoObserver
  MaxGeneration = 3
INVARIANT OperationInvariant
PROPERTIES RevocationIsFinal AuthorityIsCurrent DisposalWins ImplementsCheckpointAuthority EveryObserveSettles
CHECK_DEADLOCK FALSE
