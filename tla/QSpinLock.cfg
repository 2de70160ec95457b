CONSTANTS
  CPUs = {p, q, r}
  Levels = {0, 1}
  Nested = {p, q}
  Observed = {p}
  MaxNodes = 1
  PendingLoops = 1
  Wide = FALSE
SPECIFICATION FairSpec
INVARIANTS TypeOK LockedMeansOwned NodesPrivate NodesReturned
PROPERTIES AlwaysFair ImplementsSpinLock
