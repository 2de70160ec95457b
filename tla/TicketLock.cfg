CONSTANTS
  CPUs = {p, q, r, s}
  W = 5
SPECIFICATION FairSpec
INVARIANTS TypeOK MutualExclusion QueueIsContiguous
PROPERTIES FairUnlessUndone ImplementsSpinLock
\* after a failed trylock the lock may stop serving for good
CHECK_DEADLOCK FALSE
