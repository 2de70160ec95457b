CONSTANTS
  CPUs = {p, q, r}
  Levels = {0}
  Nested = {p, q, r}
  Observed = {p}
  MaxNodes = 1
  PendingLoops = 1
  Wide = TRUE
SPECIFICATION Spec
INVARIANT MutualExclusion
