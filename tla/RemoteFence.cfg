CONSTANTS
  Harts = {0, 1, 2}
  Disabled = {}
  NumEntries = 1
  Events = {2}
  Bases = {0}
  Callers = {0, 1}
  HMasks = {{0, 1, 2}}
SPECIFICATION FairSpec
INVARIANTS TypeOK OneFlushAwaited
PROPERTIES FencedOnReturn EveryCallReturns
