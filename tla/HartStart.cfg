CONSTANTS
  Harts = {0, 1, 2}
  Disabled = {1}
  NumEntries = 1
  Events = {1, 2, 16}
  Bases = {0, 1}
  Callers = {0, 2}
  HMasks = {{0, 2}, {1}}
  ColdAllowed = {0, 1, 2}
  Addresses = {"a", "b"}
  Refused = {"b"}
  HartShift = 0
  MaxCalls = 2
SPECIFICATION FairHartSpec
INVARIANTS EventsNotLost
PROPERTIES EntersWhereTold SoftDelivered HartsWoken StartCompletes
CHECK_DEADLOCK FALSE
