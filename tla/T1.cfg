CONSTANTS
  IFD_BUF_SIZE = 261
  IFD_T1_MAX_IFSD = 254
  IFD_T1_IFS_IMPLICIT = 32
  IFD_T1_MAX_RETRY = 1
  Epilogue = 1
  IntBits = 32
  Commands = {5, 261}
  Responses = {2, 258}
  CardIfs = {32, 254}
  MaxFaults = 2
  MaxRequests = 1
SPECIFICATION FairSpec
INVARIANTS CommandDelivered ResponseIntact NoBug
PROPERTIES EveryExchangeEnds
