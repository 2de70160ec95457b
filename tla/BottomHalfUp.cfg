CONSTANTS
    NR_BHS = 3
    ConsoleBh = 1
    MaxDepth = 0
    Builds = {"up"}
SPECIFICATION FairSpec
INVARIANT NoLostWakeup
