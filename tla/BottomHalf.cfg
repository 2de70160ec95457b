CONSTANTS
    NR_BHS = 3
    ConsoleBh = 1
    MaxDepth = 2
    Builds = {"up", "smp", "rt", "smp-rt"}
SPECIFICATION FairSpec
INVARIANTS TypeOK SmpKeepsWakeups MaskedExactlyInHandlers
PROPERTIES EveryWakeupServed ConsoleServed
