CONSTANTS
    NR_TIMERS = 2
    MAX_TIMEOUT = 15
    GPT_MAX_TIMEOUT = 3
    Touts = {1, 4}
    Kinds = {"BH", "IRQ"}
SPECIFICATION FairSpec
INVARIANTS TypeOK QueueOrdered QueueIsScheduled NeverUnarmed NoBug
PROPERTY ShotsRunUnlessStuck
