CONSTANTS
    NR_TIMERS = 2
    MAX_TIMEOUT = 7
    GPT_MAX_TIMEOUT = 2
    Touts = {1}
    Kinds = {"BH", "IRQ"}
SPECIFICATION FairSpec
PROPERTY EveryShotRuns
