CONSTANTS
    FirstDeltas = {0}
    Deltas = {1, 2}
    FrozenBoot = TRUE
    MaxRequests = 4
    MaxDrift = 1
    watchdog_threshold = 1
SPECIFICATION KSpec
INVARIANTS
    KTypeOK
    NeverAhead
    OkMeansExecuted
    NoUseAfterFree
PROPERTIES
    EveryRequestAnswered
    DropTerminates
CHECK_DEADLOCK FALSE
