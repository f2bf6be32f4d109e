CONSTANTS
    FirstDeltas = {0}
    Deltas = {0, 1}
    FrozenBoot = TRUE
    MaxRequests = 3
    MaxDrift = 1
    watchdog_threshold = 1
SPECIFICATION KSpec
INVARIANT NeverAhead
CHECK_DEADLOCK FALSE
