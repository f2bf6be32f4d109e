CONSTANTS
    Setups <- MCSetups
    Topics = {"rx", "rx1"}
    Subscribed = "rx"
    Extends <- MCExtends
    MaxSends = 3
    Capacity = 1
SPECIFICATION DSpec
INVARIANTS
    CalledInOrder
    Conserved
    NoStrandedPayload
PROPERTIES
    NoLateCallback
    DropsReturn
CHECK_DEADLOCK FALSE
