CONSTANTS
    Vcpus = {v1, v2}
    Bridges = {"mmio", "remote_port"}
    Reconnect = {"remote_port"}
    MaxRequests = 2
    MaxConnections = 2
    MaxIrqs = 1
SPECIFICATION BSpec
INVARIANTS
    NoOrphanWait
    DrainProtects
PROPERTIES
    AnswersOwnRequest
    DropFromConnected
CHECK_DEADLOCK FALSE
