CONSTANTS
    TxKinds = {"chardev", "netdev", "actuator", "canfd"}
    MaxWrites = 4
    FifoSize = 2
    ChanSize = 1
SPECIFICATION TSpec
PROPERTY CloseReturns
CHECK_DEADLOCK FALSE
