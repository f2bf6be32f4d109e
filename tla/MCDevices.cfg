CONSTANTS
    Devices = {"frames", "uart", "tx", "lpuart", "radio", "flexray", "systemc", "trace", "log", "clock", "spi", "ui"}
    Kinds = {"netdev", "canfd"}
    Frames <- MCFrames
    MaxTime = 4
    MaxBacklog = 2
INIT DInit
NEXT DNext
INVARIANTS
    InOrder
    CountersExact
    NothingForgotten
    InterruptsFollow
    NoSecondBorrow
CHECK_DEADLOCK FALSE
