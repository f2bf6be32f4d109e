CONSTANTS
    RelayNodes = {0, 1}
    Buses = {"eth", "uart", "lin", "sysc", "rf", "coord"}
    Modes <- MCModes
    WireLinks <- MCWireLinks
    Places <- MCPlaces
    DefaultPlace = "here"
    WorldPlace <- MCWorldPlace
    Near <- All
    Audible <- All
    WithinRange <- MCRange
    LinkUpdates <- MCLinkUpdates
    max_messages_per_node = 1
    MaxMoves = 1
    MaxFrames <- MCMaxFrames
    LastQuantum = 2
SPECIFICATION ZSpec
INVARIANTS
    RelayConserves
    RelayNeverWedged
    RelayNeverEarly
PROPERTY RelayRefinesRounds
CHECK_DEADLOCK FALSE
