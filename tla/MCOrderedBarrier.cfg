CONSTANTS
    N = 2
    MaxMessages = 1
    LastQuantum = 3
    NodeIds <- MCNodeIds
    Quanta <- MCQuanta
    Batches <- MCBatches
SPECIFICATION OSpec
INVARIANTS
    NeverWedged
    Deterministic
PROPERTIES
    RefinesRoundBarrier
    AllQuantaReleased
