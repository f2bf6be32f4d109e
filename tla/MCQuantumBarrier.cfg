CONSTANTS
    N = 2
    MaxMessages = 2
    NodeIds <- MCNodeIds
    Quanta <- MCQuanta
    Batches <- MCBatches
SPECIFICATION Spec
INVARIANTS
    TypeOK
    ReleaseIsComplete
    ReleaseIsCanonical
    BuffersHoldAccepted
