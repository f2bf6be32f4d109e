CONSTANTS
    N = 2
    MaxMessages = 2
    NodeIds <- MCNodeIds
    Quanta <- MCQuanta
    Batches <- MCBatches
    Broadcast = 99
    Links <- MCLinks
    InRange <- MCInRange
    Radio <- MCRadio
    Protocol <- MCProtocol
    Outsiders = {}
    Device <- WireAndCan
    Settings <- PromptOrLate
    Attachments <- NoAttachments
    SwitchLinks <- NoLinks
    MaxSends = 2
    LastQuantum = 3
SPECIFICATION CSpec
INVARIANTS
    NothingLost
    NeverEarly
    PerSenderOrder
    Lockstep
PROPERTIES
    RefinesRounds
CHECK_DEADLOCK FALSE
