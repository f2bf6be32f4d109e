CONSTANTS
    N = 2
    MaxMessages = 2
    NodeIds <- MCNodeIds
    Quanta <- MCQuanta
    Batches <- MCBatches
    Broadcast = 99
    Links <- MCLinks
    InRange <- MCInRange
    Radio <- MCRadio
    Protocol <- MCProtocol
    Outsiders = {}
    Device <- WireAndRadio
    Settings <- Prompt
    Attachments <- NoAttachments
    SwitchLinks <- NoLinks
    MaxSends = 1
    LastQuantum = 2
SPECIFICATION CSpec
INVARIANT SeesAllPeers
