CONSTANTS
    N = 2
    MaxMessages = 2
    NodeIds <- MCNodeIds
    Quanta <- MCQuanta
    Batches <- MCBatches
    Broadcast = 99
    Links <- MCLinks
    InRange <- MCInRange
    Radio <- MCRadio
    Protocol <- MCProtocol
    Outsiders = {2}
    Device <- WireAndRadio
    Settings <- AnyRouting
    Attachments <- MCAttachments
    SwitchLinks <- OneLink
    MaxSends = 1
    LastQuantum = 2
SPECIFICATION CSpec
PROPERTIES
    DownLinksAreSilent
    OnlyDeclaredLinks
    RunsToTheEnd
CHECK_DEADLOCK FALSE
