SPECIFICATION FairSpec
CONSTANTS
    ChannelMod = 4
    InitPayload = 1
    ContPayload = 1
    SeqSpace = 2
    MaxMessage = 3
    InitLength = 1
    InitReplyLength = 2
    ErrorCapacity = 1
    ReceiveTimeout = 1
    ClockMod = 3
    UpdateEnabled = FALSE
    Data = {d1}
    None = None
    HostCommands = {"Init", "Cbor", "Cancel", "Ping"}
    HostChannels = {1, 2, 3}
INVARIANTS
    OneTransaction
    BuffersExact
PROPERTIES
    OwnerOnly
    ResponseDelivered
    StalledReceiveEnds
