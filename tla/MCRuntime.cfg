SPECIFICATION RuntimeFairSpec
CONSTANTS
    ChannelMod = 4
    InitPayload = 1
    ContPayload = 1
    SeqSpace = 1
    MaxMessage = 2
    InitLength = 1
    InitReplyLength = 1
    ErrorCapacity = 1
    ReceiveTimeout = 0
    ClockMod = 2
    UpdateEnabled = TRUE
    Data = {d1}
    None = None
    HostCommands = {"Init", "Cbor", "Cancel", "Update"}
    HostChannels = {1, 2, 3}
INVARIANTS
    ReplyToItsRequest
    ConsentStands
    NoStaleCancellation
PROPERTIES
    WithdrawnEnds
