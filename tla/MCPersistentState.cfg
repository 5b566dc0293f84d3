SPECIFICATION Spec
CONSTANTS
    short = short
    long = long
    rps = rps
    RESET_RETRIES = 5
    POWERCYCLE_RETRIES = 2
    Pins <- MCPins
    CodePoints <- MCCodePoints
    DEFAULT_MIN_PIN_LENGTH = 1
    MinLengths = {1, 2}
    RpLists = {rps}
    MaxTimestamp = 3
    Increments = {1, 2}
    MaxKeys = 2
    None = None
INVARIANTS
    RamIsFile
    GuessesBounded
    TokenCurrent
    PolicyEnforced
    CounterAhead
PROPERTIES
    NoSilentReinit
    ForcedChangeStays
