SPECIFICATION FairSpec
CONSTANTS
    MaxSequence = 7
    old = old
    new = new
    rogue = rogue
    Images <- MCImages
    SignedImages <- MCSigned
    SecureVersion <- MCSecureVersion
    Blocks = 2
    IdleTimeout = 1
    MaxLifetime = 1
    NoSession = NoSession
    Blank = Blank
    Torn = Torn
    MaxFloor = 2
INVARIANTS
    AlwaysBootable
    SelectedRecordSound
    ActivationSelected
PROPERTIES
    RunningSlotUntouched
    ImplementsABDevice
    BootCompletes
