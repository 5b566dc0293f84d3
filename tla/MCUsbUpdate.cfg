SPECIFICATION ProtocolFairSpec
CONSTANTS
    old = old
    new = new
    rogue = rogue
    Images <- MCImages
    SignedImages <- MCSigned
    SecureVersion <- MCSecureVersion
    Blocks = 2
    IdleTimeout = 2
    MaxLifetime = 4
    NoSession = NoSession
    CurrentVersion = 1
    IdMod = 3
    OpTime = 1
    MaxClock = 6
    Blank = Blank
    Torn = Torn
PROPERTIES
    FreshApproval
    ProgramOnlyErased
    ApprovalLapses
