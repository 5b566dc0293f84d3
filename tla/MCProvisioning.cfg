SPECIFICATION Spec
CONSTANTS
    Identities = {i1, i2}
    Development = i1
    Hold = 2
    Window = 5
    NoFile = NoFile
    Bad = Bad
    Good = Good
    Blank = Blank
INVARIANTS
    IdentityMatches
PROPERTIES
    StoreKept
