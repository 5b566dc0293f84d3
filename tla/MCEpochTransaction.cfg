SPECIFICATION Spec
CONSTANTS
    maint = maint
    normal = normal
    low = low
    junk = junk
    wr_dis = wr_dis
    secure = secure
    CounterSize = 4
    OtherBits <- MCOtherBits
    Protections <- MCProtections
    WR_DIS = wr_dis
    Images <- MCImages
    SignedImages <- MCSigned
    SecureVersion <- MCSecureVersion
    ExpectedBlock0 <- MCExpected
    Target = 3
    Fallback = normal
    Residues <- MCResidues
    None = None
INVARIANTS
    OkMeansBurned
PROPERTIES
    BurnOnce
    OnlyCounterBits
    BurnOnlyQualified
