SPECIFICATION ProtectedSpec
CONSTANTS
    Word = 512
    SlotSize = 256
    Sector = 32
    SignatureBlock = 10
    ImageHeader = 3
    SegmentHeader = 1
    Prefix = 6
    Padding = 4
    Digest = 5
    Chunk = 6
    Segments = 3
    Buses = {iram, dram}
    Bound = 2
SYMMETRY Symmetry
INVARIANTS
    SignedWholeImage
    ProtectedOrStopped
