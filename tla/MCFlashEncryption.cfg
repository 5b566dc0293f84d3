SPECIFICATION Spec
CONSTANTS
    Records = {"record"}
    Descriptors = {"ota0", "ota1"}
    Temporary = "ota0"
    Staging = "ota1"
    Blocks = {b1, b2}
    Data = {"image"}
SYMMETRY Symmetry
INVARIANTS
    CoherentReads
