CONSTANTS
    Data = {d1, d2}
    DATA_LEN = 21
    MaxBlocks = 4
SPECIFICATION Spec
SYMMETRY MCSymmetry
INVARIANTS RelinkDetected
