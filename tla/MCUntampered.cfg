CONSTANTS
    Data = {d1, d2}
    DATA_LEN = 21
    MaxBlocks = 4
SPECIFICATION SpecNoFaults
SYMMETRY MCSymmetry
INVARIANTS UntamperedIsValid
