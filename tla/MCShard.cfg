CONSTANTS
    Data = {d1, d2}
    DATA_LEN = 255
    MaxBlocks = 6
SPECIFICATION Spec
SYMMETRY MCSymmetry
CONSTRAINT MCFaultBound
INVARIANTS TypeOK RetrieveIsFaithful UnreadableBeyondTwo ReplyFits
