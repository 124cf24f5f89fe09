CONSTANTS
    OVERHEAD = 2
    RECV_MAX = 5
    MSS = 4
    Sizes = {3, 4, 5, 7, 9}
    MaxPackets = 5
SPECIFICATION Spec
CHECK_DEADLOCK FALSE
INVARIANTS TypeOK InStep
PROPERTIES ImplementsLink
