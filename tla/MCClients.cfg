CONSTANTS
    NUM_SERVERS = 2
    Clients = {c1, c2}
    Router = Router
    MaxConns = 5
    KeysMayDiffer = FALSE
    Data = {d1}
    DATA_LEN = 21
    MaxAllocFails = 0
    MaxStores = 1
    MaxKills = 1
    MaxRouterStarts = 1
CHECK_DEADLOCK FALSE
SYMMETRY MCSymmetry
SPECIFICATION SSpec
PROPERTIES ImplementsStore
INVARIANTS RetrieveIsCurrent AnswersMatch
