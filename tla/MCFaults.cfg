CONSTANTS
    NUM_SERVERS = 2
    Clients = {c1}
    Router = Router
    MaxConns = 8
    KeysMayDiffer = TRUE
    Data = {d1}
    DATA_LEN = 21
    MaxAllocFails = 0
    MaxStores = 3
    MaxKills = 1
    MaxRouterStarts = 2
CHECK_DEADLOCK FALSE
SPECIFICATION SSpec
INVARIANTS TypeOK ReceivedDecrypts RespondersSendSafely FailuresContained AckedAreStored AnswersMatch
PROPERTIES ImplementsStore
