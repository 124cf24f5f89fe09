CONSTANTS
    NUM_SERVERS = 3
    Clients = {c1}
    Router = Router
    MaxConns = 8
    KeysMayDiffer = FALSE
    Data = {d1}
    DATA_LEN = 21
    MaxAllocFails = 0
    MaxStores = 13
    MaxKills = 1
    MaxRouterStarts = 1
CHECK_DEADLOCK FALSE
SPECIFICATION Spec
INVARIANTS NoFramingNeeded ShardsBalanced
