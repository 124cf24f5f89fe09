CONSTANTS
    NUM_SERVERS = 1
    Clients = {c1, c2}
    Router = Router
    MaxConns = 6
    KeysMayDiffer = FALSE
    Data = {d1}
    DATA_LEN = 21
    MaxAllocFails = 1
    MaxStores = 1
    MaxKills = 1
    MaxRouterStarts = 1
CHECK_DEADLOCK FALSE
SPECIFICATION SpecUsersLeave
PROPERTIES WaitersServed CommandsEnd
 
