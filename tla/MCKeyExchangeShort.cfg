CONSTANTS
    BASE = 4
    WIDTH = 2
    DH_G = 5
    Primes <- MCPrimes
    Secrets <- MCSecrets
    Stale <- MCStale
    Pems = {"k1", "k2"}
SPECIFICATION Spec
CHECK_DEADLOCK FALSE
INVARIANTS ExchangeSucceeds
