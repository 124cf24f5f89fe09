CONSTANTS
    BYTE_BITS = 2
    LIMB_BITS = 3
    BASE = 4
    WIDTH = 4
    ExportInputs <- MCExportInputs
    WindowLimits <- MCWindowLimits
    Bases <- MCBases
    Exponents <- MCExponents
    Moduli <- MCModuli
    LAST_PRIME = 13
    NP_SMALL_LIMIT = 167
    SIEVE_LIMIT = 23
    OddsInSieve = 4
    BPSW_LIMIT = 4000
    RandomBases <- MCRandomBases
    Inputs <- MCInputs
SPECIFICATION MCSpec
CHECK_DEADLOCK FALSE
INVARIANTS ExportAgrees NothingLost ImportAgrees PowerAgrees PowerOfSeenBits ResultIsPrime NoPrimeSkipped
PROPERTIES SearchEnds
