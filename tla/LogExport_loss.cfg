\* A server that allows fewer lines per query than _PAGE_LIMIT.
CONSTANTS
    LastNs = 2
    MaxPerNs = 3
    PageLimit = 2
    FallbackLimit = 1
    ServerLimit = 1
    MaxTroubles = 2
SPECIFICATION Spec
INVARIANT ExhaustsAllLines
CHECK_DEADLOCK FALSE
