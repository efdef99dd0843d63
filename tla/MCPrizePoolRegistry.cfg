CONSTANTS
    MaxPrizePools = 2
    IdBound = 4
    OverflowChecks = TRUE
    NoPool = NoPool
    d1 = d1
    d2 = d2
    Dests <- MCDests
    MigrateCounts <- MCMigrateCounts

INIT RegInit
NEXT RegNext

INVARIANT RegTypeOK
INVARIANT ActiveListPacked
PROPERTY ImplementsPrizePoolSet
