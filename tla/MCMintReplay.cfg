CONSTANTS
    MaxPrizePools = 2
    IdBound = 3
    OverflowChecks = TRUE
    NoPool = NoPool
    d1 = d1
    Dests <- MCDests
    MigrateCounts <- MCMigrateCounts
    u1 = u1
    Users <- MCUsers
    MaxSlot = 3
    SlotTolerance = 1
    MaxSecondsPerSlot = 1
    RequestTimeout = 1
    ClaimTimeout = 2
    CardChoices = {1}
    Entropies <- MCEntropies
    TotalWon <- MCTotalWon
    TargetUsdAmount = 10
    UsdPrecision = 1
    LamportsPerUsd = 1
    MinRent = 1
    InitVaultSol = 30
    WithdrawAmounts = {20}
    MaxRequests = 2
    DuplicateDelivery = TRUE
    NoRequest = NoRequest

INIT Init
NEXT Next

INVARIANT RandomnessBoundToRequest
