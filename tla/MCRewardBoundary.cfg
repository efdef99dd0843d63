CONSTANTS
    Seeds <- MCSeeds
    CardCounts <- MCCardCounts
    ActiveCounts = {0, 3}
    PoolIndices <- MCPoolIndices
INIT RwInit
NEXT RwNext
INVARIANT SpecInclusiveThresholds
CHECK_DEADLOCK FALSE
