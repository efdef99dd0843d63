CONSTANTS
    Seeds <- MCSeeds
    CardCounts <- MCCardCounts
    ActiveCounts = {0, 3}
    PoolIndices <- MCPoolIndices
INIT RwInit
NEXT RwNext
INVARIANT RwTypeOK
INVARIANT RewardWithinTier
INVARIANT CardsDistinct
\* process_vrf_result returns once every card is drawn.
CHECK_DEADLOCK FALSE
