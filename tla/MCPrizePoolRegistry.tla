------------------------ MODULE MCPrizePoolRegistry ------------------------
(* The registry alone on a small instance: 2 active slots, a 2-bit id     *)
(* space (ids 0..3, 3 playing the role of 255), two swap destinations.    *)
EXTENDS PrizePoolRegistry

CONSTANTS d1, d2

MCDests == {d1, d2}

\* migrate_config may rewind the counter or move it past the ids in use.
MCMigrateCounts == {0, 2}

=============================================================================
