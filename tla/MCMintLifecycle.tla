-------------------------- MODULE MCMintLifecycle --------------------------
(* The lifecycle on a small instance: one user (so request addresses get  *)
(* re-used), four slots, a one-slot request_slot window, a refund timeout *)
(* of one second, two VRF outcomes (a small and a large win, selecting    *)
(* pool positions 0 and 1), and a two-slot registry.  Money is counted in *)
(* whole USD, at one lamport per USD.                                     *)
EXTENDS MintLifecycle

CONSTANTS u1, d1

MCUsers == {u1}
MCDests == {d1}
MCMigrateCounts == {}
MCEntropies == {0, 1}

\* Per-card reward of the two outcomes: a tier-1 minimum and a tier-4 one.
MCTotalWon(w, n) == n * (IF w = 0 THEN 5 ELSE 50)

=============================================================================
