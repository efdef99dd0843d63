----------------------------- MODULE TierTable -----------------------------
(***************************************************************************)
(* The tier table of constants.rs and the choice map_to_tiered_distribution *)
(* (utils/vrf_helper.rs) makes from it, as functions of the tier roll and   *)
(* the step index.  How the roll and the index are read from the card's    *)
(* bytes is left to RewardComputation, which extends this module; here     *)
(* only arithmetic on naturals, so the table can be reasoned about for     *)
(* every roll.                                                             *)
(***************************************************************************)
EXTENDS Naturals

\* constants.rs: the tier table.
PROB_PRECISION == 1000000
REWARD_STEP == 100000

\* Mutant: tier 3 with the step count of tier 4.
TiersTier3Steps ==
    <<[threshold |-> 150000, minUsd |-> 5000000, steps |-> 21],
      [threshold |-> 650000, minUsd |-> 7000000, steps |-> 71],
      [threshold |-> 950000, minUsd |-> 14000000, steps |-> 500],
      [threshold |-> PROB_PRECISION, minUsd |-> 50000000, steps |-> 500]>>

Tiers ==
    <<[threshold |-> 150000, minUsd |-> 5000000, steps |-> 21],
      [threshold |-> 650000, minUsd |-> 7000000, steps |-> 71],
      [threshold |-> 950000, minUsd |-> 14000000, steps |-> 360],
      [threshold |-> PROB_PRECISION, minUsd |-> 50000000, steps |-> 500]>>

\* The if/else-if chain on tier_roll: the first tier whose threshold exceeds it.
TierOfRoll(roll) ==
    CHOOSE t \in 1..4 : /\ roll < Tiers[t].threshold
                        /\ \A u \in 1..(t - 1) : roll >= Tiers[u].threshold

\* min_usd.saturating_add(idx.saturating_mul(REWARD_STEP)); no saturation
\* is reached, the largest value being 99.9 USD.
TierPayout(t, idx) == Tiers[t].minUsd + idx * REWARD_STEP

-----------------------------------------------------------------------------
(***************************************************************************)
(* The spec's tier table, as the proptests of vrf_helper.rs read it        *)
(* (tier<k>_amount_in_range): tier k takes the rolls in                    *)
(* [threshold(k-1), threshold(k)) and pays within [TIERk_MIN, TIERk_MAX].  *)
(***************************************************************************)
SpecTiers ==
    <<[lo |-> 0, hi |-> 150000, minUsd |-> 5000000, maxUsd |-> 7000000],
      [lo |-> 150000, hi |-> 650000, minUsd |-> 7000000, maxUsd |-> 14000000],
      [lo |-> 650000, hi |-> 950000, minUsd |-> 14000000, maxUsd |-> 49900000],
      [lo |-> 950000, hi |-> 1000000, minUsd |-> 50000000, maxUsd |-> 99900000]>>

\* A payout w for a roll r lies in the range, on the grid, of r's spec tier.
InSpecTier(r, w) ==
    \A k \in 1..4 :
        SpecTiers[k].lo <= r /\ r < SpecTiers[k].hi
        => /\ SpecTiers[k].minUsd <= w /\ w <= SpecTiers[k].maxUsd
           /\ (w - SpecTiers[k].minUsd) % REWARD_STEP = 0
=============================================================================
