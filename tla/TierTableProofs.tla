-------------------------- MODULE TierTableProofs --------------------------
(***************************************************************************)
(* The tier table agrees with the spec's tiers for every roll and every    *)
(* step index, not only for the seeds the reward run draws: the roll picks *)
(* the tier whose spec range holds it, and min + idx * step for an idx     *)
(* below the tier's step count stays within that tier's minimum and        *)
(* maximum, on the 0.1 USD grid.  The argument splits on the four ranges   *)
(* of the roll; in each, the CHOOSE of TierOfRoll has exactly one          *)
(* candidate.                                                              *)
(***************************************************************************)
EXTENDS TierTable, TLAPS

Rolls == {r \in Nat : r < PROB_PRECISION}

\* The tier each roll range selects: the candidate t satisfies the
\* if/else-if condition, and so does no other tier.
LEMMA TierOfRollIs ==
  ASSUME NEW roll \in Rolls, NEW t \in 1..4,
         roll < Tiers[t].threshold,
         \A u \in 1..(t - 1) : roll >= Tiers[u].threshold
  PROVE  TierOfRoll(roll) = t
<1>1. \A t2 \in 1..4 : (/\ roll < Tiers[t2].threshold
                        /\ \A u \in 1..(t2 - 1) : roll >= Tiers[u].threshold)
                       => t2 = t
  <2> TAKE t2 \in 1..4
  <2>1. CASE t2 < t
    <3>1. roll >= Tiers[t2].threshold
      BY <2>1
    <3>2. QED
      BY <3>1 DEF Tiers, PROB_PRECISION, Rolls
  <2>2. CASE t2 > t
    <3>1. t \in 1..(t2 - 1)
      BY <2>2
    <3>2. QED
      BY <3>1 DEF Tiers, PROB_PRECISION, Rolls
  <2>3. QED
    BY <2>1, <2>2
<1>2. QED
  BY <1>1 DEF TierOfRoll

\* A whole number of steps is on the grid.
LEMMA StepsOnGrid ==
  ASSUME NEW n \in Nat
  PROVE  (n * REWARD_STEP) % REWARD_STEP = 0
BY DEF REWARD_STEP

\* The spec's roll ranges are disjoint: a roll lies in at most one.
LEMMA SpecRangesDisjoint ==
  ASSUME NEW roll \in Rolls, NEW t \in 1..4, NEW k \in 1..4,
         SpecTiers[t].lo <= roll, roll < SpecTiers[t].hi,
         SpecTiers[k].lo <= roll, roll < SpecTiers[k].hi
  PROVE  k = t
BY DEF SpecTiers, Rolls, PROB_PRECISION

\* One tier: if its range holds the roll, its minimum is the spec's and its
\* last step reaches at most the spec's maximum, every index pays in range.
LEMMA TierCase ==
  ASSUME NEW roll \in Rolls, NEW t \in 1..4,
         SpecTiers[t].lo <= roll, roll < SpecTiers[t].hi,
         Tiers[t].minUsd = SpecTiers[t].minUsd,
         Tiers[t].minUsd + (Tiers[t].steps - 1) * REWARD_STEP <= SpecTiers[t].maxUsd,
         Tiers[t].steps \in Nat \ {0}, Tiers[t].minUsd \in Nat,
         NEW idx \in Nat, idx < Tiers[t].steps
  PROVE  InSpecTier(roll, TierPayout(t, idx))
<1> DEFINE w == TierPayout(t, idx)
<1>0. SpecTiers[t].maxUsd \in Nat
  BY DEF SpecTiers
<1>1. w - SpecTiers[t].minUsd = idx * REWARD_STEP
  BY DEF TierPayout, REWARD_STEP
<1>2. SpecTiers[t].minUsd <= w /\ w <= SpecTiers[t].maxUsd
  <2>1. idx * REWARD_STEP <= (Tiers[t].steps - 1) * REWARD_STEP
    BY DEF REWARD_STEP
  <2>2. QED
    BY <1>0, <2>1 DEF TierPayout, REWARD_STEP
<1>3. (w - SpecTiers[t].minUsd) % REWARD_STEP = 0
  BY <1>1, StepsOnGrid
<1>4. QED
  BY <1>2, <1>3, SpecRangesDisjoint DEF InSpecTier

(***************************************************************************)
(* map_to_tiered_distribution pays within the spec's tier range: for every *)
(* tier_roll below PROB_PRECISION and every step index below the chosen    *)
(* tier's step count (what step_entropy % steps yields), the payout lies   *)
(* in [TIERk_MIN, TIERk_MAX] of the spec tier k holding the roll, a whole  *)
(* number of REWARD_STEPs above TIERk_MIN.                                 *)
(***************************************************************************)
THEOREM TierPayoutWithinSpec ==
  ASSUME NEW roll \in Rolls, NEW idx \in Nat, idx < Tiers[TierOfRoll(roll)].steps
  PROVE  InSpecTier(roll, TierPayout(TierOfRoll(roll), idx))
<1>1. CASE roll < 150000
  <2>1. TierOfRoll(roll) = 1
    BY <1>1, TierOfRollIs DEF Tiers, Rolls, PROB_PRECISION
  <2>2. /\ SpecTiers[1].lo <= roll /\ roll < SpecTiers[1].hi
        /\ Tiers[1].minUsd = SpecTiers[1].minUsd
        /\ Tiers[1].minUsd + (Tiers[1].steps - 1) * REWARD_STEP <= SpecTiers[1].maxUsd
        /\ Tiers[1].steps \in Nat \ {0} /\ Tiers[1].minUsd \in Nat
    BY <1>1 DEF SpecTiers, Tiers, REWARD_STEP, Rolls, PROB_PRECISION
  <2>3. QED
    BY <2>1, <2>2, TierCase
<1>2. CASE 150000 <= roll /\ roll < 650000
  <2>1. TierOfRoll(roll) = 2
    BY <1>2, TierOfRollIs DEF Tiers, Rolls, PROB_PRECISION
  <2>2. /\ SpecTiers[2].lo <= roll /\ roll < SpecTiers[2].hi
        /\ Tiers[2].minUsd = SpecTiers[2].minUsd
        /\ Tiers[2].minUsd + (Tiers[2].steps - 1) * REWARD_STEP <= SpecTiers[2].maxUsd
        /\ Tiers[2].steps \in Nat \ {0} /\ Tiers[2].minUsd \in Nat
    BY <1>2 DEF SpecTiers, Tiers, REWARD_STEP, Rolls, PROB_PRECISION
  <2>3. QED
    BY <2>1, <2>2, TierCase
<1>3. CASE 650000 <= roll /\ roll < 950000
  <2>1. TierOfRoll(roll) = 3
    BY <1>3, TierOfRollIs DEF Tiers, Rolls, PROB_PRECISION
  <2>2. /\ SpecTiers[3].lo <= roll /\ roll < SpecTiers[3].hi
        /\ Tiers[3].minUsd = SpecTiers[3].minUsd
        /\ Tiers[3].minUsd + (Tiers[3].steps - 1) * REWARD_STEP <= SpecTiers[3].maxUsd
        /\ Tiers[3].steps \in Nat \ {0} /\ Tiers[3].minUsd \in Nat
    BY <1>3 DEF SpecTiers, Tiers, REWARD_STEP, Rolls, PROB_PRECISION
  <2>3. QED
    BY <2>1, <2>2, TierCase
<1>4. CASE 950000 <= roll
  <2>1. TierOfRoll(roll) = 4
    BY <1>4, TierOfRollIs DEF Tiers, Rolls, PROB_PRECISION
  <2>2. /\ SpecTiers[4].lo <= roll /\ roll < SpecTiers[4].hi
        /\ Tiers[4].minUsd = SpecTiers[4].minUsd
        /\ Tiers[4].minUsd + (Tiers[4].steps - 1) * REWARD_STEP <= SpecTiers[4].maxUsd
        /\ Tiers[4].steps \in Nat \ {0} /\ Tiers[4].minUsd \in Nat
    BY <1>4 DEF SpecTiers, Tiers, REWARD_STEP, Rolls, PROB_PRECISION
  <2>3. QED
    BY <2>1, <2>2, TierCase
<1>5. QED
  BY <1>1, <1>2, <1>3, <1>4 DEF Rolls, PROB_PRECISION
=============================================================================
