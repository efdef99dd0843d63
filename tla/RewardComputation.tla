------------------------- MODULE RewardComputation -------------------------
(***************************************************************************)
(* process_vrf_result (utils/vrf_helper.rs), the computation the VRF       *)
(* callback runs on the 32 random bytes: for each card i it derives a      *)
(* per-card byte array from the shared randomness (derive_random_result),  *)
(* maps it to a reward through the tier table (map_to_tiered_distribution) *)
(* and adds it to the total; then it picks a pool from bytes 8..15 of the  *)
(* raw randomness (select_active_prize_pool).                              *)
(*                                                                         *)
(* The loop is a state machine with one step per card, so that the model   *)
(* records what each card derived and won.  Bytes are u8 values and every  *)
(* u8 operation keeps its wrapping (% 256).  A u64 read from eight bytes   *)
(* is only ever reduced modulo a small number, so it is computed modulo    *)
(* that number by Horner's rule, which gives the same residue without a    *)
(* 64-bit integer.                                                         *)
(***************************************************************************)
EXTENDS TierTable, Bitwise

CONSTANTS
    Seeds,        \* the 32-byte VRF outputs considered, as functions 0..31 -> 0..255
    CardCounts,   \* amount_of_cards values (request_mint allows 1..100)
    ActiveCounts, \* active_pool_count values of the config
    PoolIndices   \* config.active_pool_indices, a function 0..49 -> 0..255

ByteIdx == 0..31

\* u64::from_le_bytes(b[off..off+8]) % m.
LeU64Mod(b, off, m) ==
    LET h[k \in 0..8] == IF k = 0 THEN 0 ELSE (h[k - 1] * 256 + b[off + 8 - k]) % m
    IN  h[8]

\* The byte cascade result[i] ^= result[i-1].wrapping_mul(31), in order.
Cascade(r) ==
    LET c[j \in ByteIdx] == IF j = 0 THEN r[0]
                            ELSE r[j] ^^ ((c[j - 1] * 31) % 256)
    IN  c

\* Mutant: derive_random_result without the index mixing (only the cascade).
DeriveNoIndex(seed, index) == Cascade(seed)

\* derive_random_result(raw_seed, index).
DeriveRandomResult(seed, index) ==
    LET ib(k) == (index \div (256 ^ k)) % 256
        mixed == [j \in ByteIdx |->
                    ((seed[j] ^^ ib(j % 4)) + (((index % 256) * ((j + 1) % 256)) % 256)) % 256]
    IN  Cascade(mixed)

\* The tier a card's bytes select, from the roll of bytes 0..7.
TierOf(b) == TierOfRoll(LeU64Mod(b, 0, PROB_PRECISION))

\* map_to_tiered_distribution: tier minimum plus a whole number of steps.
MapToTieredDistribution(b) ==
    LET t == TierOf(b)
    IN  TierPayout(t, LeU64Mod(b, 8, Tiers[t].steps))

\* select_active_prize_pool on the raw randomness (bytes 8..15).
SelectActivePrizePool(seed, count) ==
    IF count = 0 THEN 0 ELSE PoolIndices[LeU64Mod(seed, 8, count)]

VARIABLES
    seed,          \* the randomness argument
    cards,         \* amount_of_cards
    activeCount,   \* config.active_pool_count
    i,             \* the loop counter
    total,         \* total_won_usd
    cardLog,       \* history: cardLog[c] = what card c derived and won
    selected,      \* selected_pool_index, once computed
    done           \* process_vrf_result has returned

rwVars == <<seed, cards, activeCount, i, total, cardLog, selected, done>>

RwTypeOK ==
    /\ seed \in Seeds
    /\ cards \in CardCounts
    /\ i \in 0..cards
    /\ total \in Nat
    /\ DOMAIN cardLog = 0..(i - 1)
    /\ done \in BOOLEAN

RwInit ==
    /\ seed \in Seeds
    /\ cards \in CardCounts
    /\ activeCount \in ActiveCounts
    /\ i = 0
    /\ total = 0
    /\ cardLog = [c \in {} |-> 0]
    /\ selected = 0
    /\ done = FALSE

\* Mutant: the loop running past amount_of_cards (0..=amount_of_cards).
CardStepNoBound ==
    LET d == DeriveRandomResult(seed, i)
        won == MapToTieredDistribution(d)
    IN
    /\ ~done
    /\ i <= cards
    /\ total' = total + won
    /\ cardLog' = [c \in 0..i |->
                     IF c = i THEN [derived |-> d, won |-> won] ELSE cardLog[c]]
    /\ i' = i + 1
    /\ UNCHANGED <<seed, cards, activeCount, selected, done>>

(***************************************************************************)
(* One iteration of `for i in 0..amount_of_cards`: derive, map, add.  The  *)
(* checked_add cannot fail: 100 cards of at most 99.9 USD stay far below   *)
(* 2^64 micro-USD.                                                         *)
(***************************************************************************)
CardStep ==
    LET d == DeriveRandomResult(seed, i)
        won == MapToTieredDistribution(d)
    IN
    /\ ~done
    /\ i < cards
    /\ total' = total + won
    /\ cardLog' = [c \in 0..i |->
                     IF c = i THEN [derived |-> d, won |-> won] ELSE cardLog[c]]
    /\ i' = i + 1
    /\ UNCHANGED <<seed, cards, activeCount, selected, done>>

\* After the loop: the pool choice, and the result is returned.
Finish ==
    /\ ~done
    /\ i = cards
    /\ selected' = SelectActivePrizePool(seed, activeCount)
    /\ done' = TRUE
    /\ UNCHANGED <<seed, cards, activeCount, i, total, cardLog>>

RwNext == CardStep \/ Finish

RwSpec == RwInit /\ [][RwNext]_rwVars

-----------------------------------------------------------------------------
(***************************************************************************)
(* Reference definition: the roll computed independently of LeU64Mod,    *)
(* to be compared with SpecTiers (TierTable).                              *)
(***************************************************************************)
\* The roll, as the sum of each byte times 256^k reduced modulo 10^6.
RefRoll(b) ==
    LET p[k \in 0..7] == IF k = 0 THEN 1 ELSE (p[k - 1] * 256) % PROB_PRECISION
        s[k \in 0..8] == IF k = 0 THEN 0 ELSE s[k - 1] + b[k - 1] * p[k - 1]
    IN  s[8] % PROB_PRECISION

(***************************************************************************)
(* Every card pays within the range of the tier its roll falls in, on a    *)
(* 0.1 USD grid: the tier table's minimum, step count and step size agree  *)
(* with the declared tier maxima (7.0, 14.0, 49.9, 99.9 USD), as the spec  *)
(* and the tier proptests require.                                         *)
(***************************************************************************)
RewardWithinTier ==
    \A c \in DOMAIN cardLog : InSpecTier(RefRoll(cardLog[c].derived), cardLog[c].won)

(***************************************************************************)
(* Cards of one draw are told apart (spec: "varying i alone must vary the  *)
(* per-item derived value"): no two cards of a request derive the same     *)
(* bytes from the shared randomness, so a multi-card draw is not one card  *)
(* paid n times.                                                           *)
(***************************************************************************)
CardsDistinct ==
    \A c1, c2 \in DOMAIN cardLog : c1 # c2 => cardLog[c1].derived # cardLog[c2].derived

(***************************************************************************)
(* The spec's tier table read literally ("Tier1 <= 150,000 -> [5.0, 7.0]", *)
(* and likewise for the other thresholds): a roll equal to a threshold     *)
(* belongs to the lower tier.                                              *)
(***************************************************************************)
SpecInclusiveThresholds ==
    \A c \in DOMAIN cardLog :
        LET r == RefRoll(cardLog[c].derived)
            w == cardLog[c].won
        IN  \A k \in 1..3 :
                r = SpecTiers[k].hi => w <= SpecTiers[k].maxUsd

=============================================================================
