# TLA+ models of the ipflow_v3 card-machine program

This directory holds TLA+ models of the Solana/Anchor program in `src/`. It contains
TLC configurations that model-check them on small instances, and TLAPS proofs of the
registry's and the lifecycle's invariants and refinements for every value of the
constants.

## The system

The program sells "cards": a user pays 10 USD per card, a VRF oracle answers with
randomness, and the user collects a reward. The parts are:

| Part | Code | What it does |
|---|---|---|
| Global config (`IPFlowState`) | `state/global_config.rs`, `instructions/admin/initialize.rs` | admin, fee, the prize-pool registry (id counter, active count, `active_pool_indices`), oracle queue, refund timeout; `initialize`, `migrate_config`, `close_config` |
| Prize pools | `instructions/admin/prize_pool.rs`, `state/prize_pool.rs` | one PDA per pool id; `add/remove/update_prize_pool` maintain the packed active list |
| Mint requests | `instructions/user/request_mint.rs`, `state/mint_request.rs` | PDA at `[mint_request, user, request_slot]`; takes the stake (SOL via Pyth, or USDT) into the vault and sends a VRF request naming the PDA |
| VRF callback | `instructions/oracle/consume_randomness.rs`, `utils/vrf_helper.rs` | `consume_lottery_randomness`: Pending → Revealed, computes the reward and picks an active pool |
| Settlement | `instructions/user/claim.rs`, `utils/{jupiter_cpi,raydium_cpi,wsol_helper}.rs` | `claim` within 24 h: 95% in SOL, or 100% swapped to a token via Jupiter or Raydium; closes the PDA |
| Refund | `instructions/user/refund.rs` | `refund` of a Pending request after `request_timeout_seconds`; closes the PDA |
| Vault | `instructions/admin/withdraw.rs` | the shared `[vault]` PDA and its USDT account; admin `withdraw_sol` / `withdraw_token` |
| Price | `utils/pyth_oracle.rs` | USD → lamports at the Pyth SOL/USD quote |

Each instruction is a single Solana transaction. It either commits all of its writes or
none of them, and the runtime serialises transactions that write the same account. So
each instruction is **one action** in the models. Its guard collects the handler's
`require!`s, the Anchor account constraints in `lib.rs` (`init` fails on an existing
account, `close` deletes it, `status == Pending`, ...) and the runtime's rent rule. What
interleaves is the instructions of different actors: users, the oracle and the admin.
Concurrency is in the order of transactions, not inside one.

## Modules

* **`PrizePoolRegistry`** models the config's registry fields and the PrizePoolAccount
  PDAs.
  * Variables:
    * `prizePoolCount` is `prize_pool_count`.
    * `activePoolCount` is `active_pool_count`.
    * `activePoolIndices` is `active_pool_indices`, with `Sentinel` = 255.
    * `prizePool` holds each PDA's `swap_pool`, or `NoPool` when the PDA does not exist.
    * `configLive` says whether the config account exists.
  * Actions: `AddPrizePool`, `RemovePrizePool` (with `FoundPos` for the linear scan and
    `ShiftOut` for the shift loop and the cleared last slot), `UpdatePrizePool`,
    `MigrateConfig`, `CloseConfig` and `Initialize`.
  * `OverflowChecks` chooses whether `prize_pool_count += 1` traps or wraps at the u8
    limit.
* **`MintLifecycle`** EXTENDS the registry and adds the rest of the state:
  * `req` holds the MintRequest PDAs by address, with fields as in `MintRequest`.
  * `vrfRequests` and `callbacks` are the VRF requests not yet answered and the
    callback transactions the oracle submitted.
  * `vaultSol` and `vaultUsdt` are the vault balances.
  * `slot` and `now` are the clock.
  * Actions: `RequestMint`, `OracleFulfil`, `ConsumeLotteryRandomness`,
    `CallbackRejected` (a callback whose transaction fails), `Claim` (both payout modes),
    `Refund`, `WithdrawSol`, `WithdrawToken`, `Tick` and `RegistryStep`.
  * History used only by the properties: each request's `id` (the ordinal of the
    `request_mint` call that created it) and `src` (the request whose randomness it
    consumed), and the sets `revealedIds`, `claimedIds` and `refundedIds`.
  * Abstractions:
    * The per-card reward is a constant operator `TotalWon(entropy, cards)`.
    * The entropy is the u64 the pool selection reads.
    * `select_active_prize_pool` is kept exactly (`activePoolIndices[w % activePoolCount]`).
    * Prices are one fixed quote with the integer division kept.
    * The Token payout is modelled as the Raydium route: the vault's lamports are
      wrapped and spent.
* **`RewardComputation`** models `process_vrf_result` (`utils/vrf_helper.rs`) on its
  own, card by card.
  * Variables: the arguments (`seed`, `cards`, `activeCount`), the loop counter `i`,
    `total` (`total_won_usd`), `selected`, `done`, and the history `cardLog` (what
    each card derived and won).
  * Actions: `CardStep` is one loop iteration (`derive_random_result`,
    `map_to_tiered_distribution`, the add); `Finish` is `select_active_prize_pool` and
    the return.
  * `DeriveRandomResult` keeps every u8 operation: the XOR with the index's
    little-endian bytes, the wrapping `(index as u8) * (i + 1)`, and the x31 byte
    cascade (`Cascade`, a recursive function). XOR is Bitwise's `^^`.
  * A u64 read from eight bytes is only ever reduced modulo 10^6, a step count or the
    pool count. `LeU64Mod` computes that residue exactly by Horner's rule, so no 64-bit
    integer is needed.
  * The tier table and the choice made from it are in **`TierTable`**, which
    `RewardComputation` extends: `Tiers`, `PROB_PRECISION` and `REWARD_STEP` are
    `constants.rs`; `TierOfRoll` is the if/else-if chain on `tier_roll`, and
    `TierPayout` is `min_usd + idx * REWARD_STEP`. `TierTable` uses only naturals, so
    it can be reasoned about for every roll (see Proofs).
  * `SpecTiers` (in `TierTable`) and `RefRoll` are reference definitions taken from
    the spec's tier table and the tier proptests, not from the code. `RefRoll`
    computes the roll a second way, as a sum of bytes times powers of 256.
  * `checked_add` cannot fail: 100 cards of at most 99.9 USD are far below 2^64, so
    its error path is left out.
* **`PrizePoolSet`** is the abstract specification of the registry: a set `active` of
  at most `MaxPrizePools` pools, the accounts `pools`, and `open`. Its actions are
  `Activate` (an id without an account joins the set), `Retire` (an active id leaves
  the set and its account closes), `Retarget`, `Close` and `Reopen` (which forgets
  the set but keeps the accounts). `PrizePoolRegistry` implements it under
  `active <- ActiveIds` (see Proofs).
* **`RequestLifecycle`** is the abstract per-request specification. Ordinals are
  created in order and each goes None → Pending → Revealed → Claimed, or
  Pending → Refunded. `MintLifecycle` implements it (see Proofs).
* **`PrizePoolRegistryProofs`** holds the TLAPS proofs about the registry,
  **`RegistryRefinementProofs`** the proof that it implements `PrizePoolSet`,
  **`LifecycleRegistryProofs`** the proof that the whole program still does,
  **`MintLifecycleProofs`** those about the lifecycle, **`RandomnessBindingProofs`**
  the proof that revealed randomness belongs to its request, and
  **`TierTableProofs`** the proof about the tier table.
* **`MCPrizePoolRegistry`**, **`MCMintLifecycle`** and **`MCRewardComputation`** are the
  model-checking instances.

## Runs

| Run | cfg | Expect | Shows |
|---|---|---|---|
| registry | `MCPrizePoolRegistry.cfg` | pass | `RegTypeOK`, `ActiveListPacked`, `ImplementsPrizePoolSet`: every add/remove/update/migrate/close/initialize sequence keeps the active list packed, duplicate-free and naming live PDAs, and is a behaviour of `PrizePoolSet` (728 states) |
| registry_orphans | `MCRegistryOrphan.cfg` | violation | `NoOrphanPools`: `close_config` + `initialize` orphan the existing pool PDAs |
| registry_id_reuse | `MCRegistryIdReuse.cfg` | violation | `IdCounterNeverDecreases`: `migrate_config` rewinds the id counter, contrary to the spec's "never decremented" |
| lifecycle | `MCMintLifecycle.cfg` | pass | `TypeOK`, `RandomnessBoundToRequest`, `NoFreeOption`, `RevealSelectsActivePool` with single delivery of callbacks (about 3.9 M states, under 2 minutes) |
| lifecycle_replay | `MCMintReplay.cfg` | violation | `RandomnessBoundToRequest` fails when the oracle may redeliver a callback: claim, re-request at the same slot, and the old randomness reveals the new request |
| lifecycle_unreserved | `MCMintUnreserved.cfg` | violation | `PendingStakeFunded`: another user's claim drains the vault below a Pending stake, even with no withdrawals |
| lifecycle_refund_rent | `MCMintRefundRent.cfg` | violation | `RefundCheckSuffices`: with a rent minimum of 5 and a vault starting at 5, a mint (vault 15) and a withdrawal of 2 leave 13. After the timeout, refund's check `vault >= paid_amount` passes, but the transfer would leave 3 lamports, which the runtime rejects. `claim` and `withdraw_sol` keep the rent back; `refund` does not. |
| lifecycle_refinement | `MCMintRefinement.cfg` | pass | `ImplementsRequestLifecycle`: every lifecycle behaviour is a `RequestLifecycle` behaviour under `AbsPhase` (667 K states, about 30 s) |
| lifecycle_liveness | `MCMintLiveness.cfg` | pass | `PendingEventuallyResolved` under `FairSpec`: a request whose oracle answer is outstanding is eventually revealed or refunded, unless the config is closed (about 1 minute) |
| reward | `MCRewardComputation.cfg` | pass | `RwTypeOK`, `RewardWithinTier`, `CardsDistinct` on 6 seeds × {1, 3, 20} cards × {0, 3} active pools (360 states) |
| reward_threshold | `MCRewardBoundary.cfg` | violation | `SpecInclusiveThresholds`: a roll of exactly 150,000 is paid as tier 2 (9.0 USD), while the spec's table says "Tier1 ≤ 150,000" |

Each property of a passing run has a mutant in `PROJECT.json`: an operator next to the
code it mutates (a dropped guard, a missing shift, a wrong modulus). TLC finds each
mutant's property violated.

### Bounds

* **Registry:** 2 slots and ids 0..3. This covers removal from the front and the back
  of a full list, and the overflow guard at id 3, which stands for 255 and doubles as
  the sentinel.
* **Lifecycle:**
  * One user with 4 slots, so request addresses `[user, slot]` get reused.
  * The `request_slot` window is 1 slot, the refund timeout 1 s and the claim window
    2 s, with at most 1 s per slot.
  * 2 requests, 1 card, 2 entropies. One entropy is a small win that keeps the vault
    solvent, the other a large win that drains it.
  * The stake is 10 and the vault starts at 30.
  * A 2-slot registry with 3 ids.
* **Why these bounds are enough:**
  * A refund needs at least two slots. By then the creating slot is outside the window,
    so the address cannot be reused after a refund. This matches the real ratio:
    45 s against 10 slots of about 0.4 s.
  * After a claim, reuse is possible within one slot, and the runs reach it.
* **Refinement and liveness runs:** the lifecycle instance with a 1-slot registry and
  2 ids, because the temporal checks are costlier.
* **Reward:**
  * The seeds are the constant seeds of the unit tests (0, 255, 123, 99).
    `AllTiersSeed` has cards 0 to 3 in tiers 1, 3, 4, 2, and 4 tier-4 cards in 20.
    `BoundarySeed` was built backwards through the cascade so that card 0 rolls
    exactly 150,000.
  * 20 cards per draw keep every total below TLC's 2^31.
  * The totals of all six seeds at 20 cards were compared once with an independent
    implementation of the Rust functions.
  * The tier-3 mutant is caught because the all-99 seed's card 1 is tier 3 with a
    step residue of 431 modulo 500.
* **What the lifecycle run leaves to the registry run:** `MigrateConfig` has no
  arguments in the lifecycle run (`MigrateCounts = {}`), to keep the product state space
  small. The registry run exercises it.

### Fairness

The program does nothing by itself: every step is a transaction someone submits.
`FairSpec` assumes only what the design already relies on from the VRF service:

* weak fairness of `OracleFulfil`: the oracle answers the requests it was sent;
* weak fairness of callback execution: a submitted callback transaction is eventually
  executed. It either succeeds (`ConsumeLotteryRandomness`) or fails
  (`CallbackRejected`).

Nothing is assumed of users or the admin: refund, claim and admin instructions may
never happen. Under `FairSpec`, `PendingEventuallyResolved` holds. It excuses a closed
config: after `close_config`, the callbacks fail, and the Pending requests then wait
for their owners' refunds, which is what refund is for.

## Proofs

`PrizePoolRegistryProofs` proves, for all constants satisfying `RegistryAssumption`:

* `RegTypeCorrect`: `RegSpec => []RegTypeOK`;
* `RegActiveListPacked`: `RegSpec => []ActiveListPacked`.

`RegistryAssumption` says the capacity is positive, ids have more values than the
capacity, `NoPool` is not a destination, and migrate arguments are valid u8 values.

`ActiveListPacked` is not inductive alone, and neither is `RegTypeOK`, because
`remove_prize_pool`'s scan (`FoundPos`, a CHOOSE) is only known to land on the id when
the list has no repeats. The inductive invariant is `RegInv == RegTypeOK /\ ActiveListPacked`:

* **Add:** the new id has no PrizePoolAccount. That is the `init` constraint on PDA
  `[prize_pool, prize_pool_count]`. So the new id differs from every active id.
* **Remove:** the lemma `FoundPosCorrect` shows that the scan stops at the only
  position of the id. Every entry of the shifted list is then an old entry other than
  the removed id, so its PDA still exists.

The proofs hold for both overflow modes and any capacity.

`RegistryRefinementProofs` proves `RegRefinesPrizePoolSet`:
`RegSpec => ImplementsPrizePoolSet`, where
`PS == INSTANCE PrizePoolSet WITH Ids <- PoolIds, active <- ActiveIds, pools <- prizePool, open <- configLive`.

* Initial states map to `SetInit` (`RefineRegInit`).
* Under `RegInv`, each step maps to a step or a stutter (`RefineRegStep`):
  * `add_prize_pool` is `Activate(prize_pool_count, d)`:
    * the lemma `AddActivates` shows that the set gains exactly the new id;
    * the lemma `ActiveIdsCount` shows that `Cardinality(ActiveIds) = active_pool_count`.
      The slots are distinct, so reading them is a bijection onto the set
      (`FS_Bijection` of FiniteSetTheorems). The code's `count < MAX_PRIZE_POOLS` is
      therefore the abstract capacity guard.
  * `remove_prize_pool` is `Retire(id)`. The lemma `RemoveRetires` shows that the scan,
    the shift and the cleared last slot drop exactly `id`. Entries before the found
    position stay, later ones move left, and `id` occurs once.
  * `update_prize_pool` is `Retarget`, `close_config` is `Close`, and `initialize` is
    `Reopen`.
  * `migrate_config` is a stutter. It keeps a non-empty list, and rewrites an empty one
    as empty.

`LifecycleRegistryProofs` proves `LifeRefinesPrizePoolSet`:
`Spec => ImplementsPrizePoolSet` for the whole lifecycle. Every instruction other
than an admin registry one leaves the registry fields unchanged
(`LifeStepLeavesRegistry`), so it is a stutter of `PrizePoolSet`. The admin
instructions reuse `RefineRegStep`, with `RegInv` taken from `LifeInv`. TLC agrees on
the `MCMintRefinement.cfg` instance (666,544 states). No run lists this property for
the lifecycle: that instance has a one-slot registry, where a wrong shift cannot be
told apart from the right one.

The refinement needs `ActiveListPacked`: with a repeated id, a remove would leave the
id active while closing its account. The `registry` run's mutant for this property
(`ShiftOutNoShift`, which clears the last slot without shifting) shows that TLC
catches a wrong shift.

`MintLifecycleProofs` proves, for all constants satisfying `RegistryAssumption`,
`LifecycleAssumption` and `NoRequestAssumption` (the "no account" marker is not a
request record):

* `LifeTypeCorrect`: `Spec => []TypeOK`. `TypeOK` is inductive together with the
  registry's `RegInv`. The callback's `selected_pool_index` is an id only because the
  active list holds ids, and `RegistryStep` reuses the registry lemmas.
* `NoFreeOptionHolds`: `Spec => []NoFreeOption`. The inductive invariant `LifeInv` adds:
  * `LiveRequestsFresh`: each live MintRequest has an ordinal in `1..nextId` that no
    claim or refund has used, its status is Pending or Revealed, and its ordinal is in
    `revealedIds` exactly when it is Revealed;
  * `LiveIdsDistinct`: two live requests never share an ordinal;
  * `HistoryConsistent`: the history sets hold only issued ordinals, every claimed
    ordinal was revealed, and no refunded ordinal was revealed.

  A refund closes a Pending request, whose ordinal is therefore not revealed. A claim
  closes a Revealed one, whose ordinal is therefore not refunded. The callback reveals a
  Pending one, which is fresh. `request_mint` hands out `nextId + 1`, which no set holds.
  Record updates of the callback go through the lemma `RevealFields`.

* `LifeRefinesRequestLifecycle`: `Spec => ImplementsRequestLifecycle`, that is,
  `Spec => Abs!AbsSpec`, where
  `Abs == INSTANCE RequestLifecycle WITH issued <- nextId, phase <- AbsPhase`.
  * `AbsPhase` reads each ordinal's phase off the history sets.
  * Initial states map to `AbsInit` (`RefineInit`).
  * Each step, under `LifeInv`, maps to a step or a stutter:
    * `request_mint` is `Create` (`RefineRequestMint`);
    * the callback is `Reveal` of the request's ordinal (`RefineConsume`, using
      `PendingOrdinal`: the live Pending request's ordinal is abstractly Pending);
    * `claim` is `Settle` (`RefineClaim`);
    * `refund` is `Refund` (`RefineRefund`);
    * every other action leaves `nextId` and the history unchanged, hence a stutter.
  * `LifeInv` is needed because the mapping is on ordinals and the actions are on
    addresses. Only the freshness and distinctness of live ordinals tie the two
    together.

* `RevealSelectsActivePoolHolds`: `Spec => RevealSelectsActivePool`, an action
  property proved from `[]LifeInv`. Only the callback turns a live Pending request
  Revealed. It writes `SelectActivePrizePool(entropy)`, which is
  `activePoolIndices[w % activePoolCount]`. That position is below the count, so
  `ActiveListPacked` (part of `RegInv`, inside `LifeInv`) gives an active id with a
  PrizePoolAccount (lemma `SelectActiveLive`). Every other action creates, closes or
  leaves the request.

`RandomnessBindingProofs` proves `RandomnessBindingHolds`:
`Spec => []RandomnessBoundToRequest`, under two hypotheses besides the lifecycle
assumptions. TLC shows that neither can be dropped:

* `SingleDelivery` (`DuplicateDelivery = FALSE`): each oracle answer is delivered at
  most once. The `lifecycle_replay` run shows that a replayed answer violates the
  property.
* `WindowWithinTimeout`:
  `RequestTimeout >= SlotTolerance * MaxSecondsPerSlot`. The refund timeout covers the
  slots during which an answer may still land. With `RequestTimeout = 0`, TLC finds a
  refund followed by a new `request_mint` at the same address, and the old answer
  then reveals the new request. The deployed value is 45 s (`initialize.rs:24`) for a
  10-slot window, so the hypothesis asks for at most 4.5 s per slot; slots take about
  0.4 s.

The inductive invariant `BindInv` is `LifeInv` with four additions:

* `OutstandingDistinct`: the ids of outstanding oracle requests and callbacks are
  unique, and all are at most `nextId`.
* `OutstandingBound` (through `AnswerTarget`): each outstanding answer targets either
  its own still-Pending request, or an address whose slot is past the tolerance
  window. `request_mint` only accepts a request slot within `SlotTolerance` of the
  current slot, so it never recreates such an address, and a late answer finds no
  account there.
* `ClockBound`: a live request's age in seconds is bounded by its age in slots times
  `MaxSecondsPerSlot`.
* `RandomnessBoundToRequest` itself.

`ClockBound` and `WindowWithinTimeout` are what make a refund safe. A request that can
be refunded is older than the timeout, so it is more than `SlotTolerance` slots old
(lemma `SlotsFromSeconds`), and its pending answers then target a dead window.
`SingleDelivery` makes a consumed callback disappear, so it cannot reveal a later
request. The MC configurations satisfy both hypotheses.

`TierTableProofs` proves `TierPayoutWithinSpec`. For every `tier_roll` below
`PROB_PRECISION` and every step index below the chosen tier's step count, the payout
`TierPayout(TierOfRoll(roll), idx)` lies within `[minUsd, maxUsd]` of the spec tier
holding the roll (`InSpecTier`), a whole number of `REWARD_STEP`s above `minUsd`. The
proof splits on the four roll ranges. In each, `TierOfRollIs` shows that the CHOOSE of
`TierOfRoll` has exactly one candidate, and `TierCase` bounds the payout.

This is the table half of `RewardWithinTier`. The other half is that
`LeU64Mod(b, 0, PROB_PRECISION)` equals the reference roll `RefRoll(b)`, and that
`LeU64Mod(b, 8, steps)` is below `steps`. That half concerns `RewardComputation`'s
byte reading, which uses Bitwise and recursive functions, and it stays with TLC.

Checked by TLC only:

* the liveness properties, because they are temporal properties under fairness, and
  ENABLED is out of the prover's reach;
* the reward computation as a whole (`RwTypeOK`, `RewardWithinTier`, `CardsDistinct`).
  `DeriveRandomResult` needs Bitwise's XOR, which no module with a theorem may reach.
  What a recursive function (`LeU64Mod`, `Cascade`, `RefRoll`) computes for every
  input would need induction over data, which the installed provers cannot
  instantiate. TLC checks these on the chosen seeds, and the tier table is proved
  above for every roll.

## Not modelled

* **The swap programs** (Jupiter, Raydium, WSOL wrapping). Their effect on the vault is
  folded into `Claim`.
* **The per-card reward inside the lifecycle.** `MintLifecycle` keeps `TotalWon` as an
  operator. The reward itself is checked in `RewardComputation`. Composing the two
  would multiply the lifecycle's state space by the seeds for no new interleaving,
  because the computation happens inside one transaction.
* **`map_to_linear_curve` and `integer_sqrt`.** They are dead code
  (`#[allow(dead_code)]`), and no instruction calls them.
* **Pyth price staleness.**
* **Events and error codes.**
* **`is_paused`.** Nothing ever sets it, so `request_mint`'s check always passes.
* **Admin signature checks.** A wrong signer only produces an error with no state change.

## Plan

1. **Settlement.** A model of the Jupiter route's account checks (`swap_via_jupiter`),
   to ask whether a caller-chosen route can debit the vault's USDT account.
2. **Refund liveness.** Under fairness of the owner's refund, and with the clock
   unbounded, a Pending request in a solvent vault is eventually refunded.
3. **More proofs.** `CardsDistinct` for the first 256 cards would follow from the
   index byte being XORed into byte 0, if the cascade could be reasoned about without
   Bitwise.
