------------------------- MODULE PrizePoolRegistry -------------------------
(***************************************************************************)
(* The prize-pool registry kept in the global config account (IPFlowState) *)
(* and the PrizePoolAccount PDAs it indexes.                                *)
(*                                                                         *)
(*   prizePoolCount     config.prize_pool_count  (u8, next id to allocate) *)
(*   activePoolCount    config.active_pool_count (u8)                      *)
(*   activePoolIndices  config.active_pool_indices ([u8; 50], 255 = empty) *)
(*   prizePool          the PrizePoolAccount PDA at seeds [prize_pool, id]:*)
(*                      its swap_pool, or NoPool when no account exists    *)
(*   configLive         the config PDA exists (close_config removes it)    *)
(*                                                                         *)
(* Every instruction is one Solana transaction: it either commits all of   *)
(* its writes or, on any error, none, so each is a single action whose     *)
(* guard collects the require!s, Anchor constraints and panics of the      *)
(* handler.  Admin signature checks only turn away non-admin callers with  *)
(* no state change and are not modelled.                                   *)
(***************************************************************************)
EXTENDS Naturals, FiniteSets

CONSTANTS
    MaxPrizePools,   \* MAX_PRIZE_POOLS (50): capacity of active_pool_indices
    IdBound,         \* number of u8 values (256); ids are 0..IdBound-1
    OverflowChecks,  \* TRUE when the build traps on u8 overflow, FALSE if it wraps
    Dests,           \* swap_pool addresses an admin may register
    NoPool,          \* no PrizePoolAccount at this id
    MigrateCounts    \* prize_pool_count values an admin may pass to migrate_config

ASSUME RegistryAssumption ==
    /\ MaxPrizePools \in Nat \ {0}
    /\ IdBound \in Nat
    /\ MaxPrizePools < IdBound
    /\ OverflowChecks \in BOOLEAN
    /\ NoPool \notin Dests
    /\ MigrateCounts \subseteq 0..(IdBound - 1)

\* Pool ids are u8 values; 255 (IdBound - 1) doubles as the empty marker.
PoolIds == 0..(IdBound - 1)
Sentinel == IdBound - 1
Slots == 0..(MaxPrizePools - 1)

VARIABLES prizePoolCount, activePoolCount, activePoolIndices, prizePool,
          configLive

regVars == <<prizePoolCount, activePoolCount, activePoolIndices, prizePool,
             configLive>>

\* Positions of active_pool_indices that hold active ids.
ActivePositions == 0..(activePoolCount - 1)

\* The ids the VRF callback can select from.
ActiveIds == {activePoolIndices[i] : i \in ActivePositions}

\* Ids that have a PrizePoolAccount.
ExistingIds == {id \in PoolIds : prizePool[id] # NoPool}

EmptyIndices == [i \in Slots |-> Sentinel]

RegTypeOK ==
    /\ prizePoolCount \in PoolIds
    /\ activePoolCount \in 0..MaxPrizePools
    /\ activePoolIndices \in [Slots -> PoolIds]
    /\ prizePool \in [PoolIds -> Dests \cup {NoPool}]
    /\ configLive \in BOOLEAN

\* The registry after `initialize`: no pools.
RegInit ==
    /\ prizePoolCount = 0
    /\ activePoolCount = 0
    /\ activePoolIndices = EmptyIndices
    /\ prizePool = [id \in PoolIds |-> NoPool]
    /\ configLive = TRUE

(***************************************************************************)
(* add_prize_pool: Anchor `init` of [prize_pool, prize_pool_count] fails   *)
(* if that PDA exists; the handler requires a free slot, appends the id    *)
(* and bumps both counters.  `prize_pool_count += 1` on a u8 traps at 255  *)
(* under overflow checks and wraps to 0 otherwise.                         *)
(***************************************************************************)
\* Mutant: add_prize_pool without the MAX_PRIZE_POOLS capacity check.
AddPrizePoolUnbounded(d) ==
    /\ configLive
    /\ prizePool[prizePoolCount] = NoPool
    /\ OverflowChecks => prizePoolCount + 1 < IdBound
    /\ prizePool' = [prizePool EXCEPT ![prizePoolCount] = d]
    /\ activePoolIndices' = [activePoolIndices EXCEPT ![activePoolCount] = prizePoolCount]
    /\ activePoolCount' = activePoolCount + 1
    /\ prizePoolCount' = (prizePoolCount + 1) % IdBound
    /\ UNCHANGED configLive

AddPrizePool(d) ==
    /\ configLive
    /\ prizePool[prizePoolCount] = NoPool
    /\ activePoolCount < MaxPrizePools
    /\ OverflowChecks => prizePoolCount + 1 < IdBound
    /\ prizePool' = [prizePool EXCEPT ![prizePoolCount] = d]
    /\ activePoolIndices' = [activePoolIndices EXCEPT ![activePoolCount] = prizePoolCount]
    /\ activePoolCount' = activePoolCount + 1
    /\ prizePoolCount' = (prizePoolCount + 1) % IdBound
    /\ UNCHANGED configLive

\* The position the linear scan of remove_prize_pool stops at (first match).
FoundPos(id) ==
    CHOOSE p \in ActivePositions :
        /\ activePoolIndices[p] = id
        /\ \A q \in 0..(p - 1) : activePoolIndices[q] # id

\* Mutant: remove_prize_pool clearing the last slot without the shift loop.
ShiftOutNoShift(pos) ==
    [i \in Slots |->
        IF i = activePoolCount - 1 THEN Sentinel ELSE activePoolIndices[i]]

\* Entries after pos move left by one; the vacated last slot becomes 255.
ShiftOut(pos) ==
    [i \in Slots |->
        IF i = activePoolCount - 1 THEN Sentinel
        ELSE IF pos <= i /\ i < activePoolCount - 1 THEN activePoolIndices[i + 1]
        ELSE activePoolIndices[i]]

(***************************************************************************)
(* remove_prize_pool: the PDA at [prize_pool, id] must exist; requires     *)
(* active_pool_count > 0 and that the scan finds id (else                  *)
(* InvalidPrizePoolIndex); compacts, decrements the count and closes the   *)
(* PDA.  prize_pool_count is left alone.                                   *)
(***************************************************************************)
RemovePrizePool(id) ==
    /\ configLive
    /\ prizePool[id] # NoPool
    /\ activePoolCount > 0
    /\ \E p \in ActivePositions : activePoolIndices[p] = id
    /\ activePoolIndices' = ShiftOut(FoundPos(id))
    /\ activePoolCount' = activePoolCount - 1
    /\ prizePool' = [prizePool EXCEPT ![id] = NoPool]
    /\ UNCHANGED <<prizePoolCount, configLive>>

\* update_prize_pool with Some(swap_pool): rewrites the PDA in place.
UpdatePrizePool(id, d) ==
    /\ configLive
    /\ prizePool[id] # NoPool
    /\ prizePool' = [prizePool EXCEPT ![id] = d]
    /\ UNCHANGED <<prizePoolCount, activePoolCount, activePoolIndices, configLive>>

(***************************************************************************)
(* migrate_config(prize_pool_count): overwrites the id counter with the    *)
(* admin's argument; keeps the active list when active_pool_count > 0 and  *)
(* resets it to empty otherwise.                                           *)
(***************************************************************************)
MigrateConfig(n) ==
    /\ configLive
    /\ prizePoolCount' = n
    /\ IF activePoolCount > 0
         THEN UNCHANGED <<activePoolCount, activePoolIndices>>
         ELSE /\ activePoolCount' = 0
              /\ activePoolIndices' = EmptyIndices
    /\ UNCHANGED <<prizePool, configLive>>

\* close_config: drains the config's lamports, so the runtime deletes it.
\* The PrizePoolAccount PDAs are not touched.
CloseConfig ==
    /\ configLive
    /\ configLive' = FALSE
    /\ UNCHANGED <<prizePoolCount, activePoolCount, activePoolIndices, prizePool>>

\* initialize: Anchor `init` of the config PDA succeeds only when it does
\* not exist; the handler starts the registry empty.
Initialize ==
    /\ ~configLive
    /\ configLive' = TRUE
    /\ prizePoolCount' = 0
    /\ activePoolCount' = 0
    /\ activePoolIndices' = EmptyIndices
    /\ UNCHANGED prizePool

RegNext ==
    \/ \E d \in Dests : AddPrizePool(d)
    \/ \E id \in PoolIds : RemovePrizePool(id)
    \/ \E id \in PoolIds, d \in Dests : UpdatePrizePool(id, d)
    \/ \E n \in MigrateCounts : MigrateConfig(n)
    \/ CloseConfig
    \/ Initialize

RegSpec == RegInit /\ [][RegNext]_regVars

-----------------------------------------------------------------------------
(***************************************************************************)
(* Properties.                                                             *)
(***************************************************************************)

(***************************************************************************)
(* The active list is packed and names live pools, each once: after any    *)
(* sequence of add/remove/migrate/close/initialize, the first              *)
(* active_pool_count slots hold distinct ids that all have a               *)
(* PrizePoolAccount, and every later slot is 255.  The VRF callback's      *)
(* `active_pool_indices[vrf % active_pool_count]` relies on this; the      *)
(* shift loop and trailing clear of remove_prize_pool maintain it.         *)
(***************************************************************************)
ActiveListPacked ==
    /\ \A i \in Slots : i >= activePoolCount => activePoolIndices[i] = Sentinel
    /\ \A i, j \in ActivePositions : i # j => activePoolIndices[i] # activePoolIndices[j]
    /\ \A i \in ActivePositions : prizePool[activePoolIndices[i]] # NoPool

(***************************************************************************)
(* No orphan pools (spec 8: the active list "contains exactly the          *)
(* surviving pools"): while the config exists, every PrizePoolAccount is   *)
(* in the active list, so it can be selected and removed.                  *)
(***************************************************************************)
NoOrphanPools ==
    configLive => ExistingIds \subseteq ActiveIds

(***************************************************************************)
(* Pool ids are never reused (spec 3 and 5: the id counter is "never       *)
(* decremented", so no two pools ever share an identifier): while the      *)
(* config account lives, no instruction moves prize_pool_count backwards.  *)
(* migrate_config writes the admin's argument into it unchecked.           *)
(***************************************************************************)
IdCounterNeverDecreases ==
    [][configLive /\ configLive' => prizePoolCount' >= prizePoolCount]_regVars

(***************************************************************************)
(* The registry implements PrizePoolSet: read as the set of ids in its     *)
(* first active_pool_count slots, add_prize_pool activates exactly the new *)
(* id, remove_prize_pool's scan, shift and clear retire exactly the id it  *)
(* closes and keep every other active pool, the count never lets more than *)
(* MAX_PRIZE_POOLS pools be active, and migrate_config changes no pool.    *)
(***************************************************************************)
PS == INSTANCE PrizePoolSet
        WITH Ids <- PoolIds, active <- ActiveIds, pools <- prizePool, open <- configLive

ImplementsPrizePoolSet == PS!SetSpec

=============================================================================
