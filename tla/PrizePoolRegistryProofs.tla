---------------------- MODULE PrizePoolRegistryProofs ----------------------
(***************************************************************************)
(* Proofs about the prize-pool registry, for every capacity, id width and  *)
(* overflow mode that RegistryAssumption allows.                           *)
(*                                                                         *)
(* RegTypeOK is inductive by itself.  ActiveListPacked is not: the         *)
(* distinctness of the list after add_prize_pool rests on the new id       *)
(* having no PrizePoolAccount (Anchor's `init`), and the packing after     *)
(* remove_prize_pool rests on the scan stopping at the only occurrence of  *)
(* the id; both need the type facts, so the inductive invariant is         *)
(* RegInv == RegTypeOK /\ ActiveListPacked.                                *)
(***************************************************************************)
EXTENDS PrizePoolRegistry, TLAPS

RegInv == RegTypeOK /\ ActiveListPacked

USE RegistryAssumption

-----------------------------------------------------------------------------
(***************************************************************************)
(* The scan of remove_prize_pool.  In a list without repeats, the position *)
(* it stops at is the position of the id.                                  *)
(***************************************************************************)
LEMMA FoundPosCorrect ==
  ASSUME RegTypeOK, ActiveListPacked,
         NEW id, NEW p \in ActivePositions, activePoolIndices[p] = id
  PROVE  FoundPos(id) = p
<1>1. \A q \in 0..(p - 1) : activePoolIndices[q] # id
  BY DEF ActiveListPacked, ActivePositions, RegTypeOK
<1>2. \A p2 \in ActivePositions :
        activePoolIndices[p2] = id /\ (\A q \in 0..(p2 - 1) : activePoolIndices[q] # id)
        => p2 = p
  BY DEF ActiveListPacked, ActivePositions, RegTypeOK
<1>3. QED
  BY <1>1, <1>2 DEF FoundPos

LEMMA RegInvInit == RegInit => RegInv
BY DEF RegInit, RegInv, RegTypeOK, ActiveListPacked, ActivePositions,
       EmptyIndices, PoolIds, Slots, Sentinel

(***************************************************************************)
(* add_prize_pool: the new id had no PrizePoolAccount, so it is not yet in *)
(* the list, and it goes to the first free slot.                           *)
(***************************************************************************)
LEMMA RegInvAdd ==
  ASSUME RegInv, NEW d \in Dests, AddPrizePool(d) PROVE RegInv'
<1> USE DEF AddPrizePool
<1>1. RegTypeOK'
  BY DEF RegInv, RegTypeOK, PoolIds, Slots
<1>2. \A i \in Slots : i >= activePoolCount' => activePoolIndices'[i] = Sentinel
  BY DEF RegInv, RegTypeOK, ActiveListPacked, Slots
<1>3. \A i \in ActivePositions' : prizePool'[activePoolIndices'[i]] # NoPool
  BY DEF RegInv, RegTypeOK, ActiveListPacked, ActivePositions, Slots, PoolIds
<1>4. \A i, j \in ActivePositions' : i # j => activePoolIndices'[i] # activePoolIndices'[j]
  BY DEF RegInv, RegTypeOK, ActiveListPacked, ActivePositions, Slots, PoolIds
<1>5. QED
  BY <1>1, <1>2, <1>3, <1>4 DEF RegInv, ActiveListPacked

(***************************************************************************)
(* remove_prize_pool: the entries after the removed one move left by one,  *)
(* the old last slot is cleared, and the closed PDA was the only entry     *)
(* naming that id.                                                         *)
(***************************************************************************)
LEMMA RegInvRemove ==
  ASSUME RegInv, NEW id \in PoolIds, RemovePrizePool(id) PROVE RegInv'
<1> USE DEF RemovePrizePool
<1>1. PICK p \in ActivePositions : activePoolIndices[p] = id
  OBVIOUS
<1>2. FoundPos(id) = p
  BY <1>1, FoundPosCorrect DEF RegInv
<1> DEFINE c == activePoolCount
<1>3. activePoolIndices' = [i \in Slots |->
          IF i = c - 1 THEN Sentinel
          ELSE IF p <= i /\ i < c - 1 THEN activePoolIndices[i + 1]
          ELSE activePoolIndices[i]]
  BY <1>2 DEF ShiftOut
<1>4. c \in 1..MaxPrizePools /\ p \in 0..(c - 1)
  BY <1>1 DEF RegInv, RegTypeOK, ActivePositions
<1>5. RegTypeOK'
  BY <1>3, <1>4 DEF RegInv, RegTypeOK, Slots, PoolIds, Sentinel
<1>6. \A i \in Slots : i >= activePoolCount' => activePoolIndices'[i] = Sentinel
  BY <1>3, <1>4 DEF RegInv, RegTypeOK, ActiveListPacked, Slots
<1>7. \A i \in ActivePositions' : activePoolIndices'[i] # id
  BY <1>1, <1>3, <1>4 DEF RegInv, RegTypeOK, ActiveListPacked, ActivePositions, Slots
<1>8. \A i \in ActivePositions' : prizePool'[activePoolIndices'[i]] # NoPool
  <2> SUFFICES ASSUME NEW i \in ActivePositions'
               PROVE  prizePool'[activePoolIndices'[i]] # NoPool
    OBVIOUS
  <2>1. \E j \in ActivePositions : activePoolIndices'[i] = activePoolIndices[j]
    BY <1>3, <1>4 DEF RegInv, RegTypeOK, ActivePositions, Slots
  <2>2. activePoolIndices'[i] \in PoolIds /\ prizePool[activePoolIndices'[i]] # NoPool
    BY <2>1 DEF RegInv, RegTypeOK, ActiveListPacked, ActivePositions, Slots
  <2>3. activePoolIndices'[i] # id
    BY <1>7
  <2>4. QED
    BY <2>2, <2>3 DEF RegInv, RegTypeOK
<1>9. \A i, j \in ActivePositions' : i # j => activePoolIndices'[i] # activePoolIndices'[j]
  BY <1>3, <1>4 DEF RegInv, RegTypeOK, ActiveListPacked, ActivePositions, Slots
<1>10. QED
  BY <1>5, <1>6, <1>8, <1>9 DEF RegInv, ActiveListPacked

LEMMA RegInvStep == RegInv /\ [RegNext]_regVars => RegInv'
<1> SUFFICES ASSUME RegInv, [RegNext]_regVars PROVE RegInv'
  OBVIOUS
<1>1. ASSUME NEW d \in Dests, AddPrizePool(d) PROVE RegInv'
  BY <1>1, RegInvAdd
<1>2. ASSUME NEW id \in PoolIds, RemovePrizePool(id) PROVE RegInv'
  BY <1>2, RegInvRemove
<1>3. ASSUME NEW id \in PoolIds, NEW d \in Dests, UpdatePrizePool(id, d)
      PROVE RegInv'
  BY <1>3 DEF UpdatePrizePool, RegInv, RegTypeOK, ActiveListPacked, ActivePositions
<1>4. ASSUME NEW n \in MigrateCounts, MigrateConfig(n) PROVE RegInv'
  BY <1>4 DEF MigrateConfig, RegInv, RegTypeOK, ActiveListPacked, ActivePositions,
              EmptyIndices, PoolIds, Slots, Sentinel
<1>5. CASE CloseConfig
  BY <1>5 DEF CloseConfig, RegInv, RegTypeOK, ActiveListPacked, ActivePositions
<1>6. CASE Initialize
  BY <1>6 DEF Initialize, RegInv, RegTypeOK, ActiveListPacked, ActivePositions,
              EmptyIndices, PoolIds, Slots, Sentinel
<1>7. CASE UNCHANGED regVars
  BY <1>7 DEF regVars, RegInv, RegTypeOK, ActiveListPacked, ActivePositions
<1>8. QED
  BY <1>1, <1>2, <1>3, <1>4, <1>5, <1>6, <1>7 DEF RegNext

(***************************************************************************)
(* Type correctness of the registry kept in the config account: counters,  *)
(* the index array and the PrizePoolAccount PDAs keep their u8 and array   *)
(* types under every sequence of admin instructions.                       *)
(***************************************************************************)
THEOREM RegTypeCorrect == RegSpec => []RegTypeOK
<1>1. RegSpec => []RegInv
  BY RegInvInit, RegInvStep, PTL DEF RegSpec
<1>2. QED
  BY <1>1, PTL DEF RegInv

(***************************************************************************)
(* The active list stays packed under every sequence of add, remove,       *)
(* update, migrate_config, close_config and initialize: its first          *)
(* active_pool_count slots name distinct pools that have a                 *)
(* PrizePoolAccount and the rest hold 255, which is what the VRF           *)
(* callback's `active_pool_indices[vrf % active_pool_count]` relies on.    *)
(***************************************************************************)
THEOREM RegActiveListPacked == RegSpec => []ActiveListPacked
<1>1. RegSpec => []RegInv
  BY RegInvInit, RegInvStep, PTL DEF RegSpec
<1>2. QED
  BY <1>1, PTL DEF RegInv

=============================================================================
