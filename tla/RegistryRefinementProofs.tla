--------------------- MODULE RegistryRefinementProofs ---------------------
(***************************************************************************)
(* PrizePoolRegistry implements PrizePoolSet, for every capacity, id width *)
(* and overflow mode.  The mapping reads the set of active pools off the   *)
(* first active_pool_count slots (ActiveIds).  Every step is shown to be a *)
(* step of the set specification or a stutter under RegInv, the inductive  *)
(* invariant of PrizePoolRegistryProofs:                                   *)
(*   - the capacity guard of Activate needs Cardinality(ActiveIds) =       *)
(*     active_pool_count, which holds because the slots are distinct;      *)
(*   - Retire needs the shift of remove_prize_pool to drop exactly the     *)
(*     removed id, which holds because the id occurs once;                 *)
(*   - Activate needs add_prize_pool to write one slot past the others.    *)
(***************************************************************************)
EXTENDS PrizePoolRegistryProofs, FiniteSetTheorems

USE RegistryAssumption

-----------------------------------------------------------------------------
(***************************************************************************)
(* The active slots are distinct, so reading them is a bijection onto      *)
(* ActiveIds and the set has exactly active_pool_count elements.           *)
(***************************************************************************)
LEMMA ActiveIdsCount ==
  ASSUME RegInv
  PROVE  /\ IsFiniteSet(ActiveIds)
         /\ Cardinality(ActiveIds) = activePoolCount
<1> DEFINE f == [i \in ActivePositions |-> activePoolIndices[i]]
<1>1. activePoolCount \in Nat /\ ActivePositions \subseteq Slots
  BY DEF RegInv, RegTypeOK, ActivePositions, Slots
<1>2. f \in Bijection(ActivePositions, ActiveIds)
  <2>1. f \in [ActivePositions -> ActiveIds]
    BY DEF ActiveIds
  <2>2. IsInjective(f)
    BY DEF IsInjective, RegInv, ActiveListPacked
  <2>3. \A t \in ActiveIds : \E s \in ActivePositions : f[s] = t
    BY DEF ActiveIds
  <2>4. QED
    BY <2>1, <2>2, <2>3 DEF Bijection, Injection, Surjection
<1>3. IsFiniteSet(ActivePositions) /\ Cardinality(ActivePositions) = activePoolCount
  BY <1>1, FS_Interval DEF ActivePositions
<1>4. QED
  BY <1>2, <1>3, FS_Bijection DEF ExistsBijection

\* add_prize_pool writes the new id into the first free slot and counts it.
LEMMA AddActivates ==
  ASSUME RegInv, NEW d \in Dests, AddPrizePool(d)
  PROVE  ActiveIds' = ActiveIds \cup {prizePoolCount}
<1> DEFINE c == activePoolCount
<1>1. c \in Slots /\ c + 1 \in Nat
  BY DEF AddPrizePool, RegInv, RegTypeOK, Slots
<1>2. activePoolIndices' = [activePoolIndices EXCEPT ![c] = prizePoolCount]
      /\ activePoolCount' = c + 1
  BY DEF AddPrizePool
<1>3. activePoolIndices \in [Slots -> PoolIds]
  BY DEF RegInv, RegTypeOK
<1>4. ActivePositions' = ActivePositions \cup {c}
  BY <1>1, <1>2 DEF ActivePositions, Slots
<1>5. \A i \in ActivePositions : activePoolIndices'[i] = activePoolIndices[i]
  BY <1>1, <1>2, <1>3 DEF ActivePositions, Slots
<1>6. activePoolIndices'[c] = prizePoolCount
  BY <1>1, <1>2, <1>3
<1>7. QED
  BY <1>4, <1>5, <1>6 DEF ActiveIds

(***************************************************************************)
(* remove_prize_pool's scan, shift and clear take out exactly the id it    *)
(* closes: the entries before the found position stay, the ones after it   *)
(* move left, and since the id occurs once, every other id survives.       *)
(***************************************************************************)
LEMMA RemoveRetires ==
  ASSUME RegInv, NEW id \in PoolIds, RemovePrizePool(id)
  PROVE  ActiveIds' = ActiveIds \ {id}
<1> USE DEF RemovePrizePool
<1>1. PICK p \in ActivePositions : activePoolIndices[p] = id
  OBVIOUS
<1> DEFINE c == activePoolCount
<1>2. activePoolIndices' = [i \in Slots |->
          IF i = c - 1 THEN Sentinel
          ELSE IF p <= i /\ i < c - 1 THEN activePoolIndices[i + 1]
          ELSE activePoolIndices[i]]
  BY <1>1, FoundPosCorrect DEF RegInv, ShiftOut
<1>3. c \in 1..MaxPrizePools /\ p \in 0..(c - 1) /\ activePoolCount' = c - 1
  BY <1>1 DEF RegInv, RegTypeOK, ActivePositions
<1>4. ActiveIds' \subseteq ActiveIds \ {id}
  <2> SUFFICES ASSUME NEW i \in 0..(c - 2)
               PROVE  activePoolIndices'[i] \in ActiveIds \ {id}
    BY <1>3 DEF ActiveIds, ActivePositions
  <2>1. CASE i < p
    <3>1. activePoolIndices'[i] = activePoolIndices[i] /\ i # p
      BY <1>2, <1>3, <2>1 DEF Slots
    <3>2. QED
      BY <1>1, <1>3, <3>1 DEF RegInv, ActiveListPacked, ActiveIds, ActivePositions
  <2>2. CASE i >= p
    <3>1. activePoolIndices'[i] = activePoolIndices[i + 1] /\ i + 1 # p
          /\ i + 1 \in ActivePositions
      BY <1>2, <1>3, <2>2 DEF Slots, ActivePositions
    <3>2. QED
      BY <1>1, <3>1 DEF RegInv, ActiveListPacked, ActiveIds, ActivePositions
  <2>3. QED
    BY <2>1, <2>2, <1>3
<1>5. ActiveIds \ {id} \subseteq ActiveIds'
  <2> SUFFICES ASSUME NEW j \in ActivePositions, activePoolIndices[j] # id
               PROVE  activePoolIndices[j] \in ActiveIds'
    BY DEF ActiveIds
  <2>1. j # p
    BY <1>1
  <2>2. CASE j < p
    <3>1. j \in 0..(c - 2) /\ activePoolIndices'[j] = activePoolIndices[j]
      BY <1>2, <1>3, <2>2 DEF Slots, ActivePositions
    <3>2. QED
      BY <1>3, <3>1 DEF ActiveIds, ActivePositions
  <2>3. CASE j > p
    <3>1. j - 1 \in 0..(c - 2) /\ activePoolIndices'[j - 1] = activePoolIndices[j]
      BY <1>2, <1>3, <2>3 DEF Slots, ActivePositions
    <3>2. QED
      BY <1>3, <3>1 DEF ActiveIds, ActivePositions
  <2>4. QED
    BY <2>1, <2>2, <2>3 DEF ActivePositions
<1>6. QED
  BY <1>4, <1>5

-----------------------------------------------------------------------------
\* initialize's empty registry is the empty set of pools, with no accounts.
LEMMA RefineRegInit == RegInit => PS!SetInit
BY DEF RegInit, PS!SetInit, ActiveIds, ActivePositions

(***************************************************************************)
(* Each admin instruction is a step of PrizePoolSet or leaves it alone:    *)
(* add is Activate of the counter's id, remove is Retire, update is        *)
(* Retarget, close_config is Close, initialize is Reopen, and              *)
(* migrate_config, which only rewrites the counter or an already empty     *)
(* list, is a stutter.                                                     *)
(***************************************************************************)
LEMMA RefineRegStep ==
  ASSUME RegInv, [RegNext]_regVars
  PROVE  [PS!SetNext]_PS!setVars
<1>1. ASSUME NEW d \in Dests, AddPrizePool(d) PROVE [PS!SetNext]_PS!setVars
  <2>1. Cardinality(ActiveIds) < MaxPrizePools
    BY <1>1, ActiveIdsCount DEF AddPrizePool
  <2>2. ActiveIds' = ActiveIds \cup {prizePoolCount}
    BY <1>1, AddActivates
  <2>3. prizePoolCount \in PoolIds
    BY DEF RegInv, RegTypeOK
  <2>4. /\ configLive /\ prizePool[prizePoolCount] = NoPool
        /\ prizePool' = [prizePool EXCEPT ![prizePoolCount] = d]
        /\ configLive' = configLive
    BY <1>1 DEF AddPrizePool
  <2>5. PS!Cardinality(ActiveIds) < MaxPrizePools
    BY <2>1, Zenon DEF PS!Cardinality, Cardinality
  <2>7. PS!Activate(prizePoolCount, d)
    BY <2>2, <2>4, <2>5, Zenon DEF PS!Activate
  <2>6. QED
    BY <2>3, <2>7 DEF PS!SetNext
<1>2. ASSUME NEW id \in PoolIds, RemovePrizePool(id) PROVE PS!Retire(id)
  BY <1>2, RemoveRetires DEF RemovePrizePool, PS!Retire, ActiveIds
<1>3. ASSUME NEW id \in PoolIds, NEW d \in Dests, UpdatePrizePool(id, d)
      PROVE PS!Retarget(id, d)
  BY <1>3 DEF UpdatePrizePool, PS!Retarget, ActiveIds, ActivePositions
<1>4. ASSUME NEW n \in MigrateCounts, MigrateConfig(n) PROVE UNCHANGED PS!setVars
  <2>1. CASE activePoolCount > 0
    BY <1>4, <2>1 DEF MigrateConfig, PS!setVars, ActiveIds, ActivePositions
  <2>2. CASE ~(activePoolCount > 0)
    <3>1. activePoolCount = 0
      BY <2>2 DEF RegInv, RegTypeOK
    <3>2. QED
      BY <1>4, <2>2, <3>1 DEF MigrateConfig, PS!setVars, ActiveIds, ActivePositions
  <2>3. QED
    BY <2>1, <2>2
<1>5. CASE CloseConfig
  BY <1>5 DEF CloseConfig, PS!SetNext, PS!Close, ActiveIds, ActivePositions
<1>6. CASE Initialize
  <2>1. ActiveIds' = {}
    BY <1>6 DEF Initialize, ActiveIds, ActivePositions
  <2>2. QED
    BY <1>6, <2>1 DEF Initialize, PS!SetNext, PS!Reopen
<1>7. CASE UNCHANGED regVars
  BY <1>7 DEF regVars, PS!setVars, ActiveIds, ActivePositions
<1>8. QED
  BY <1>1, <1>2, <1>3, <1>4, <1>5, <1>6, <1>7 DEF RegNext, PS!SetNext

(***************************************************************************)
(* The registry of the config account implements the set of active pools: *)
(* under every sequence of add, remove, update, migrate_config,            *)
(* close_config and initialize, the ids in the first active_pool_count     *)
(* slots change only by adding the new id (while fewer than                *)
(* MAX_PRIZE_POOLS are active) or by removing exactly the id whose         *)
(* account remove_prize_pool closes, or by being forgotten on initialize.  *)
(***************************************************************************)
THEOREM RegRefinesPrizePoolSet == RegSpec => ImplementsPrizePoolSet
<1>1. RegSpec => []RegInv
  BY RegInvInit, RegInvStep, PTL DEF RegSpec
<1>2. RegInv /\ [RegNext]_regVars => [PS!SetNext]_PS!setVars
  BY RefineRegStep
<1>3. QED
  BY <1>1, <1>2, RefineRegInit, PTL DEF RegSpec, ImplementsPrizePoolSet, PS!SetSpec
=============================================================================
