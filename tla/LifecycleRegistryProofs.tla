---------------------- MODULE LifecycleRegistryProofs ----------------------
(***************************************************************************)
(* The whole program still presents the registry as PrizePoolSet: with     *)
(* request_mint, the VRF callbacks, claim, refund, the withdrawals and the *)
(* clock interleaved between the admin instructions, the set of active     *)
(* pools changes only through the admin instructions, and each of those is *)
(* a PrizePoolSet step (RefineRegStep).  The user and oracle instructions  *)
(* read the registry (the callback's pool choice) but never write it.      *)
(***************************************************************************)
EXTENDS MintLifecycleProofs, RegistryRefinementProofs

USE RegistryAssumption, LifecycleAssumption, NoRequestAssumption

\* Every instruction other than an admin registry one leaves the registry
\* fields and the PrizePoolAccount PDAs as they were.
LEMMA LifeStepLeavesRegistry ==
  ASSUME [Next]_vars, ~RegistryStep
  PROVE  UNCHANGED regVars
<1>1. CASE \E u \in Users, n \in CardChoices, mode \in PaymentModes, s \in SlotRange :
             RequestMint(u, n, mode, s)
  BY <1>1 DEF RequestMint
<1>2. CASE \E r \in vrfRequests, w \in Entropies : OracleFulfil(r, w)
  BY <1>2 DEF OracleFulfil
<1>3. CASE \E m \in callbacks : ConsumeLotteryRandomness(m)
  BY <1>3 DEF ConsumeLotteryRandomness
<1>4. CASE \E m \in callbacks : CallbackRejected(m)
  BY <1>4 DEF CallbackRejected
<1>5. CASE \E a \in Addrs, mode \in PayoutModes : Claim(a, mode)
  BY <1>5 DEF Claim
<1>6. CASE \E a \in Addrs : Refund(a)
  BY <1>6 DEF Refund
<1>7. CASE \E amt \in WithdrawAmounts : WithdrawSol(amt) \/ WithdrawToken(amt)
  BY <1>7 DEF WithdrawSol, WithdrawToken
<1>8. CASE Tick
  BY <1>8 DEF Tick
<1>9. CASE UNCHANGED vars
  BY <1>9 DEF vars
<1>10. QED
  BY <1>1, <1>2, <1>3, <1>4, <1>5, <1>6, <1>7, <1>8, <1>9 DEF Next

(***************************************************************************)
(* The program as a whole implements the set of active pools: under every  *)
(* interleaving of user, oracle and admin instructions, the ids in the     *)
(* first active_pool_count slots change only as PrizePoolSet allows, so    *)
(* the pool the VRF callback draws from is always one the admin activated  *)
(* and has not retired.                                                    *)
(***************************************************************************)
THEOREM LifeRefinesPrizePoolSet == Spec => ImplementsPrizePoolSet
<1>1. Spec => []LifeInv
  BY LifeInvInit, LifeInvStep, PTL DEF Spec
<1>2. LifeInv /\ [Next]_vars => [PS!SetNext]_PS!setVars
  <2> SUFFICES ASSUME LifeInv, [Next]_vars PROVE [PS!SetNext]_PS!setVars
    OBVIOUS
  <2>1. RegInv
    BY DEF LifeInv
  <2>2. CASE RegistryStep
    BY <2>1, <2>2, RefineRegStep DEF RegistryStep
  <2>3. CASE ~RegistryStep
    BY <2>3, LifeStepLeavesRegistry DEF regVars, PS!setVars, ActiveIds, ActivePositions
  <2>4. QED
    BY <2>2, <2>3
<1>3. Init => PS!SetInit
  BY RefineRegInit DEF Init
<1>4. QED
  BY <1>1, <1>2, <1>3, PTL DEF Spec, ImplementsPrizePoolSet, PS!SetSpec
=============================================================================
