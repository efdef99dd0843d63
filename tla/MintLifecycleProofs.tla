------------------------- MODULE MintLifecycleProofs -------------------------
(***************************************************************************)
(* Proofs about the mint-request lifecycle for every value of the          *)
(* constants that LifecycleAssumption and RegistryAssumption allow.        *)
(***************************************************************************)
EXTENDS MintLifecycle, PrizePoolRegistryProofs

USE RegistryAssumption, LifecycleAssumption, NoRequestAssumption

(***************************************************************************)
(* The strengthening behind NoFreeOption.  Each live MintRequest carries   *)
(* an ordinal no other live request has and that no claim or refund has   *)
(* used; it is Pending or Revealed (Claimed is written only in the         *)
(* transaction that closes the account), and it is in revealedIds exactly *)
(* when it is Revealed.  The history sets only hold ordinals already       *)
(* handed out, so the next request_mint gets a fresh one.                  *)
(***************************************************************************)
LiveRequestsFresh ==
    \A a \in Addrs : Live(a) =>
        /\ req[a].id \in 1..nextId
        /\ req[a].id \notin refundedIds \cup claimedIds
        /\ req[a].status \in {"Pending", "Revealed"}
        /\ (req[a].id \in revealedIds <=> req[a].status = "Revealed")

LiveIdsDistinct ==
    \A a, b \in Addrs : Live(a) /\ Live(b) /\ a # b => req[a].id # req[b].id

HistoryConsistent ==
    /\ revealedIds \cup claimedIds \cup refundedIds \subseteq 1..nextId
    /\ claimedIds \subseteq revealedIds
    /\ refundedIds \cap revealedIds = {}

LifeInv == TypeOK /\ RegInv /\ LiveRequestsFresh /\ LiveIdsDistinct /\ HistoryConsistent

LEMMA SelectInPoolIds ==
  ASSUME RegTypeOK, NEW w \in Entropies
  PROVE  SelectActivePrizePool(w) \in PoolIds
BY DEF SelectActivePrizePool, RegTypeOK, Slots, PoolIds

\* get_lamports_for_micro_usd yields a u64 for any amount.
LEMMA LamportsNat ==
  ASSUME NEW x \in Nat PROVE LamportsForMicroUsd(x) \in Nat
BY DEF LamportsForMicroUsd

\* A step that leaves the registry alone preserves the registry invariant.
LEMMA RegInvUnchanged ==
  ASSUME RegInv, UNCHANGED regVars PROVE RegInv'
BY DEF RegInv, regVars, RegTypeOK, ActiveListPacked, ActivePositions

\* The fields consume_lottery_randomness writes keep a MintRequest well typed.
LEMMA RevealKeepsRecordType ==
  ASSUME NEW r \in Requests, NEW tw \in Nat, NEW sp \in PoolIds, NEW t \in Nat,
         NEW sr \in 1..MaxRequests
  PROVE  [r EXCEPT !.status = "Revealed", !.totalWonUsd = tw, !.selectedPoolIndex = sp,
                   !.revealedAt = t, !.src = sr] \in Requests
<1> DEFINE r1 == [r EXCEPT !.status = "Revealed"]
           r2 == [r1 EXCEPT !.totalWonUsd = tw]
           r3 == [r2 EXCEPT !.selectedPoolIndex = sp]
           r4 == [r3 EXCEPT !.revealedAt = t]
<1>1. r1 \in Requests
  BY DEF Requests, Statuses
<1>2. r2 \in Requests
  BY <1>1 DEF Requests
<1>3. r3 \in Requests
  BY <1>2 DEF Requests
<1>4. r4 \in Requests
  BY <1>3 DEF Requests
<1>5. sr \in 0..MaxRequests
  OBVIOUS
<1>6. QED
  BY <1>4, <1>5 DEF Requests

LEMMA TypeInit == Init => TypeOK
BY RegInvInit DEF Init, TypeOK, RegInv, SlotRange, Addrs

(***************************************************************************)
(* The lifecycle instructions leave the registry alone: only RegistryStep  *)
(* writes the config's registry fields or the PrizePoolAccount PDAs.       *)
(***************************************************************************)
LEMMA LifeStepKeepsRegistry ==
  ASSUME [Next]_vars, ~RegistryStep PROVE UNCHANGED regVars
<1>1. CASE \E u \in Users, n \in CardChoices, mode \in PaymentModes, s \in SlotRange :
             RequestMint(u, n, mode, s)
  BY <1>1 DEF RequestMint
<1>2. CASE \E r \in vrfRequests, w \in Entropies : OracleFulfil(r, w)
  BY <1>2 DEF OracleFulfil
<1>3. CASE \E m \in callbacks : ConsumeLotteryRandomness(m)
  BY <1>3 DEF ConsumeLotteryRandomness
<1>4. CASE \E m \in callbacks : CallbackRejected(m)
  BY <1>4 DEF CallbackRejected
<1>5. CASE \E a \in Addrs, mode \in PayoutModes : Claim(a, mode)
  BY <1>5 DEF Claim
<1>6. CASE \E a \in Addrs : Refund(a)
  BY <1>6 DEF Refund
<1>7. CASE \E amt \in WithdrawAmounts : WithdrawSol(amt)
  BY <1>7 DEF WithdrawSol
<1>8. CASE \E amt \in WithdrawAmounts : WithdrawToken(amt)
  BY <1>8 DEF WithdrawToken
<1>9. CASE Tick
  BY <1>9 DEF Tick
<1>10. CASE UNCHANGED vars
  BY <1>10 DEF vars
<1>11. QED
  BY <1>1, <1>2, <1>3, <1>4, <1>5, <1>6, <1>7, <1>8, <1>9, <1>10 DEF Next

LEMMA TypeStep == TypeOK /\ RegInv /\ [Next]_vars => TypeOK'
<1> SUFFICES ASSUME TypeOK, RegInv, [Next]_vars PROVE TypeOK'
  OBVIOUS
<1> USE DEF Addrs, SlotRange, ReqIds, PoolIds
<1>1. ASSUME NEW u \in Users, NEW n \in CardChoices, NEW mode \in PaymentModes,
             NEW s \in SlotRange, RequestMint(u, n, mode, s)
      PROVE  TypeOK'
  <2> DEFINE paid == IF mode = "SOL" THEN StakeLamports(n) ELSE StakeUsdt(n)
             rec == [user |-> u, amountOfCards |-> n, status |-> "Pending",
                     paymentMode |-> mode, totalWonUsd |-> 0, paidAmount |-> paid,
                     createdAt |-> now, revealedAt |-> 0, selectedPoolIndex |-> 0,
                     vrfRequestSlot |-> s, id |-> nextId + 1, src |-> 0]
  <2>1. paid \in Nat
    BY LamportsNat DEF StakeLamports, StakeUsdt
  <2>2. nextId + 1 \in 1..MaxRequests /\ now \in Nat
    BY <1>1 DEF RequestMint, TypeOK
  <2>3. rec \in Requests
    BY <2>1, <2>2 DEF Requests, Statuses, PaymentModes
  <2>4. req' = [req EXCEPT ![<<u, s>>] = rec]
    BY <1>1 DEF RequestMint
  <2>5. req' \in [Addrs -> Requests \cup {NoRequest}]
    BY <2>3, <2>4 DEF TypeOK
  <2>6. vaultSol' \in Nat /\ vaultUsdt' \in Nat
    BY <1>1, <2>1 DEF RequestMint, TypeOK, StakeLamports, StakeUsdt
  <2>7. vrfRequests' \subseteq [addr : Addrs, id : ReqIds] /\ nextId' \in 0..MaxRequests
    BY <1>1, <2>2 DEF RequestMint, TypeOK
  <2>8. RegTypeOK' /\ UNCHANGED <<slot, now, callbacks, revealedIds, claimedIds, refundedIds>>
    BY <1>1 DEF RequestMint, RegTypeOK, regVars, TypeOK
  <2>9. QED
    BY <2>5, <2>6, <2>7, <2>8 DEF TypeOK
<1>2. ASSUME NEW r \in vrfRequests, NEW w \in Entropies, OracleFulfil(r, w)
      PROVE  TypeOK'
  BY <1>2 DEF OracleFulfil, TypeOK, RegTypeOK, regVars
<1>3. ASSUME NEW m \in callbacks, ConsumeLotteryRandomness(m) PROVE TypeOK'
  <2> DEFINE a == m.addr
  <2>1. a \in Addrs /\ m.entropy \in Entropies /\ m.src \in ReqIds
    BY DEF TypeOK
  <2>2. req[a] \in Requests
    BY <1>3, <2>1 DEF ConsumeLotteryRandomness, Live, TypeOK
  <2>3. SelectActivePrizePool(m.entropy) \in PoolIds
    BY <2>1, SelectInPoolIds DEF RegInv
  <2>4. TotalWon(m.entropy, req[a].amountOfCards) \in Nat
    BY <2>1, <2>2 DEF Requests
  <2> DEFINE revealed ==
               [req[a] EXCEPT !.status = "Revealed",
                              !.totalWonUsd = TotalWon(m.entropy, req[a].amountOfCards),
                              !.selectedPoolIndex = SelectActivePrizePool(m.entropy),
                              !.revealedAt = now,
                              !.src = m.src]
  <2>5. req' = [req EXCEPT ![a] = revealed]
    BY <1>3 DEF ConsumeLotteryRandomness
  <2>6. revealed \in Requests
    BY <2>1, <2>2, <2>3, <2>4, RevealKeepsRecordType DEF TypeOK
  <2>10. req' \in [Addrs -> Requests \cup {NoRequest}]
    BY <2>1, <2>5, <2>6 DEF TypeOK
  <2>11. callbacks' \subseteq callbacks /\ revealedIds' \subseteq ReqIds
    BY <1>3, <2>2 DEF ConsumeLotteryRandomness, CallbackDelivered, TypeOK, Requests
  <2>12. RegTypeOK' /\ UNCHANGED <<slot, now, vrfRequests, vaultSol, vaultUsdt, nextId,
                                   claimedIds, refundedIds>>
    BY <1>3 DEF ConsumeLotteryRandomness, RegTypeOK, regVars, TypeOK
  <2>13. QED
    BY <2>10, <2>11, <2>12 DEF TypeOK
<1>4. ASSUME NEW m \in callbacks, CallbackRejected(m) PROVE TypeOK'
  BY <1>4 DEF CallbackRejected, CallbackDelivered, TypeOK, RegTypeOK, regVars
<1>5. ASSUME NEW a \in Addrs, NEW mode \in PayoutModes, Claim(a, mode)
      PROVE  TypeOK'
  <2>1. req[a] \in Requests
    BY <1>5 DEF Claim, Live, TypeOK
  <2>2. (req[a].totalWonUsd * 95) \div 100 \in Nat /\ req[a].totalWonUsd \in Nat
    BY <2>1 DEF Requests
  <2>3. LamportsForMicroUsd((req[a].totalWonUsd * 95) \div 100) \in Nat
        /\ LamportsForMicroUsd(req[a].totalWonUsd) \in Nat
    BY <2>2, LamportsNat
  <2>4. vaultSol' \in Nat
    BY <1>5, <2>3 DEF Claim, SaturatingSub, TypeOK
  <2>5. req' \in [Addrs -> Requests \cup {NoRequest}] /\ claimedIds' \subseteq ReqIds
    BY <1>5, <2>1 DEF Claim, TypeOK, Requests
  <2>6. QED
    BY <1>5, <2>4, <2>5 DEF Claim, TypeOK, RegTypeOK, regVars
<1>6. ASSUME NEW a \in Addrs, Refund(a) PROVE TypeOK'
  <2>1. req[a] \in Requests
    BY <1>6 DEF Refund, Live, TypeOK
  <2>2. vaultSol' \in Nat /\ vaultUsdt' \in Nat
    BY <1>6, <2>1 DEF Refund, TypeOK, Requests
  <2>3. req' \in [Addrs -> Requests \cup {NoRequest}] /\ refundedIds' \subseteq ReqIds
    BY <1>6, <2>1 DEF Refund, TypeOK, Requests
  <2>4. QED
    BY <1>6, <2>2, <2>3 DEF Refund, TypeOK, RegTypeOK, regVars
<1>7. ASSUME NEW amt \in WithdrawAmounts, WithdrawSol(amt) PROVE TypeOK'
  BY <1>7 DEF WithdrawSol, SaturatingSub, TypeOK, RegTypeOK, regVars
<1>8. ASSUME NEW amt \in WithdrawAmounts, WithdrawToken(amt) PROVE TypeOK'
  BY <1>8 DEF WithdrawToken, TypeOK, RegTypeOK, regVars
<1>9. CASE Tick
  BY <1>9 DEF Tick, TypeOK, RegTypeOK, regVars
<1>10. CASE RegistryStep
  <2>1. RegTypeOK'
    BY <1>10, RegInvStep DEF RegistryStep, RegInv
  <2>2. QED
    BY <1>10, <2>1 DEF RegistryStep, lifeVars, TypeOK
<1>11. CASE UNCHANGED vars
  BY <1>11 DEF vars, regVars, lifeVars, TypeOK, RegTypeOK
<1>12. QED
  BY <1>1, <1>2, <1>3, <1>4, <1>5, <1>6, <1>7, <1>8, <1>9, <1>10, <1>11 DEF Next

(***************************************************************************)
(* Type correctness of the lifecycle: MintRequest accounts, the oracle's   *)
(* queues and the vault balances keep their types, and in particular no    *)
(* claim, refund or withdrawal takes the vault below zero, under every     *)
(* interleaving of users, oracle and admin.                                *)
(***************************************************************************)
THEOREM LifeTypeCorrect == Spec => []TypeOK
<1>1. Init => TypeOK /\ RegInv
  BY TypeInit, RegInvInit DEF Init
<1>2. TypeOK /\ RegInv /\ [Next]_vars => (TypeOK /\ RegInv)'
  <2> SUFFICES ASSUME TypeOK, RegInv, [Next]_vars PROVE TypeOK' /\ RegInv'
    OBVIOUS
  <2>1. TypeOK'
    BY TypeStep
  <2>2. RegInv'
    <3>1. CASE RegistryStep
      BY <3>1, RegInvStep DEF RegistryStep
    <3>2. CASE ~RegistryStep
      <4>1. UNCHANGED regVars
        BY <3>2, LifeStepKeepsRegistry
      <4>2. QED
        BY <4>1, RegInvUnchanged
    <3>3. QED
      BY <3>1, <3>2
  <2>3. QED
    BY <2>1, <2>2
<1>3. QED
  BY <1>1, <1>2, PTL DEF Spec

-----------------------------------------------------------------------------
(***************************************************************************)
(* NoFreeOption.                                                           *)
(***************************************************************************)

LEMMA LifeInvInit == Init => LifeInv
<1> SUFFICES ASSUME Init PROVE LifeInv
  OBVIOUS
<1>1. TypeOK /\ RegInv
  BY TypeInit, RegInvInit DEF Init
<1>2. LiveRequestsFresh /\ LiveIdsDistinct /\ HistoryConsistent
  BY DEF Init, LiveRequestsFresh, LiveIdsDistinct, HistoryConsistent, Live
<1>3. QED
  BY <1>1, <1>2 DEF LifeInv

\* A step that touches neither the accounts nor the history keeps them consistent.
LEMMA HistoryUnchanged ==
  ASSUME LiveRequestsFresh, LiveIdsDistinct, HistoryConsistent,
         UNCHANGED <<req, nextId, revealedIds, claimedIds, refundedIds>>
  PROVE  LiveRequestsFresh' /\ LiveIdsDistinct' /\ HistoryConsistent'
BY DEF LiveRequestsFresh, LiveIdsDistinct, HistoryConsistent, Live

\* request_mint: the new account gets the next ordinal, above every one in use.
LEMMA HistoryRequestMint ==
  ASSUME LifeInv, NEW u \in Users, NEW n \in CardChoices, NEW mode \in PaymentModes,
         NEW s \in SlotRange, RequestMint(u, n, mode, s)
  PROVE  LiveRequestsFresh' /\ LiveIdsDistinct' /\ HistoryConsistent'
<1> DEFINE a0 == <<u, s>>
           paid == IF mode = "SOL" THEN StakeLamports(n) ELSE StakeUsdt(n)
           rec == [user |-> u, amountOfCards |-> n, status |-> "Pending",
                   paymentMode |-> mode, totalWonUsd |-> 0, paidAmount |-> paid,
                   createdAt |-> now, revealedAt |-> 0, selectedPoolIndex |-> 0,
                   vrfRequestSlot |-> s, id |-> nextId + 1, src |-> 0]
<1>a. a0 \in Addrs /\ ~Live(a0) /\ nextId \in Nat /\ req \in [Addrs -> Requests \cup {NoRequest}]
  BY DEF RequestMint, LifeInv, TypeOK, Addrs
<1>b. req' = [req EXCEPT ![a0] = rec]
  BY DEF RequestMint
<1>c. rec # NoRequest
  <2>1. paid \in Nat
    BY LamportsNat DEF StakeLamports, StakeUsdt
  <2>2. nextId + 1 \in 1..MaxRequests /\ now \in Nat
    BY DEF RequestMint, LifeInv, TypeOK
  <2>3. rec \in Requests
    BY <2>1, <2>2 DEF Requests, Statuses, PaymentModes, ReqIds, PoolIds
  <2>4. QED
    BY <2>3
<1>1. /\ a0 \in Addrs /\ ~Live(a0)
      /\ req'[a0].id = nextId + 1 /\ req'[a0].status = "Pending"
      /\ req'[a0] # NoRequest
      /\ \A a \in Addrs \ {a0} : req'[a] = req[a]
      /\ nextId' = nextId + 1 /\ nextId \in Nat
      /\ UNCHANGED <<revealedIds, claimedIds, refundedIds>>
  BY <1>a, <1>b, <1>c DEF RequestMint
<1>2. LiveRequestsFresh'
  BY <1>1 DEF LiveRequestsFresh, LifeInv, HistoryConsistent, Live
<1>3. LiveIdsDistinct'
  BY <1>1 DEF LiveIdsDistinct, LiveRequestsFresh, LifeInv, Live
<1>4. HistoryConsistent'
  BY <1>1 DEF HistoryConsistent, LifeInv
<1>5. QED
  BY <1>2, <1>3, <1>4

\* The request record as consume_lottery_randomness writes it back.
Revealed(r, tw, sp, t, sr) ==
  [r EXCEPT !.status = "Revealed", !.totalWonUsd = tw,
            !.selectedPoolIndex = sp, !.revealedAt = t, !.src = sr]

\* The fields consume_lottery_randomness reads back after writing.
LEMMA RevealFields ==
  ASSUME NEW r \in Requests, NEW tw \in Nat, NEW sp \in PoolIds, NEW t \in Nat,
         NEW sr \in 1..MaxRequests
  PROVE  /\ Revealed(r, tw, sp, t, sr).id = r.id
         /\ Revealed(r, tw, sp, t, sr).status = "Revealed"
         /\ Revealed(r, tw, sp, t, sr) # NoRequest
<1> DEFINE r1 == [r EXCEPT !.status = "Revealed"]
           r2 == [r1 EXCEPT !.totalWonUsd = tw]
           r3 == [r2 EXCEPT !.selectedPoolIndex = sp]
           r4 == [r3 EXCEPT !.revealedAt = t]
           r5 == [r4 EXCEPT !.src = sr]
<1>1. r1.id = r.id /\ r1.status = "Revealed" /\ r1 \in Requests
  BY DEF Requests, Statuses
<1>2. r2.id = r.id /\ r2.status = "Revealed" /\ r2 \in Requests
  BY <1>1 DEF Requests
<1>3. r3.id = r.id /\ r3.status = "Revealed" /\ r3 \in Requests
  BY <1>2 DEF Requests
<1>4. r4.id = r.id /\ r4.status = "Revealed" /\ r4 \in Requests
  BY <1>3 DEF Requests
<1>5. r5.id = r.id /\ r5.status = "Revealed" /\ r5 \in Requests
  <2>1. sr \in 0..MaxRequests
    OBVIOUS
  <2>2. QED
    BY <1>4, <2>1 DEF Requests
<1>6. QED
  BY <1>5 DEF Revealed

\* The VRF callback: the request's ordinal enters revealedIds with it.
LEMMA HistoryConsume ==
  ASSUME LifeInv, NEW m \in callbacks, ConsumeLotteryRandomness(m)
  PROVE  LiveRequestsFresh' /\ LiveIdsDistinct' /\ HistoryConsistent'
<1> DEFINE a0 == m.addr
           k == req[a0].id
<1>1. a0 \in Addrs /\ Live(a0) /\ req[a0] \in Requests /\ req[a0].status = "Pending"
  BY DEF ConsumeLotteryRandomness, LifeInv, TypeOK, Live
<1>a. /\ TotalWon(m.entropy, req[a0].amountOfCards) \in Nat
      /\ SelectActivePrizePool(m.entropy) \in PoolIds
      /\ now \in Nat /\ m.src \in 1..MaxRequests
  BY <1>1, SelectInPoolIds DEF LifeInv, TypeOK, RegInv, Requests, ReqIds
<1> DEFINE rv == [req[a0] EXCEPT !.status = "Revealed",
                                 !.totalWonUsd = TotalWon(m.entropy, req[a0].amountOfCards),
                                 !.selectedPoolIndex = SelectActivePrizePool(m.entropy),
                                 !.revealedAt = now,
                                 !.src = m.src]
<1>b. req' = [req EXCEPT ![a0] = rv]
  BY DEF ConsumeLotteryRandomness
<1>c. rv.id = k /\ rv.status = "Revealed" /\ rv # NoRequest
  <2>1. req[a0] \in Requests /\ TotalWon(m.entropy, req[a0].amountOfCards) \in Nat
        /\ SelectActivePrizePool(m.entropy) \in PoolIds /\ now \in Nat
        /\ m.src \in 1..MaxRequests
    BY <1>1, <1>a
  <2>2. rv = Revealed(req[a0], TotalWon(m.entropy, req[a0].amountOfCards),
                      SelectActivePrizePool(m.entropy), now, m.src)
    BY DEF Revealed
  <2>3. QED
    BY <2>1, <2>2, RevealFields
<1>2. /\ req'[a0].id = k /\ req'[a0].status = "Revealed" /\ req'[a0] # NoRequest
      /\ \A a \in Addrs \ {a0} : req'[a] = req[a]
  BY <1>1, <1>b, <1>c DEF LifeInv, TypeOK
<1>3. /\ revealedIds' = revealedIds \cup {k}
      /\ UNCHANGED <<nextId, claimedIds, refundedIds>>
  BY DEF ConsumeLotteryRandomness
<1>4. k \in 1..nextId /\ k \notin refundedIds \cup claimedIds
      /\ \A a \in Addrs \ {a0} : Live(a) => req[a].id # k
  BY <1>1 DEF LifeInv, LiveRequestsFresh, LiveIdsDistinct
<1>5. LiveRequestsFresh'
  BY <1>1, <1>2, <1>3, <1>4 DEF LiveRequestsFresh, LifeInv, Live
<1>6. LiveIdsDistinct'
  BY <1>2, <1>4 DEF LiveIdsDistinct, LifeInv, Live
<1>7. HistoryConsistent'
  BY <1>3, <1>4 DEF HistoryConsistent, LifeInv
<1>8. QED
  BY <1>5, <1>6, <1>7

\* claim: a Revealed request's ordinal moves to claimedIds as its account closes.
LEMMA HistoryClaim ==
  ASSUME LifeInv, NEW a0 \in Addrs, NEW mode \in PayoutModes, Claim(a0, mode)
  PROVE  LiveRequestsFresh' /\ LiveIdsDistinct' /\ HistoryConsistent'
<1> DEFINE k == req[a0].id
<1>1. /\ Live(a0) /\ req[a0].status = "Revealed"
      /\ req'[a0] = NoRequest /\ \A a \in Addrs \ {a0} : req'[a] = req[a]
      /\ claimedIds' = claimedIds \cup {k}
      /\ UNCHANGED <<nextId, revealedIds, refundedIds>>
  BY DEF Claim, LifeInv, TypeOK
<1>2. k \in revealedIds /\ k \in 1..nextId
      /\ \A a \in Addrs \ {a0} : Live(a) => req[a].id # k
  BY <1>1 DEF LifeInv, LiveRequestsFresh, LiveIdsDistinct
<1>3. LiveRequestsFresh'
  BY <1>1, <1>2 DEF LiveRequestsFresh, LifeInv, Live
<1>4. LiveIdsDistinct'
  BY <1>1 DEF LiveIdsDistinct, LifeInv, Live
<1>5. HistoryConsistent'
  BY <1>1, <1>2 DEF HistoryConsistent, LifeInv
<1>6. QED
  BY <1>3, <1>4, <1>5

\* refund: a Pending request's ordinal, never revealed, moves to refundedIds.
LEMMA HistoryRefund ==
  ASSUME LifeInv, NEW a0 \in Addrs, Refund(a0)
  PROVE  LiveRequestsFresh' /\ LiveIdsDistinct' /\ HistoryConsistent'
<1> DEFINE k == req[a0].id
<1>1. /\ Live(a0) /\ req[a0].status = "Pending"
      /\ req'[a0] = NoRequest /\ \A a \in Addrs \ {a0} : req'[a] = req[a]
      /\ refundedIds' = refundedIds \cup {k}
      /\ UNCHANGED <<nextId, revealedIds, claimedIds>>
  BY DEF Refund, LifeInv, TypeOK
<1>2. k \notin revealedIds /\ k \in 1..nextId
      /\ \A a \in Addrs \ {a0} : Live(a) => req[a].id # k
  BY <1>1 DEF LifeInv, LiveRequestsFresh, LiveIdsDistinct
<1>3. LiveRequestsFresh'
  BY <1>1, <1>2 DEF LiveRequestsFresh, LifeInv, Live
<1>4. LiveIdsDistinct'
  BY <1>1 DEF LiveIdsDistinct, LifeInv, Live
<1>5. HistoryConsistent'
  BY <1>1, <1>2 DEF HistoryConsistent, LifeInv
<1>6. QED
  BY <1>3, <1>4, <1>5

LEMMA LifeInvStep == LifeInv /\ [Next]_vars => LifeInv'
<1> SUFFICES ASSUME LifeInv, [Next]_vars PROVE LifeInv'
  OBVIOUS
<1>1. TypeOK' /\ RegInv'
  BY TypeStep, LifeStepKeepsRegistry, RegInvStep, RegInvUnchanged
     DEF LifeInv, RegistryStep
<1>2. LiveRequestsFresh' /\ LiveIdsDistinct' /\ HistoryConsistent'
  <2> USE DEF LifeInv
  <2>1. CASE \E u \in Users, n \in CardChoices, mode \in PaymentModes, s \in SlotRange :
               RequestMint(u, n, mode, s)
    BY <2>1, HistoryRequestMint
  <2>2. CASE \E m \in callbacks : ConsumeLotteryRandomness(m)
    BY <2>2, HistoryConsume
  <2>3. CASE \E a \in Addrs, mode \in PayoutModes : Claim(a, mode)
    BY <2>3, HistoryClaim
  <2>4. CASE \E a \in Addrs : Refund(a)
    BY <2>4, HistoryRefund
  <2>5. CASE \/ \E r \in vrfRequests, w \in Entropies : OracleFulfil(r, w)
             \/ \E m \in callbacks : CallbackRejected(m)
             \/ \E amt \in WithdrawAmounts : WithdrawSol(amt)
             \/ \E amt \in WithdrawAmounts : WithdrawToken(amt)
             \/ Tick \/ RegistryStep \/ UNCHANGED vars
    <3>1. UNCHANGED <<req, nextId, revealedIds, claimedIds, refundedIds>>
      BY <2>5 DEF OracleFulfil, CallbackRejected, WithdrawSol, WithdrawToken, Tick,
                  RegistryStep, lifeVars, vars
    <3>2. QED
      BY <3>1, HistoryUnchanged
  <2>6. QED
    BY <2>1, <2>2, <2>3, <2>4, <2>5 DEF Next
<1>3. QED
  BY <1>1, <1>2 DEF LifeInv

(***************************************************************************)
(* No free option, for every value of the constants: a request whose       *)
(* outcome the VRF callback revealed is never refunded, and no request is  *)
(* both claimed and refunded.  Refund and the callback both require        *)
(* Pending, and claim requires Revealed, so whichever of a late callback   *)
(* and a timed-out refund lands first excludes the other.                  *)
(***************************************************************************)
THEOREM NoFreeOptionHolds == Spec => []NoFreeOption
<1>1. LifeInv => NoFreeOption
  BY DEF LifeInv, HistoryConsistent, NoFreeOption
<1>2. QED
  BY <1>1, LifeInvInit, LifeInvStep, PTL DEF Spec


-----------------------------------------------------------------------------
(***************************************************************************)
(* Refinement of RequestLifecycle under the mapping AbsPhase.  Each        *)
(* request-touching instruction moves exactly the ordinal of the account   *)
(* it writes, and LifeInv says where that ordinal stood before: a new      *)
(* ordinal is in no history set, a Pending account's ordinal is in none,   *)
(* and a Revealed account's ordinal is revealed but not settled.           *)
(***************************************************************************)

LEMMA RefineInit == Init => Abs!AbsInit
BY DEF Init, Abs!AbsInit, AbsPhase, ReqIds

\* Every instruction that leaves the ordinal counter and the history alone
\* is a stuttering step of the abstract lifecycle.
LEMMA RefineUnchanged ==
  ASSUME UNCHANGED <<nextId, revealedIds, claimedIds, refundedIds>>
  PROVE  UNCHANGED Abs!absVars
BY DEF Abs!absVars, AbsPhase

\* request_mint creates the next ordinal, which no history set holds yet.
LEMMA RefineRequestMint ==
  ASSUME LifeInv, NEW u \in Users, NEW n \in CardChoices, NEW mode \in PaymentModes,
         NEW s \in SlotRange, RequestMint(u, n, mode, s)
  PROVE  Abs!Create
<1>1. /\ nextId + 1 \in ReqIds /\ nextId' = nextId + 1
      /\ UNCHANGED <<revealedIds, claimedIds, refundedIds>>
  BY DEF RequestMint, LifeInv, TypeOK, ReqIds
<1>2. revealedIds \cup claimedIds \cup refundedIds \subseteq 1..nextId
  BY DEF LifeInv, HistoryConsistent
<1>3. AbsPhase' = [AbsPhase EXCEPT ![nextId + 1] = "Pending"]
  <2>1. nextId \in Nat
    BY DEF LifeInv, TypeOK
  <2>2. AbsPhase'[nextId + 1] = "Pending"
    BY <1>1, <1>2, <2>1 DEF AbsPhase
  <2>3. \A i \in ReqIds \ {nextId + 1} : AbsPhase'[i] = AbsPhase[i]
    BY <1>1, <2>1 DEF AbsPhase, ReqIds
  <2>4. QED
    BY <1>1, <2>2, <2>3 DEF AbsPhase
<1>4. QED
  BY <1>1, <1>3 DEF Abs!Create

\* The ordinal of a live Pending account is issued and in no history set.
LEMMA PendingOrdinal ==
  ASSUME LifeInv, NEW a \in Addrs, Live(a), req[a].status = "Pending"
  PROVE  /\ req[a].id \in ReqIds
         /\ AbsPhase[req[a].id] = "Pending"
         /\ req[a].id \notin revealedIds \cup claimedIds \cup refundedIds
<1>1. /\ req[a].id \in 1..nextId
      /\ req[a].id \notin revealedIds \cup claimedIds \cup refundedIds
  BY DEF LifeInv, LiveRequestsFresh
<1>2. req[a].id \in ReqIds
  BY <1>1 DEF LifeInv, TypeOK, ReqIds
<1>3. QED
  BY <1>1, <1>2 DEF AbsPhase, LifeInv, TypeOK

\* consume_lottery_randomness reveals the Pending ordinal of its account.
LEMMA RefineConsume ==
  ASSUME LifeInv, NEW m \in callbacks, ConsumeLotteryRandomness(m)
  PROVE  Abs!Reveal(req[m.addr].id)
<1> DEFINE k == req[m.addr].id
<1>1. m.addr \in Addrs /\ Live(m.addr) /\ req[m.addr].status = "Pending"
  BY DEF ConsumeLotteryRandomness, LifeInv, TypeOK
<1>2. k \in ReqIds /\ AbsPhase[k] = "Pending"
      /\ k \notin revealedIds \cup claimedIds \cup refundedIds
  BY <1>1, PendingOrdinal
<1>3. /\ revealedIds' = revealedIds \cup {k}
      /\ UNCHANGED <<nextId, claimedIds, refundedIds>>
  BY DEF ConsumeLotteryRandomness
<1>4. AbsPhase' = [AbsPhase EXCEPT ![k] = "Revealed"]
  BY <1>2, <1>3 DEF AbsPhase
<1>5. QED
  BY <1>2, <1>3, <1>4 DEF Abs!Reveal

\* claim settles the Revealed ordinal of its account.
LEMMA RefineClaim ==
  ASSUME LifeInv, NEW a \in Addrs, NEW mode \in PayoutModes, Claim(a, mode)
  PROVE  Abs!Settle(req[a].id)
<1> DEFINE k == req[a].id
<1>1. Live(a) /\ req[a].status = "Revealed"
  BY DEF Claim
<1>2. /\ k \in 1..nextId /\ k \in revealedIds
      /\ k \notin claimedIds \cup refundedIds
  BY <1>1 DEF LifeInv, LiveRequestsFresh
<1>3. k \in ReqIds /\ AbsPhase[k] = "Revealed"
  BY <1>2 DEF LifeInv, TypeOK, ReqIds, AbsPhase
<1>4. /\ claimedIds' = claimedIds \cup {k}
      /\ UNCHANGED <<nextId, revealedIds, refundedIds>>
  BY DEF Claim
<1>5. AbsPhase' = [AbsPhase EXCEPT ![k] = "Claimed"]
  BY <1>2, <1>3, <1>4 DEF AbsPhase
<1>6. QED
  BY <1>3, <1>4, <1>5 DEF Abs!Settle

\* refund retires the Pending ordinal of its account.
LEMMA RefineRefund ==
  ASSUME LifeInv, NEW a \in Addrs, Refund(a)
  PROVE  Abs!Refund(req[a].id)
<1> DEFINE k == req[a].id
<1>1. Live(a) /\ req[a].status = "Pending"
  BY DEF Refund
<1>2. k \in ReqIds /\ AbsPhase[k] = "Pending"
      /\ k \notin revealedIds \cup claimedIds \cup refundedIds
  BY <1>1, PendingOrdinal
<1>3. /\ refundedIds' = refundedIds \cup {k}
      /\ UNCHANGED <<nextId, revealedIds, claimedIds>>
  BY DEF Refund
<1>4. AbsPhase' = [AbsPhase EXCEPT ![k] = "Refunded"]
  BY <1>2, <1>3 DEF AbsPhase
<1>5. QED
  BY <1>2, <1>3, <1>4 DEF Abs!Refund

LEMMA RefineStep == LifeInv /\ [Next]_vars => [Abs!AbsNext]_Abs!absVars
<1> SUFFICES ASSUME LifeInv, [Next]_vars PROVE [Abs!AbsNext]_Abs!absVars
  OBVIOUS
<1>1. CASE \E u \in Users, n \in CardChoices, mode \in PaymentModes, s \in SlotRange :
             RequestMint(u, n, mode, s)
  BY <1>1, RefineRequestMint DEF Abs!AbsNext
<1>2. CASE \E m \in callbacks : ConsumeLotteryRandomness(m)
  <2>1. PICK m \in callbacks : ConsumeLotteryRandomness(m)
    BY <1>2
  <2>2. req[m.addr].id \in ReqIds
    BY <2>1, PendingOrdinal DEF ConsumeLotteryRandomness, LifeInv, TypeOK
  <2>3. QED
    BY <2>1, <2>2, RefineConsume DEF Abs!AbsNext
<1>3. CASE \E a \in Addrs, mode \in PayoutModes : Claim(a, mode)
  <2>1. PICK a \in Addrs, mode \in PayoutModes : Claim(a, mode)
    BY <1>3
  <2>2. req[a].id \in ReqIds
    BY <2>1 DEF Claim, LifeInv, TypeOK, Requests, Live
  <2>3. QED
    BY <2>1, <2>2, RefineClaim DEF Abs!AbsNext
<1>4. CASE \E a \in Addrs : Refund(a)
  <2>1. PICK a \in Addrs : Refund(a)
    BY <1>4
  <2>2. req[a].id \in ReqIds
    BY <2>1 DEF Refund, LifeInv, TypeOK, Requests, Live
  <2>3. QED
    BY <2>1, <2>2, RefineRefund DEF Abs!AbsNext
<1>5. CASE \/ \E r \in vrfRequests, w \in Entropies : OracleFulfil(r, w)
           \/ \E m \in callbacks : CallbackRejected(m)
           \/ \E amt \in WithdrawAmounts : WithdrawSol(amt)
           \/ \E amt \in WithdrawAmounts : WithdrawToken(amt)
           \/ Tick \/ RegistryStep \/ UNCHANGED vars
  <2>1. UNCHANGED <<nextId, revealedIds, claimedIds, refundedIds>>
    BY <1>5 DEF OracleFulfil, CallbackRejected, WithdrawSol, WithdrawToken, Tick,
                RegistryStep, lifeVars, vars
  <2>2. QED
    BY <2>1, RefineUnchanged
<1>6. QED
  BY <1>1, <1>2, <1>3, <1>4, <1>5 DEF Next

(***************************************************************************)
(* The lifecycle implements the per-request promise of the spec, for every *)
(* value of the constants: request_mint, consume_lottery_randomness, claim *)
(* and refund move a request only along Pending -> Revealed -> Claimed or  *)
(* Pending -> Refunded, each at most once, and no other instruction moves  *)
(* any request.                                                            *)
(***************************************************************************)
THEOREM LifeRefinesRequestLifecycle == Spec => ImplementsRequestLifecycle
<1>1. Spec => []LifeInv
  BY LifeInvInit, LifeInvStep, PTL DEF Spec
<1>2. QED
  BY <1>1, RefineInit, RefineStep, PTL DEF Spec, ImplementsRequestLifecycle, Abs!AbsSpec

-----------------------------------------------------------------------------
(***************************************************************************)
(* The pool the VRF callback selects.  select_active_prize_pool indexes    *)
(* active_pool_indices at vrf % active_pool_count, a position below the    *)
(* count; ActiveListPacked (part of RegInv) says that position holds an id *)
(* with a PrizePoolAccount.                                                *)
(***************************************************************************)
LEMMA SelectActiveLive ==
  ASSUME RegInv, activePoolCount > 0, NEW w \in Entropies
  PROVE  /\ SelectActivePrizePool(w) \in ActiveIds
         /\ prizePool[SelectActivePrizePool(w)] # NoPool
<1> DEFINE pos == w % activePoolCount
<1>1. pos \in ActivePositions
  BY DEF RegInv, RegTypeOK, ActivePositions
<1>2. SelectActivePrizePool(w) = activePoolIndices[pos]
  BY DEF SelectActivePrizePool
<1>3. QED
  BY <1>1, <1>2 DEF ActiveIds, RegInv, ActiveListPacked

\* consume_lottery_randomness writes the selected pool into the record.
LEMMA RevealPool ==
  ASSUME NEW r \in Requests, NEW tw \in Nat, NEW sp \in PoolIds, NEW t \in Nat,
         NEW sr \in 1..MaxRequests
  PROVE  Revealed(r, tw, sp, t, sr).selectedPoolIndex = sp
BY DEF Revealed, Requests

\* The body of RevealSelectsActivePool for one account.
RevealPicksLive(a) ==
    (Live(a) /\ req[a].status = "Pending" /\ Live(a)' /\ req'[a].status = "Revealed"
     /\ activePoolCount > 0)
    => /\ req'[a].selectedPoolIndex \in ActiveIds
       /\ prizePool[req'[a].selectedPoolIndex] # NoPool

(***************************************************************************)
(* Only the callback turns a Pending account Revealed, and it leaves the   *)
(* registry as it read it; every other instruction creates, closes or      *)
(* leaves the account.                                                     *)
(***************************************************************************)
LEMMA RevealPicksLiveStep ==
  ASSUME LifeInv, [Next]_vars, NEW a \in Addrs
  PROVE  RevealPicksLive(a)
<1> SUFFICES ASSUME Live(a), req[a].status = "Pending", Live(a)',
                    req'[a].status = "Revealed", activePoolCount > 0
             PROVE  /\ req'[a].selectedPoolIndex \in ActiveIds
                    /\ prizePool[req'[a].selectedPoolIndex] # NoPool
  BY DEF RevealPicksLive
<1>1. CASE \E u \in Users, n \in CardChoices, mode \in PaymentModes, s \in SlotRange :
             RequestMint(u, n, mode, s)
  <2>1. PICK u \in Users, n \in CardChoices, mode \in PaymentModes, s \in SlotRange :
               RequestMint(u, n, mode, s)
    BY <1>1
  <2>2. a # <<u, s>>
    BY <2>1 DEF RequestMint
  <2>3. req'[a] = req[a]
    BY <2>1, <2>2 DEF RequestMint, LifeInv, TypeOK
  <2>4. QED
    BY <2>3
<1>2. CASE \E m \in callbacks : ConsumeLotteryRandomness(m)
  <2>1. PICK m \in callbacks : ConsumeLotteryRandomness(m)
    BY <1>2
  <2>2. CASE m.addr = a
    <3>1. /\ req[a] \in Requests /\ m.entropy \in Entropies /\ m.src \in 1..MaxRequests
          /\ TotalWon(m.entropy, req[a].amountOfCards) \in Nat /\ now \in Nat
      BY <2>2 DEF LifeInv, TypeOK, Live, ReqIds, Requests
    <3>2. SelectActivePrizePool(m.entropy) \in PoolIds
      BY <3>1, SelectInPoolIds DEF LifeInv, RegInv
    <3>3. req'[a] = Revealed(req[a], TotalWon(m.entropy, req[a].amountOfCards),
                             SelectActivePrizePool(m.entropy), now, m.src)
      BY <2>1, <2>2 DEF ConsumeLotteryRandomness, Revealed, LifeInv, TypeOK
    <3>4. req'[a].selectedPoolIndex = SelectActivePrizePool(m.entropy)
      BY <3>1, <3>2, <3>3, RevealPool
    <3>5. QED
      BY <3>1, <3>4, SelectActiveLive DEF LifeInv
  <2>3. CASE m.addr # a
    BY <2>1, <2>3 DEF ConsumeLotteryRandomness, LifeInv, TypeOK
  <2>4. QED
    BY <2>2, <2>3
<1>3. CASE \E a0 \in Addrs, mode \in PayoutModes : Claim(a0, mode)
  BY <1>3 DEF Claim, LifeInv, TypeOK, Live
<1>4. CASE \E a0 \in Addrs : Refund(a0)
  BY <1>4 DEF Refund, LifeInv, TypeOK, Live
<1>5. CASE \/ \E r \in vrfRequests, w \in Entropies : OracleFulfil(r, w)
           \/ \E m \in callbacks : CallbackRejected(m)
           \/ \E amt \in WithdrawAmounts : WithdrawSol(amt)
           \/ \E amt \in WithdrawAmounts : WithdrawToken(amt)
           \/ Tick \/ RegistryStep \/ UNCHANGED vars
  BY <1>5 DEF OracleFulfil, CallbackRejected, WithdrawSol, WithdrawToken, Tick,
              RegistryStep, lifeVars, vars
<1>6. QED
  BY <1>1, <1>2, <1>3, <1>4, <1>5 DEF Next

(***************************************************************************)
(* The VRF callback selects a live pool, for every value of the constants: *)
(* whenever some pool is active, the selected_pool_index that              *)
(* consume_lottery_randomness writes is an active id with a                *)
(* PrizePoolAccount, under every interleaving with add, remove, update,    *)
(* migrate, close and initialize.                                          *)
(***************************************************************************)
THEOREM RevealSelectsActivePoolHolds == Spec => RevealSelectsActivePool
<1>1. Spec => []LifeInv
  BY LifeInvInit, LifeInvStep, PTL DEF Spec
<1>2. LifeInv /\ [Next]_vars => [\A a \in Addrs : RevealPicksLive(a)]_vars
  BY RevealPicksLiveStep
<1>3. QED
  BY <1>1, <1>2, PTL DEF Spec, RevealSelectsActivePool, RevealPicksLive

=============================================================================
