----------------------- MODULE RandomnessBindingProofs -----------------------
(***************************************************************************)
(* Why the VRF randomness lands on its own request (RandomnessBoundToRequest*)
(* of MintLifecycle), for every value of the constants, under the two      *)
(* conditions the lifecycle_replay run shows to be needed:                 *)
(*   - the oracle delivers each callback once (DuplicateDelivery = FALSE); *)
(*   - the refund timeout outlasts request_mint's request_slot window:     *)
(*     RequestTimeout >= SlotTolerance * MaxSecondsPerSlot, that is, the   *)
(*     clock cannot pass REQUEST_TIMEOUT_SECONDS in SlotTolerance slots.   *)
(*                                                                         *)
(* The argument: an outstanding VRF request or callback names the address *)
(* [user, request_slot] of its request.  While that request lives there,  *)
(* it is Pending with the same ordinal.  Once it is refunded, the clock    *)
(* has passed the timeout, so the slot is past the window and request_mint *)
(* can never re-create an account at that address.  A claim needs the     *)
(* request Revealed, which consumed its only callback.                     *)
(***************************************************************************)
EXTENDS MintLifecycleProofs

USE RegistryAssumption, LifecycleAssumption, NoRequestAssumption

\* The oracle delivers each callback transaction once.
SingleDelivery == DuplicateDelivery = FALSE

\* The clock cannot pass the refund timeout within the request_slot window.
WindowWithinTimeout == RequestTimeout >= SlotTolerance * MaxSecondsPerSlot

\* request_slot is the second component of the account address.
AddrSlot(a) == a[2]

\* The account an answer for ordinal k at address a may still reach.
AnswerTarget(a, k) ==
    \/ /\ Live(a)
       /\ req[a].id = k
       /\ req[a].status = "Pending"
    \/ /\ ~Live(a)
       /\ AddrSlot(a) + SlotTolerance < slot

\* Every outstanding VRF request and callback still names its own request,
\* or an address that can never be re-created.
OutstandingBound ==
    /\ \A r \in vrfRequests : AnswerTarget(r.addr, r.id)
    /\ \A m \in callbacks : AnswerTarget(m.addr, m.src)

\* At most one outstanding answer per ordinal, and only for issued ordinals.
OutstandingDistinct ==
    /\ \A r1, r2 \in vrfRequests : r1.id = r2.id => r1 = r2
    /\ \A m1, m2 \in callbacks : m1.src = m2.src => m1 = m2
    /\ \A r \in vrfRequests, m \in callbacks : r.id # m.src
    /\ \A r \in vrfRequests : r.id <= nextId
    /\ \A m \in callbacks : m.src <= nextId

\* A live request's age in seconds is at most its age in slots times the
\* largest step of the clock per slot.
ClockBound ==
    \A a \in Addrs : Live(a) =>
        now - req[a].createdAt <= (slot - AddrSlot(a)) * MaxSecondsPerSlot

BindInv ==
    /\ LifeInv
    /\ ClockBound
    /\ OutstandingDistinct
    /\ OutstandingBound
    /\ RandomnessBoundToRequest

-----------------------------------------------------------------------------
\* Ages compared through the clock rate: more slots than the window.
LEMMA SlotsFromSeconds ==
  ASSUME NEW sl \in Nat, NEW s \in Nat, NEW tol \in Nat, NEW rate \in Nat,
         (sl - s) * rate > tol * rate
  PROVE  s + tol < sl
<1>1. SUFFICES ASSUME sl <= s + tol PROVE FALSE
  OBVIOUS
<1>2. (sl - s) * rate <= tol * rate
  BY <1>1
<1>3. QED
  BY <1>2

\* consume_lottery_randomness keeps the creation time and records the source.
LEMMA RevealSrcCreated ==
  ASSUME NEW r \in Requests, NEW tw \in Nat, NEW sp \in PoolIds, NEW t \in Nat,
         NEW sr \in 1..MaxRequests
  PROVE  /\ Revealed(r, tw, sp, t, sr).src = sr
         /\ Revealed(r, tw, sp, t, sr).createdAt = r.createdAt
BY DEF Revealed, Requests

LEMMA BindInit == Init => BindInv
<1> SUFFICES ASSUME Init PROVE BindInv
  OBVIOUS
<1>1. LifeInv
  BY LifeInvInit
<1>2. ClockBound /\ RandomnessBoundToRequest
  BY DEF Init, ClockBound, RandomnessBoundToRequest, Live
<1>3. OutstandingDistinct /\ OutstandingBound
  BY DEF Init, OutstandingDistinct, OutstandingBound
<1>4. QED
  BY <1>1, <1>2, <1>3 DEF BindInv

\* The part of BindInv beyond LifeInv.
BindRest == ClockBound /\ OutstandingDistinct /\ OutstandingBound /\ RandomnessBoundToRequest

\* Steps that touch no account, no answer in flight and neither clock.
LEMMA BindUnchanged ==
  ASSUME BindInv, UNCHANGED <<req, vrfRequests, callbacks, slot, now, nextId>>
  PROVE  BindRest'
BY DEF BindInv, BindRest, ClockBound, OutstandingDistinct, OutstandingBound,
       AnswerTarget, RandomnessBoundToRequest, Live

(***************************************************************************)
(* request_mint at [u, s]: the address is free, so by OutstandingBound     *)
(* every answer still naming it has a slot past the window, which the      *)
(* request_slot check excludes; the new VRF request gets the next ordinal, *)
(* above every one in flight.                                              *)
(***************************************************************************)
LEMMA BindRequestMint ==
  ASSUME BindInv, NEW u \in Users, NEW n \in CardChoices, NEW mode \in PaymentModes,
         NEW s \in SlotRange, RequestMint(u, n, mode, s)
  PROVE  BindRest'
<1> DEFINE a0 == <<u, s>>
           paid == IF mode = "SOL" THEN StakeLamports(n) ELSE StakeUsdt(n)
           rec == [user |-> u, amountOfCards |-> n, status |-> "Pending",
                   paymentMode |-> mode, totalWonUsd |-> 0, paidAmount |-> paid,
                   createdAt |-> now, revealedAt |-> 0, selectedPoolIndex |-> 0,
                   vrfRequestSlot |-> s, id |-> nextId + 1, src |-> 0]
           nr == [addr |-> a0, id |-> nextId + 1]
<1> USE DEF BindInv, LifeInv, TypeOK
<1>a. /\ a0 \in Addrs /\ ~Live(a0) /\ AddrSlot(a0) = s
      /\ nextId \in Nat /\ slot \in Nat /\ now \in Nat /\ s \in Nat
      /\ SaturatingSub(slot, SlotTolerance) <= s /\ s <= slot
  BY DEF RequestMint, Addrs, AddrSlot, SlotRange
<1>b. rec # NoRequest
  <2>1. paid \in Nat
    BY LamportsNat DEF StakeLamports, StakeUsdt
  <2>2. nextId + 1 \in 1..MaxRequests
    BY DEF RequestMint
  <2>3. rec \in Requests
    BY <2>1, <2>2 DEF Requests, Statuses, PaymentModes, ReqIds, PoolIds
  <2>4. QED
    BY <2>3
<1>c. /\ req' = [req EXCEPT ![a0] = rec]
      /\ vrfRequests' = vrfRequests \cup {nr}
      /\ nextId' = nextId + 1
      /\ UNCHANGED <<slot, now, callbacks>>
  BY DEF RequestMint
<1>d. /\ Live(a0)' /\ req'[a0].id = nextId + 1 /\ req'[a0].status = "Pending"
      /\ req'[a0].createdAt = now
      /\ \A a \in Addrs \ {a0} : req'[a] = req[a]
  BY <1>a, <1>b, <1>c DEF Live
\* No answer in flight names the freed address: it would be past the window.
<1>e. /\ \A r \in vrfRequests : r.addr # a0
      /\ \A m \in callbacks : m.addr # a0
  <2>1. ~(AddrSlot(a0) + SlotTolerance < slot)
    BY <1>a DEF SaturatingSub
  <2>2. ~AnswerTarget(a0, nextId + 1) /\ \A k \in Nat : ~AnswerTarget(a0, k)
    BY <1>a, <2>1 DEF AnswerTarget
  <2>3. QED
    BY <2>2 DEF OutstandingBound, ReqIds
<1>1. ClockBound'
  <2>1. now - now <= (slot - s) * MaxSecondsPerSlot
    BY <1>a
  <2>2. QED
    BY <1>a, <1>c, <1>d, <2>1 DEF ClockBound, Live
<1>f. nr.addr = a0 /\ nr.id = nextId + 1
  OBVIOUS
<1>2. OutstandingDistinct'
  <2>1. /\ \A r \in vrfRequests : r.id <= nextId /\ r.id # nextId + 1
        /\ \A m \in callbacks : m.src <= nextId /\ m.src # nextId + 1
    BY <1>a DEF OutstandingDistinct, ReqIds
  <2>2. \A r1, r2 \in vrfRequests' : r1.id = r2.id => r1 = r2
    BY <1>c, <1>f, <2>1 DEF OutstandingDistinct
  <2>3. \A r \in vrfRequests', m \in callbacks' : r.id # m.src
    BY <1>c, <1>f, <2>1 DEF OutstandingDistinct
  <2>4. \A r \in vrfRequests' : r.id <= nextId'
    BY <1>a, <1>c, <1>f, <2>1 DEF ReqIds
  <2>5. \A m \in callbacks' : m.src <= nextId'
    BY <1>a, <1>c, <2>1 DEF ReqIds
  <2>6. QED
    BY <1>c, <2>2, <2>3, <2>4, <2>5 DEF OutstandingDistinct
<1>3. OutstandingBound'
  <2>1. ASSUME NEW b \in Addrs \ {a0}, NEW k, AnswerTarget(b, k) PROVE AnswerTarget(b, k)'
    BY <2>1, <1>c, <1>d DEF AnswerTarget, Live
  <2>2. ASSUME NEW r \in vrfRequests' PROVE AnswerTarget(r.addr, r.id)'
    <3>1. CASE r = nr
      BY <3>1, <1>c, <1>d, <1>f DEF AnswerTarget
    <3>2. CASE r \in vrfRequests
      BY <3>2, <2>1, <1>e DEF OutstandingBound
    <3>3. QED
      BY <3>1, <3>2, <1>c
  <2>3. ASSUME NEW m \in callbacks' PROVE AnswerTarget(m.addr, m.src)'
    BY <2>1, <1>c, <1>e DEF OutstandingBound
  <2>4. QED
    BY <2>2, <2>3 DEF OutstandingBound
<1>4. RandomnessBoundToRequest'
  BY <1>d DEF RandomnessBoundToRequest, Live
<1>5. QED
  BY <1>1, <1>2, <1>3, <1>4 DEF BindRest

\* The oracle's answer carries its VRF request's address and ordinal.
LEMMA BindOracleFulfil ==
  ASSUME BindInv, NEW r \in vrfRequests, NEW w \in Entropies, OracleFulfil(r, w)
  PROVE  BindRest'
<1> DEFINE cb == [addr |-> r.addr, src |-> r.id, entropy |-> w]
<1> USE DEF BindInv, LifeInv, TypeOK
<1>1. /\ vrfRequests' = vrfRequests \ {r}
      /\ callbacks' = callbacks \cup {cb}
      /\ UNCHANGED <<req, slot, now, nextId>>
  BY DEF OracleFulfil
<1>2. cb.addr = r.addr /\ cb.src = r.id
  OBVIOUS
<1>3. ClockBound' /\ RandomnessBoundToRequest'
  BY <1>1 DEF ClockBound, RandomnessBoundToRequest, Live
<1>4. OutstandingDistinct'
  <2>1. \A r2 \in vrfRequests' : r2.id # r.id
    BY <1>1 DEF OutstandingDistinct
  <2>2. \A m \in callbacks : m.src # r.id
    BY DEF OutstandingDistinct
  <2>3. QED
    BY <1>1, <1>2, <2>1, <2>2 DEF OutstandingDistinct
<1>5. OutstandingBound'
  <2>1. ASSUME NEW a, NEW k, AnswerTarget(a, k) PROVE AnswerTarget(a, k)'
    BY <2>1, <1>1 DEF AnswerTarget, Live
  <2>2. QED
    BY <1>1, <1>2, <2>1 DEF OutstandingBound
<1>6. QED
  BY <1>3, <1>4, <1>5 DEF BindRest

(***************************************************************************)
(* The VRF callback on a live account: by OutstandingBound the account is  *)
(* Pending with the ordinal the callback carries, so the src it records is *)
(* the account's own id.  Delivered once, the callback leaves; no other    *)
(* answer names this ordinal (OutstandingDistinct), hence none names the   *)
(* now Revealed account.                                                   *)
(***************************************************************************)
LEMMA BindConsume ==
  ASSUME SingleDelivery, BindInv, NEW m \in callbacks, ConsumeLotteryRandomness(m)
  PROVE  BindRest'
<1> DEFINE a0 == m.addr
           rv == [req[a0] EXCEPT !.status = "Revealed",
                                 !.totalWonUsd = TotalWon(m.entropy, req[a0].amountOfCards),
                                 !.selectedPoolIndex = SelectActivePrizePool(m.entropy),
                                 !.revealedAt = now,
                                 !.src = m.src]
           rvOp == Revealed(req[a0], TotalWon(m.entropy, req[a0].amountOfCards),
                            SelectActivePrizePool(m.entropy), now, m.src)
<1> USE DEF BindInv, LifeInv, TypeOK
<1>1. /\ a0 \in Addrs /\ Live(a0) /\ req[a0] \in Requests /\ req[a0].status = "Pending"
      /\ m.src \in 1..MaxRequests
  BY DEF ConsumeLotteryRandomness, Live, ReqIds
<1>2. req[a0].id = m.src
  BY <1>1 DEF OutstandingBound, AnswerTarget
<1>3. /\ req' = [req EXCEPT ![a0] = rv]
      /\ callbacks' = callbacks \ {m}
      /\ UNCHANGED <<vrfRequests, slot, now, nextId>>
  BY DEF ConsumeLotteryRandomness, CallbackDelivered, SingleDelivery
<1>4. /\ rv.id = req[a0].id /\ rv.status = "Revealed" /\ rv # NoRequest
      /\ rv.src = m.src /\ rv.createdAt = req[a0].createdAt
  <2>1. /\ TotalWon(m.entropy, req[a0].amountOfCards) \in Nat
        /\ SelectActivePrizePool(m.entropy) \in PoolIds /\ now \in Nat
    BY <1>1, SelectInPoolIds DEF RegInv, Requests
  <2>2. rv = rvOp
    BY DEF Revealed
  <2>3. QED
    BY <1>1, <2>1, <2>2, RevealFields, RevealSrcCreated
<1>5. /\ Live(a0)' /\ req'[a0] = rv
      /\ \A a \in Addrs \ {a0} : req'[a] = req[a]
  BY <1>1, <1>3, <1>4 DEF Live
<1>6. /\ \A r \in vrfRequests : r.addr # a0
      /\ \A m2 \in callbacks \ {m} : m2.addr # a0
  <2>1. ASSUME NEW r \in vrfRequests, r.addr = a0 PROVE FALSE
    BY <2>1, <1>1, <1>2 DEF OutstandingBound, OutstandingDistinct, AnswerTarget
  <2>2. ASSUME NEW m2 \in callbacks \ {m}, m2.addr = a0 PROVE FALSE
    BY <2>2, <1>1, <1>2 DEF OutstandingBound, OutstandingDistinct, AnswerTarget
  <2>3. QED
    BY <2>1, <2>2
<1>7. ClockBound'
  BY <1>1, <1>3, <1>4, <1>5 DEF ClockBound, Live
<1>8. RandomnessBoundToRequest'
  BY <1>2, <1>4, <1>5 DEF RandomnessBoundToRequest, Live
<1>9. OutstandingDistinct'
  BY <1>3 DEF OutstandingDistinct
<1>10. OutstandingBound'
  <2>1. ASSUME NEW b \in Addrs \ {a0}, NEW k, AnswerTarget(b, k) PROVE AnswerTarget(b, k)'
    BY <2>1, <1>3, <1>5 DEF AnswerTarget, Live
  <2>2. QED
    BY <1>3, <1>6, <2>1 DEF OutstandingBound
<1>11. QED
  BY <1>7, <1>8, <1>9, <1>10 DEF BindRest

\* A rejected callback leaves, changing nothing else.
LEMMA BindRejected ==
  ASSUME SingleDelivery, BindInv, NEW m \in callbacks, CallbackRejected(m)
  PROVE  BindRest'
<1>1. /\ callbacks' = callbacks \ {m}
      /\ UNCHANGED <<req, vrfRequests, slot, now, nextId>>
  BY DEF CallbackRejected, CallbackDelivered, SingleDelivery
<1>2. QED
  BY <1>1 DEF BindInv, BindRest, ClockBound, OutstandingDistinct, OutstandingBound,
              AnswerTarget, RandomnessBoundToRequest, Live

\* claim closes a Revealed account, which no answer in flight names.
LEMMA BindClaim ==
  ASSUME BindInv, NEW a0 \in Addrs, NEW mode \in PayoutModes, Claim(a0, mode)
  PROVE  BindRest'
<1> USE DEF BindInv, LifeInv, TypeOK
<1>1. /\ Live(a0) /\ req[a0].status = "Revealed"
      /\ req'[a0] = NoRequest /\ \A a \in Addrs \ {a0} : req'[a] = req[a]
      /\ UNCHANGED <<vrfRequests, callbacks, slot, now, nextId>>
  BY DEF Claim
<1>2. \A k : ~AnswerTarget(a0, k)
  BY <1>1 DEF AnswerTarget
<1>3. ASSUME NEW b \in Addrs \ {a0}, NEW k, AnswerTarget(b, k) PROVE AnswerTarget(b, k)'
  BY <1>3, <1>1 DEF AnswerTarget, Live
<1>4. OutstandingBound'
  BY <1>1, <1>2, <1>3 DEF OutstandingBound
<1>5. ClockBound' /\ RandomnessBoundToRequest' /\ OutstandingDistinct'
  BY <1>1 DEF ClockBound, RandomnessBoundToRequest, OutstandingDistinct, Live
<1>6. QED
  BY <1>4, <1>5 DEF BindRest

(***************************************************************************)
(* refund closes a Pending account after the timeout.  The answers in      *)
(* flight for it keep naming the address; ClockBound and the timeout       *)
(* outlasting the window put the slot past the window, so request_mint can *)
(* never re-create the account they would land on.                        *)
(***************************************************************************)
LEMMA BindRefund ==
  ASSUME WindowWithinTimeout, BindInv, NEW a0 \in Addrs, Refund(a0)
  PROVE  BindRest'
<1> USE DEF BindInv, LifeInv, TypeOK
<1>1. /\ Live(a0) /\ req[a0].status = "Pending"
      /\ now - req[a0].createdAt > RequestTimeout
      /\ req'[a0] = NoRequest /\ \A a \in Addrs \ {a0} : req'[a] = req[a]
      /\ UNCHANGED <<vrfRequests, callbacks, slot, now, nextId>>
  BY DEF Refund
<1>2. AddrSlot(a0) + SlotTolerance < slot
  <2>1. /\ slot \in Nat /\ AddrSlot(a0) \in Nat /\ now \in Nat
        /\ req[a0].createdAt \in Nat
    BY <1>1 DEF Addrs, SlotRange, AddrSlot, Live, Requests
  <2>2. now - req[a0].createdAt <= (slot - AddrSlot(a0)) * MaxSecondsPerSlot
    BY <1>1 DEF ClockBound
  <2>3. (slot - AddrSlot(a0)) * MaxSecondsPerSlot > SlotTolerance * MaxSecondsPerSlot
    BY <1>1, <2>1, <2>2 DEF WindowWithinTimeout
  <2>4. QED
    BY <2>1, <2>3, SlotsFromSeconds
<1>3. \A k : AnswerTarget(a0, k)'
  BY <1>1, <1>2 DEF AnswerTarget, Live
<1>4. ASSUME NEW b \in Addrs \ {a0}, NEW k, AnswerTarget(b, k) PROVE AnswerTarget(b, k)'
  BY <1>4, <1>1 DEF AnswerTarget, Live
<1>5. OutstandingBound'
  BY <1>1, <1>3, <1>4 DEF OutstandingBound
<1>6. ClockBound' /\ RandomnessBoundToRequest' /\ OutstandingDistinct'
  BY <1>1 DEF ClockBound, RandomnessBoundToRequest, OutstandingDistinct, Live
<1>7. QED
  BY <1>5, <1>6 DEF BindRest

\* A new slot: the clock moves by at most MaxSecondsPerSlot, and an address
\* past the window stays past it.
LEMMA BindTick ==
  ASSUME BindInv, Tick
  PROVE  BindRest'
<1> USE DEF BindInv, LifeInv, TypeOK
<1>1. /\ slot' = slot + 1 /\ now' \in now..(now + MaxSecondsPerSlot)
      /\ UNCHANGED <<req, vrfRequests, callbacks, nextId>>
  BY DEF Tick
<1>2. ClockBound'
  <2>1. ASSUME NEW a \in Addrs, Live(a)
        PROVE  now' - req[a].createdAt <= (slot' - AddrSlot(a)) * MaxSecondsPerSlot
    <3>1. /\ slot \in Nat /\ AddrSlot(a) \in Nat /\ now \in Nat /\ req[a].createdAt \in Nat
      BY <2>1 DEF Addrs, SlotRange, AddrSlot, Live, Requests
    <3>2. now - req[a].createdAt <= (slot - AddrSlot(a)) * MaxSecondsPerSlot
      BY <2>1 DEF ClockBound
    <3>3. (slot + 1 - AddrSlot(a)) * MaxSecondsPerSlot
            = (slot - AddrSlot(a)) * MaxSecondsPerSlot + MaxSecondsPerSlot
      BY <3>1
    <3>4. QED
      BY <1>1, <3>1, <3>2, <3>3
  <2>2. QED
    BY <1>1, <2>1 DEF ClockBound, Live
<1>3. ASSUME NEW a \in Addrs, NEW k, AnswerTarget(a, k) PROVE AnswerTarget(a, k)'
  BY <1>3, <1>1 DEF AnswerTarget, Live, Addrs, SlotRange, AddrSlot
<1>4. OutstandingBound' /\ RandomnessBoundToRequest' /\ OutstandingDistinct'
  BY <1>1, <1>3 DEF OutstandingBound, RandomnessBoundToRequest, OutstandingDistinct, Live
<1>5. QED
  BY <1>2, <1>4 DEF BindRest

LEMMA BindStep ==
  ASSUME SingleDelivery, WindowWithinTimeout
  PROVE  BindInv /\ [Next]_vars => BindInv'
<1> SUFFICES ASSUME BindInv, [Next]_vars PROVE BindInv'
  OBVIOUS
<1>1. LifeInv'
  BY LifeInvStep DEF BindInv
<1>2. BindRest'
  <2>1. CASE \E u \in Users, n \in CardChoices, mode \in PaymentModes, s \in SlotRange :
               RequestMint(u, n, mode, s)
    BY <2>1, BindRequestMint
  <2>2. CASE \E r \in vrfRequests, w \in Entropies : OracleFulfil(r, w)
    BY <2>2, BindOracleFulfil
  <2>3. CASE \E m \in callbacks : ConsumeLotteryRandomness(m)
    BY <2>3, BindConsume
  <2>4. CASE \E m \in callbacks : CallbackRejected(m)
    BY <2>4, BindRejected
  <2>5. CASE \E a \in Addrs, mode \in PayoutModes : Claim(a, mode)
    BY <2>5, BindClaim
  <2>6. CASE \E a \in Addrs : Refund(a)
    BY <2>6, BindRefund
  <2>7. CASE Tick
    BY <2>7, BindTick
  <2>8. CASE \/ \E amt \in WithdrawAmounts : WithdrawSol(amt)
             \/ \E amt \in WithdrawAmounts : WithdrawToken(amt)
             \/ RegistryStep \/ UNCHANGED vars
    <3>1. UNCHANGED <<req, vrfRequests, callbacks, slot, now, nextId>>
      BY <2>8 DEF WithdrawSol, WithdrawToken, RegistryStep, lifeVars, vars
    <3>2. QED
      BY <3>1, BindUnchanged
  <2>9. QED
    BY <2>1, <2>2, <2>3, <2>4, <2>5, <2>6, <2>7, <2>8 DEF Next
<1>3. QED
  BY <1>1, <1>2 DEF BindInv, BindRest

(***************************************************************************)
(* Randomness is bound to its request, for every value of the constants:   *)
(* when the oracle delivers each callback once and the refund timeout      *)
(* outlasts request_mint's request_slot window, a Revealed MintRequest     *)
(* always consumed the randomness of its own VRF request, even though      *)
(* request addresses [user, request_slot] are reused after claim and       *)
(* refund.  (With redelivery the property fails: run lifecycle_replay.)    *)
(***************************************************************************)
THEOREM RandomnessBindingHolds ==
  ASSUME SingleDelivery, WindowWithinTimeout
  PROVE  Spec => []RandomnessBoundToRequest
<1>1. BindInv => RandomnessBoundToRequest
  BY DEF BindInv
<1>2. BindInv /\ [Next]_vars => BindInv'
  BY BindStep
<1>3. QED
  BY <1>1, <1>2, BindInit, PTL DEF Spec

=============================================================================
