--------------------------- MODULE MintLifecycle ---------------------------
(***************************************************************************)
(* The lottery request lifecycle of the ipflow_v3 program composed with    *)
(* the prize-pool registry it reads, the vault it pays from, the clock and *)
(* the MagicBlock VRF oracle that answers each request with a callback.    *)
(*                                                                         *)
(* A MintRequest PDA lives at seeds [mint_request, user, request_slot]:    *)
(* req[<<u, s>>] is that account, or NoRequest when it does not exist.     *)
(* request_mint creates it Pending and sends a VRF request naming the      *)
(* account; the oracle later submits consume_lottery_randomness with 32    *)
(* random bytes for that account; claim (Revealed) and refund (Pending,    *)
(* timed out) pay out and close it.  Each instruction is one atomic        *)
(* transaction, and transactions on the same accounts are serialised by    *)
(* the runtime, so every instruction is one action.                        *)
(*                                                                         *)
(* The fields id and src of a request, and the sets revealedIds,           *)
(* claimedIds and refundedIds, are history: id numbers the request_mint    *)
(* that created the account, src the request_mint whose VRF request        *)
(* produced the randomness the account consumed.                           *)
(***************************************************************************)
EXTENDS PrizePoolRegistry

CONSTANTS
    Users,              \* wallets that call request_mint
    MaxSlot,            \* last slot the model runs to
    SlotTolerance,      \* request_slot window of request_mint (10 slots)
    MaxSecondsPerSlot,  \* how far unix_timestamp may advance in one slot
    RequestTimeout,     \* config.request_timeout_seconds (REQUEST_TIMEOUT_SECONDS = 45)
    ClaimTimeout,       \* CLAIM_TIMEOUT_SECONDS (24 h)
    CardChoices,        \* amount_of_cards values users pass
    Entropies,          \* the u64 read from bytes 8..15 of the VRF output
    TotalWon(_, _),     \* process_vrf_result(..).total_won_usd for an entropy and card count
    TargetUsdAmount,    \* TARGET_USD_AMOUNT: USD per card (10)
    UsdPrecision,       \* USD_PRECISION = 10^USDT_DECIMALS (10^6)
    LamportsPerUsd,     \* the Pyth SOL/USD quote, as lamports per USD
    MinRent,            \* Rent::minimum_balance(0) of the vault PDA
    InitVaultSol,       \* lamports the vault holds when the model starts
    WithdrawAmounts,    \* amounts the admin passes to withdraw_sol / withdraw_token
    MaxRequests,        \* bound on the number of request_mint calls
    DuplicateDelivery,  \* TRUE when the oracle may deliver one callback more than once
    NoRequest           \* no MintRequest account at this address

ASSUME LifecycleAssumption ==
    /\ MaxSlot \in Nat
    /\ SlotTolerance \in Nat
    /\ MaxSecondsPerSlot \in Nat
    /\ RequestTimeout \in Nat
    /\ ClaimTimeout \in Nat
    /\ CardChoices \subseteq Nat
    /\ Entropies \subseteq Nat
    /\ \A w \in Entropies, n \in CardChoices : TotalWon(w, n) \in Nat
    /\ TargetUsdAmount \in Nat
    /\ UsdPrecision \in Nat \ {0}
    /\ LamportsPerUsd \in Nat
    /\ MinRent \in Nat
    /\ InitVaultSol \in Nat
    /\ WithdrawAmounts \subseteq Nat
    /\ MaxRequests \in Nat
    /\ DuplicateDelivery \in BOOLEAN

SlotRange == 0..MaxSlot
Addrs == Users \X SlotRange
ReqIds == 1..MaxRequests
Statuses == {"Pending", "Revealed", "Claimed", "Failed"}
PaymentModes == {"SOL", "USDT"}
PayoutModes == {"SOL", "Token"}

Requests ==
    [user : Users, amountOfCards : CardChoices, status : Statuses,
     paymentMode : PaymentModes, totalWonUsd : Nat, paidAmount : Nat,
     createdAt : Nat, revealedAt : Nat, selectedPoolIndex : PoolIds,
     vrfRequestSlot : SlotRange, id : ReqIds, src : 0..MaxRequests]

\* An absent account is told apart from every MintRequest.
ASSUME NoRequestAssumption == NoRequest \notin Requests

VARIABLES
    slot, now,          \* Clock::get().slot and .unix_timestamp
    req,                \* MintRequest accounts by address
    vrfRequests,        \* VRF requests the oracle has not answered yet
    callbacks,          \* callback transactions submitted by the oracle
    vaultSol,           \* lamports of the vault PDA
    vaultUsdt,          \* USDT in the vault's token account
    nextId,             \* history: number of request_mint calls so far
    revealedIds, claimedIds, refundedIds   \* history

lifeVars == <<slot, now, req, vrfRequests, callbacks, vaultSol, vaultUsdt,
              nextId, revealedIds, claimedIds, refundedIds>>
vars == <<regVars, lifeVars>>

Live(a) == req[a] # NoRequest

\* pyth_oracle::get_lamports_for_micro_usd at the modelled quote.
LamportsForMicroUsd(x) == (x * LamportsPerUsd) \div UsdPrecision

\* The stake of n cards: SOL path in lamports, USDT path in raw units.
StakeLamports(n) == LamportsForMicroUsd(n * TargetUsdAmount * UsdPrecision)
StakeUsdt(n) == n * TargetUsdAmount * UsdPrecision

\* u64::saturating_sub.
SaturatingSub(x, y) == IF x >= y THEN x - y ELSE 0

\* After a transaction the runtime accepts a system account that is empty
\* or rent-exempt; a transfer leaving the vault in between fails.
RentOk(bal) == bal = 0 \/ bal >= MinRent

\* Mutant: the position taken modulo the capacity instead of the active count.
SelectActivePrizePoolMod(w) ==
    IF activePoolCount > 0
      THEN activePoolIndices[w % MaxPrizePools]
      ELSE 0

\* select_active_prize_pool / process_vrf_result's pool choice.
SelectActivePrizePool(w) ==
    IF activePoolCount > 0
      THEN activePoolIndices[w % activePoolCount]
      ELSE 0

TypeOK ==
    /\ RegTypeOK
    /\ slot \in SlotRange
    /\ now \in Nat
    /\ req \in [Addrs -> Requests \cup {NoRequest}]
    /\ vrfRequests \subseteq [addr : Addrs, id : ReqIds]
    /\ callbacks \subseteq [addr : Addrs, src : ReqIds, entropy : Entropies]
    /\ vaultSol \in Nat
    /\ vaultUsdt \in Nat
    /\ nextId \in 0..MaxRequests
    /\ revealedIds \subseteq ReqIds
    /\ claimedIds \subseteq ReqIds
    /\ refundedIds \subseteq ReqIds

Init ==
    /\ RegInit
    /\ slot = 0
    /\ now = 0
    /\ req = [a \in Addrs |-> NoRequest]
    /\ vrfRequests = {}
    /\ callbacks = {}
    /\ vaultSol = InitVaultSol
    /\ vaultUsdt = 0
    /\ nextId = 0
    /\ revealedIds = {}
    /\ claimedIds = {}
    /\ refundedIds = {}

(***************************************************************************)
(* request_mint(amount_of_cards, payment_mode, client_seed, request_slot)  *)
(* by user u.  Anchor `init` needs the address free and the config         *)
(* present; the handler checks the card count and that request_slot lies  *)
(* in [slot.saturating_sub(10), slot], takes the stake into the vault,     *)
(* writes the Pending record and sends the VRF request.                    *)
(***************************************************************************)
\* Mutant: request_mint accepting any past request_slot.
RequestMintNoLowerBound(u, n, mode, s) ==
    LET a == <<u, s>>
        paid == IF mode = "SOL" THEN StakeLamports(n) ELSE StakeUsdt(n)
    IN
    /\ configLive
    /\ ~Live(a)
    /\ nextId < MaxRequests
    /\ n >= 1 /\ n <= 100
    /\ s <= slot
    /\ IF mode = "SOL"
         THEN /\ vaultSol' = vaultSol + paid
              /\ UNCHANGED vaultUsdt
         ELSE /\ vaultUsdt' = vaultUsdt + paid
              /\ UNCHANGED vaultSol
    /\ req' = [req EXCEPT ![a] =
                 [user |-> u, amountOfCards |-> n, status |-> "Pending",
                  paymentMode |-> mode, totalWonUsd |-> 0, paidAmount |-> paid,
                  createdAt |-> now, revealedAt |-> 0, selectedPoolIndex |-> 0,
                  vrfRequestSlot |-> s, id |-> nextId + 1, src |-> 0]]
    /\ vrfRequests' = vrfRequests \cup {[addr |-> a, id |-> nextId + 1]}
    /\ nextId' = nextId + 1
    /\ UNCHANGED <<regVars, slot, now, callbacks, revealedIds, claimedIds, refundedIds>>

RequestMint(u, n, mode, s) ==
    LET a == <<u, s>>
        paid == IF mode = "SOL" THEN StakeLamports(n) ELSE StakeUsdt(n)
    IN
    /\ configLive
    /\ ~Live(a)
    /\ nextId < MaxRequests
    /\ n >= 1 /\ n <= 100
    /\ SaturatingSub(slot, SlotTolerance) <= s
    /\ s <= slot
    /\ IF mode = "SOL"
         THEN /\ vaultSol' = vaultSol + paid
              /\ UNCHANGED vaultUsdt
         ELSE /\ vaultUsdt' = vaultUsdt + paid
              /\ UNCHANGED vaultSol
    /\ req' = [req EXCEPT ![a] =
                 [user |-> u, amountOfCards |-> n, status |-> "Pending",
                  paymentMode |-> mode, totalWonUsd |-> 0, paidAmount |-> paid,
                  createdAt |-> now, revealedAt |-> 0, selectedPoolIndex |-> 0,
                  vrfRequestSlot |-> s, id |-> nextId + 1, src |-> 0]]
    /\ vrfRequests' = vrfRequests \cup {[addr |-> a, id |-> nextId + 1]}
    /\ nextId' = nextId + 1
    /\ UNCHANGED <<regVars, slot, now, callbacks, revealedIds, claimedIds, refundedIds>>

\* The oracle answers a VRF request: it submits the callback transaction
\* for the account the request named, carrying the random bytes.
OracleFulfil(r, w) ==
    /\ r \in vrfRequests
    /\ vrfRequests' = vrfRequests \ {r}
    /\ callbacks' = callbacks \cup {[addr |-> r.addr, src |-> r.id, entropy |-> w]}
    /\ UNCHANGED <<regVars, slot, now, req, vaultSol, vaultUsdt, nextId,
                   revealedIds, claimedIds, refundedIds>>

\* A delivered callback is used up, unless the oracle may deliver it again.
CallbackDelivered(m) ==
    IF DuplicateDelivery THEN callbacks' \in {callbacks, callbacks \ {m}}
                         ELSE callbacks' = callbacks \ {m}

(***************************************************************************)
(* consume_lottery_randomness(randomness), signed by the VRF identity, on  *)
(* the account m names.  The Anchor constraint requires status Pending     *)
(* (so the handler's early return for Revealed is never reached); the      *)
(* handler computes the total and the pool from the config it reads and   *)
(* marks the request Revealed.                                             *)
(***************************************************************************)
ConsumeLotteryRandomness(m) ==
    LET a == m.addr IN
    /\ m \in callbacks
    /\ configLive
    /\ Live(a)
    /\ req[a].status = "Pending"
    /\ req' = [req EXCEPT ![a].status = "Revealed",
                          ![a].totalWonUsd = TotalWon(m.entropy, req[a].amountOfCards),
                          ![a].selectedPoolIndex = SelectActivePrizePool(m.entropy),
                          ![a].revealedAt = now,
                          ![a].src = m.src]
    /\ revealedIds' = revealedIds \cup {req[a].id}
    /\ CallbackDelivered(m)
    /\ UNCHANGED <<regVars, slot, now, vrfRequests, vaultSol, vaultUsdt, nextId,
                   claimedIds, refundedIds>>

\* Mutant: a callback rejected whatever the state of its account.
CallbackRejectedAny(m) ==
    /\ m \in callbacks
    /\ CallbackDelivered(m)
    /\ UNCHANGED <<regVars, slot, now, req, vrfRequests, vaultSol, vaultUsdt,
                   nextId, revealedIds, claimedIds, refundedIds>>

\* The same callback failing: the account is gone, not Pending, or the
\* config is closed.  The transaction aborts and changes nothing.
CallbackRejected(m) ==
    LET a == m.addr IN
    /\ m \in callbacks
    /\ ~(configLive /\ Live(a) /\ req[a].status = "Pending")
    /\ CallbackDelivered(m)
    /\ UNCHANGED <<regVars, slot, now, req, vrfRequests, vaultSol, vaultUsdt,
                   nextId, revealedIds, claimedIds, refundedIds>>

(***************************************************************************)
(* claim(payout_mode, ...) by the owner of a.  Anchor constraints: the     *)
(* account is the owner's, status Revealed; the handler requires the      *)
(* claim window to be open.  SOL mode pays 95% of the reward from the      *)
(* vault, keeping the rent minimum; Token mode (Raydium route) wraps 100%  *)
(* of it out of the vault and swaps it.  The status write before the CPI   *)
(* and the close of the account commit together with the transfer.        *)
(***************************************************************************)
Claim(a, mode) ==
    LET won == req[a].totalWonUsd
        out == IF mode = "SOL" THEN LamportsForMicroUsd((won * 95) \div 100)
                               ELSE LamportsForMicroUsd(won)
    IN
    /\ configLive
    /\ Live(a)
    /\ req[a].status = "Revealed"
    /\ now - req[a].revealedAt < ClaimTimeout
    /\ IF mode = "SOL" THEN out <= SaturatingSub(vaultSol, MinRent) ELSE out <= vaultSol
    /\ RentOk(vaultSol - out)
    /\ vaultSol' = vaultSol - out
    /\ req' = [req EXCEPT ![a] = NoRequest]
    /\ claimedIds' = claimedIds \cup {req[a].id}
    /\ UNCHANGED <<regVars, slot, now, vrfRequests, callbacks, vaultUsdt, nextId,
                   revealedIds, refundedIds>>

(***************************************************************************)
(* refund by the owner of a: status Pending and more than                  *)
(* request_timeout_seconds since creation; returns paid_amount in the      *)
(* payment currency if the vault holds it, and closes the account.         *)
(***************************************************************************)
\* Mutant: refund without the status == Pending check.
RefundAnyStatus(a) ==
    LET r == req[a] IN
    /\ configLive
    /\ Live(a)
    /\ now - r.createdAt > RequestTimeout
    /\ IF r.paymentMode = "SOL"
         THEN /\ vaultSol >= r.paidAmount
              /\ RentOk(vaultSol - r.paidAmount)
              /\ vaultSol' = vaultSol - r.paidAmount
              /\ UNCHANGED vaultUsdt
         ELSE /\ vaultUsdt >= r.paidAmount
              /\ vaultUsdt' = vaultUsdt - r.paidAmount
              /\ UNCHANGED vaultSol
    /\ req' = [req EXCEPT ![a] = NoRequest]
    /\ refundedIds' = refundedIds \cup {r.id}
    /\ UNCHANGED <<regVars, slot, now, vrfRequests, callbacks, nextId,
                   revealedIds, claimedIds>>

\* Mutant: refund transferring paid_amount without checking the vault balance.
RefundNoBalanceCheck(a) ==
    LET r == req[a] IN
    /\ configLive
    /\ Live(a)
    /\ r.status = "Pending"
    /\ now - r.createdAt > RequestTimeout
    /\ IF r.paymentMode = "SOL"
         THEN /\ vaultSol' = vaultSol - r.paidAmount
              /\ UNCHANGED vaultUsdt
         ELSE /\ vaultUsdt' = vaultUsdt - r.paidAmount
              /\ UNCHANGED vaultSol
    /\ req' = [req EXCEPT ![a] = NoRequest]
    /\ refundedIds' = refundedIds \cup {r.id}
    /\ UNCHANGED <<regVars, slot, now, vrfRequests, callbacks, nextId,
                   revealedIds, claimedIds>>

Refund(a) ==
    LET r == req[a] IN
    /\ configLive
    /\ Live(a)
    /\ r.status = "Pending"
    /\ now - r.createdAt > RequestTimeout
    /\ IF r.paymentMode = "SOL"
         THEN /\ vaultSol >= r.paidAmount
              /\ RentOk(vaultSol - r.paidAmount)
              /\ vaultSol' = vaultSol - r.paidAmount
              /\ UNCHANGED vaultUsdt
         ELSE /\ vaultUsdt >= r.paidAmount
              /\ vaultUsdt' = vaultUsdt - r.paidAmount
              /\ UNCHANGED vaultSol
    /\ req' = [req EXCEPT ![a] = NoRequest]
    /\ refundedIds' = refundedIds \cup {r.id}
    /\ UNCHANGED <<regVars, slot, now, vrfRequests, callbacks, nextId,
                   revealedIds, claimedIds>>

\* withdraw_sol(amount): the admin may take all but the rent minimum.
WithdrawSol(amt) ==
    /\ configLive
    /\ amt <= SaturatingSub(vaultSol, MinRent)
    /\ vaultSol' = vaultSol - amt
    /\ UNCHANGED <<regVars, slot, now, req, vrfRequests, callbacks, vaultUsdt,
                   nextId, revealedIds, claimedIds, refundedIds>>

\* withdraw_token(amount) on the vault's USDT account.
WithdrawToken(amt) ==
    /\ configLive
    /\ amt <= vaultUsdt
    /\ vaultUsdt' = vaultUsdt - amt
    /\ UNCHANGED <<regVars, slot, now, req, vrfRequests, callbacks, vaultSol,
                   nextId, revealedIds, claimedIds, refundedIds>>

\* A new slot; unix_timestamp moves forward by at most MaxSecondsPerSlot.
Tick ==
    /\ slot < MaxSlot
    /\ slot' = slot + 1
    /\ now' \in now..(now + MaxSecondsPerSlot)
    /\ UNCHANGED <<regVars, req, vrfRequests, callbacks, vaultSol, vaultUsdt,
                   nextId, revealedIds, claimedIds, refundedIds>>

\* An admin instruction on the registry; it touches no request.
RegistryStep ==
    /\ RegNext
    /\ UNCHANGED lifeVars

Next ==
    \/ \E u \in Users, n \in CardChoices, mode \in PaymentModes, s \in SlotRange :
          RequestMint(u, n, mode, s)
    \/ \E r \in vrfRequests, w \in Entropies : OracleFulfil(r, w)
    \/ \E m \in callbacks : ConsumeLotteryRandomness(m)
    \/ \E m \in callbacks : CallbackRejected(m)
    \/ \E a \in Addrs, mode \in PayoutModes : Claim(a, mode)
    \/ \E a \in Addrs : Refund(a)
    \/ \E amt \in WithdrawAmounts : WithdrawSol(amt)
    \/ \E amt \in WithdrawAmounts : WithdrawToken(amt)
    \/ Tick
    \/ RegistryStep

Spec == Init /\ [][Next]_vars

-----------------------------------------------------------------------------
(***************************************************************************)
(* Properties.                                                             *)
(***************************************************************************)

(***************************************************************************)
(* Randomness is bound to its request: a Revealed MintRequest consumed the *)
(* randomness of its own VRF request, never that of an earlier request     *)
(* that lived at the same [user, request_slot] address and was refunded   *)
(* or claimed.  The request_slot window of request_mint against the        *)
(* refund timeout, and single delivery of callbacks, are what keep a late  *)
(* callback from landing on a re-created account.                          *)
(***************************************************************************)
RandomnessBoundToRequest ==
    \A a \in Addrs : Live(a) /\ req[a].status = "Revealed" => req[a].src = req[a].id

(***************************************************************************)
(* No free option: a request whose outcome was revealed is never           *)
(* refunded, and none is both claimed and refunded; refund's Pending       *)
(* check against the callback's Pending -> Revealed write is what decides. *)
(***************************************************************************)
NoFreeOption ==
    refundedIds \cap (revealedIds \cup claimedIds) = {}

(***************************************************************************)
(* The VRF callback selects a live pool: whenever some pool is active, the *)
(* selected_pool_index it writes is an active id with a PrizePoolAccount.  *)
(* It relies on the packing that remove_prize_pool maintains.              *)
(***************************************************************************)
RevealSelectsActivePool ==
    [][\A a \in Addrs :
         (Live(a) /\ req[a].status = "Pending" /\ Live(a)' /\ req'[a].status = "Revealed"
          /\ activePoolCount > 0)
         => /\ req'[a].selectedPoolIndex \in ActiveIds
            /\ prizePool[req'[a].selectedPoolIndex] # NoPool]_vars

(***************************************************************************)
(* The refund the refund path promises is funded (refund.rs: a Pending     *)
(* request may be refunded "to prevent funds from being stuck"): the       *)
(* vault always holds the stake of every Pending request in its currency.  *)
(***************************************************************************)
PendingStakeFunded ==
    \A a \in Addrs :
        (Live(a) /\ req[a].status = "Pending")
        => IF req[a].paymentMode = "SOL"
             THEN vaultSol >= req[a].paidAmount + MinRent
             ELSE vaultUsdt >= req[a].paidAmount

(***************************************************************************)
(* refund's own balance check is the one the transfer needs: whenever a    *)
(* timed-out Pending SOL request passes require!(vault.lamports() >=       *)
(* refund_amount), the system transfer leaves the vault empty or           *)
(* rent-exempt, so the runtime accepts it (refund.rs; claim.rs and         *)
(* withdraw.rs reserve minimum_balance(0) before they pay out).            *)
(***************************************************************************)
RefundCheckSuffices ==
    \A a \in Addrs :
        LET r == req[a] IN
        (/\ configLive /\ Live(a) /\ r.status = "Pending"
         /\ now - r.createdAt > RequestTimeout
         /\ r.paymentMode = "SOL" /\ vaultSol >= r.paidAmount)
        => RentOk(vaultSol - r.paidAmount)

(***************************************************************************)
(* The lifecycle refines the per-request promise of RequestLifecycle: each *)
(* request_mint creates the next ordinal Pending, the VRF callback reveals *)
(* a Pending one, claim settles a Revealed one and refund retires a        *)
(* Pending one; every other instruction leaves every request where it is.  *)
(* The phase of ordinal i is read off the history of the instructions     *)
(* that touched the account it created.                                    *)
(***************************************************************************)
AbsPhase ==
    [i \in ReqIds |->
        IF i > nextId THEN "None"
        ELSE IF i \in claimedIds THEN "Claimed"
        ELSE IF i \in refundedIds THEN "Refunded"
        ELSE IF i \in revealedIds THEN "Revealed"
        ELSE "Pending"]

Abs == INSTANCE RequestLifecycle WITH Ids <- ReqIds, issued <- nextId, phase <- AbsPhase

ImplementsRequestLifecycle == Abs!AbsSpec

-----------------------------------------------------------------------------
(***************************************************************************)
(* Liveness.  The program cannot make anything happen by itself: every     *)
(* step is a transaction someone submits.  The fairness assumed is that of *)
(* the VRF service the program is built on: the oracle answers every       *)
(* request it was sent (OracleFulfil), and the callback transactions it    *)
(* submits are eventually executed, succeeding or failing                  *)
(* (ConsumeLotteryRandomness or CallbackRejected).  Nothing is assumed of  *)
(* users or the admin.                                                     *)
(***************************************************************************)
OracleFairness ==
    /\ WF_vars(\E r \in vrfRequests, w \in Entropies : OracleFulfil(r, w))
    /\ WF_vars(\E m \in callbacks : ConsumeLotteryRandomness(m) \/ CallbackRejected(m))

FairSpec == Spec /\ OracleFairness

\* Request i still awaits its oracle answer: the VRF request or the
\* callback transaction carrying its randomness is outstanding.
AwaitingOracle(i) ==
    \/ \E r \in vrfRequests : r.id = i
    \/ \E m \in callbacks : m.src = i

(***************************************************************************)
(* A paid request is not left Pending by the program: once its VRF request *)
(* is out, the callback reveals the request (with its own randomness or,   *)
(* on a re-used address, with that of an earlier one), unless the request *)
(* was refunded first or the config was closed meanwhile.  A callback is   *)
(* rejected only when it cannot apply, so no request misses its reveal.   *)
(***************************************************************************)
PendingEventuallyResolved ==
    \A i \in ReqIds :
        (AwaitingOracle(i) /\ i \notin revealedIds \cup refundedIds)
        ~> (i \in revealedIds \cup refundedIds \/ ~configLive)

=============================================================================
