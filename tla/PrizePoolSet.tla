--------------------------- MODULE PrizePoolSet ---------------------------
(***************************************************************************)
(* What the prize-pool registry promises its users, without the array that *)
(* implements it: a set of active pools of bounded size, each with a       *)
(* PrizePoolAccount naming its swap destination.  add activates one pool   *)
(* at an id that has no account; remove retires exactly the pool it names, *)
(* closing its account; update retargets a pool; closing the config and    *)
(* initializing it again forgets the active set but not the accounts.      *)
(* PrizePoolRegistry implements it under the mapping                       *)
(*     active <- ActiveIds, pools <- prizePool, open <- configLive.        *)
(***************************************************************************)
EXTENDS Naturals, FiniteSets

CONSTANTS MaxPrizePools, Ids, Dests, NoPool

VARIABLES
    active,   \* the ids the VRF callback may select
    pools,    \* pools[id]: the account's swap destination, or NoPool
    open      \* the registry exists

setVars == <<active, pools, open>>

SetInit ==
    /\ active = {}
    /\ pools = [id \in Ids |-> NoPool]
    /\ open = TRUE

Activate(id, d) ==
    /\ open
    /\ pools[id] = NoPool
    /\ Cardinality(active) < MaxPrizePools
    /\ active' = active \cup {id}
    /\ pools' = [pools EXCEPT ![id] = d]
    /\ UNCHANGED open

Retire(id) ==
    /\ open
    /\ id \in active
    /\ active' = active \ {id}
    /\ pools' = [pools EXCEPT ![id] = NoPool]
    /\ UNCHANGED open

Retarget(id, d) ==
    /\ open
    /\ pools[id] # NoPool
    /\ pools' = [pools EXCEPT ![id] = d]
    /\ UNCHANGED <<active, open>>

Close ==
    /\ open
    /\ open' = FALSE
    /\ UNCHANGED <<active, pools>>

Reopen ==
    /\ ~open
    /\ open' = TRUE
    /\ active' = {}
    /\ UNCHANGED pools

SetNext ==
    \/ \E id \in Ids, d \in Dests : Activate(id, d) \/ Retarget(id, d)
    \/ \E id \in Ids : Retire(id)
    \/ Close
    \/ Reopen

SetSpec == SetInit /\ [][SetNext]_setVars
=============================================================================
