-------------------------- MODULE RequestLifecycle --------------------------
(***************************************************************************)
(* What the lottery engine promises about a single request (spec section   *)
(* "Request Record"), with no accounts, vault, oracle or clock: requests   *)
(* are numbered in creation order; each is created Pending, is revealed   *)
(* at most once and only while Pending, and reaches at most one terminal   *)
(* disposition: Claimed after it was revealed, or Refunded while it was    *)
(* still Pending.  Nothing ever leaves Claimed or Refunded.                 *)
(***************************************************************************)
EXTENDS Naturals

CONSTANT Ids   \* the ordinals 1..N of the requests ever created

Phases == {"None", "Pending", "Revealed", "Claimed", "Refunded"}

VARIABLES
    issued,   \* number of requests created so far
    phase     \* phase[i]: where request i stands

absVars == <<issued, phase>>

AbsTypeOK ==
    /\ issued \in Nat
    /\ phase \in [Ids -> Phases]

AbsInit ==
    /\ issued = 0
    /\ phase = [i \in Ids |-> "None"]

\* A request is created: the next ordinal becomes Pending.
Create ==
    /\ issued + 1 \in Ids
    /\ issued' = issued + 1
    /\ phase' = [phase EXCEPT ![issued + 1] = "Pending"]

\* The randomness of a Pending request is revealed.
Reveal(i) ==
    /\ phase[i] = "Pending"
    /\ phase' = [phase EXCEPT ![i] = "Revealed"]
    /\ UNCHANGED issued

\* A revealed request is settled.
Settle(i) ==
    /\ phase[i] = "Revealed"
    /\ phase' = [phase EXCEPT ![i] = "Claimed"]
    /\ UNCHANGED issued

\* A request still Pending is refunded.
Refund(i) ==
    /\ phase[i] = "Pending"
    /\ phase' = [phase EXCEPT ![i] = "Refunded"]
    /\ UNCHANGED issued

AbsNext ==
    \/ Create
    \/ \E i \in Ids : Reveal(i) \/ Settle(i) \/ Refund(i)

AbsSpec == AbsInit /\ [][AbsNext]_absVars

=============================================================================
