------------------------ MODULE MCRewardComputation ------------------------
(* process_vrf_result on a handful of VRF outputs: the constant seeds of  *)
(* the unit tests (all 0, all 255, all 123, all 99), a seed whose first   *)
(* four cards fall in the four tiers, and a seed whose card 0 rolls       *)
(* exactly the tier-1 threshold 150,000.  Twenty cards per draw keep the  *)
(* total below TLC's 2^31 (20 x 99.9 USD < 2.1e9 micro-USD).             *)
EXTENDS RewardComputation

\* A 32-byte array from a 32-element tuple.
Bytes(s) == [j \in 0..31 |-> s[j + 1]]

\* seed[j] = b for every j
Const(b) == [j \in 0..31 |-> b]

AllTiersSeed ==
    Bytes(<<198, 237, 17, 6, 204, 223, 113, 151, 237, 11, 72, 131, 207, 2, 124, 220,
            215, 117, 117, 92, 63, 232, 221, 160, 133, 50, 214, 124, 204, 80, 128, 216>>)

\* Card 0 of this seed derives bytes whose first eight read 150,000 (mod 10^6).
BoundarySeed ==
    [j \in 0..31 |-> CASE j = 0 -> 240 [] j = 1 -> 89 [] j = 2 -> 213 [] j = 3 -> 62
                        [] j = 8 -> 20 [] j = 9 -> 108 [] OTHER -> 0]

MCSeeds == {Const(0), Const(255), Const(123), Const(99), AllTiersSeed, BoundarySeed}

\* The seeds of test_prize_range: randomness[0] = s for s in 0..9, the rest 0.
TestSeeds == {[j \in 0..31 |-> IF j = 0 THEN s ELSE 0] : s \in 0..9}

MCCardCounts == {1, 3, 20}

\* Three active pools with sparse identifiers, the rest of the array empty.
MCPoolIndices == [p \in 0..49 |-> IF p < 3 THEN 2 * p + 1 ELSE 255]

=============================================================================
