----------------------------- MODULE MCAtomicSwap -----------------------------
(* Bounds for TLC: two parties and two assets, so that each party can be   *)
(* the offerer of one offer and the entrant of another in either asset;    *)
(* two offers, so that they share an allowance.                            *)
EXTENDS AtomicSwap

CONSTANTS alice, bob, swap, gold, silver

MCAddress   == {alice, bob, swap}
MCAsset     == {gold, silver}
MCEndowments == [a \in MCAsset |-> [p \in MCAddress |->
                   IF p = swap THEN 0 ELSE IF a = gold /\ p = alice THEN 2 ELSE 1]]
MCAmounts   == {-1, 0, 1, 2}
MCPayments  == {1}

=============================================================================
