------------------------------ MODULE MCCatalog ------------------------------
(* Bounds for TLC: bob funds alice's grant and she pays her subscription   *)
(* and the escrow from what is released; the contracts that share nothing  *)
(* are deployed on their own.                                              *)
EXTENDS Catalog

CONSTANTS alice, bob, escrowed, vested, airdropped, key1, key2

MCPerson      == {alice, bob}
MCAddress     == {alice, bob, escrowed, vested, airdropped}
MCDeployments == {{"escrow", "vesting", "payment"}, {"escrow", "vesting", "subscription"},
                  {"merkle-airdrop", "payment"}, {"oracle"}, {"multi-signature"},
                  {"access-control"}, {"test-asset"}}
MCEndowment   == [a \in MCAddress |-> IF a = bob THEN 3 ELSE IF a = alice THEN 1 ELSE 0]
MCAmounts     == {-1, 0, 1, 2, 3}
MCSums        == {-1, 3, 4}
MCPrices      == {-1, 0, 1}
MCLists       == {<<[index |-> 0, claimant |-> alice, amount |-> 1]>>,
                  <<[index |-> 0, claimant |-> bob, amount |-> 1],
                    [index |-> 1, claimant |-> alice, amount |-> 2]>>,
                  <<[index |-> 1, claimant |-> alice, amount |-> 1],
                    [index |-> 2, claimant |-> bob, amount |-> 2],
                    [index |-> 3, claimant |-> alice, amount |-> 0]>>}
MCObservedPrices == {-1, 1}

=============================================================================
