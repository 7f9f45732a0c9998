----------------------------- MODULE MCCrowdfund -----------------------------
(* Bounds for TLC: two campaigns of one asset share its pool; goals on     *)
(* both sides of what alice and bob can bring together; deadlines past,    *)
(* present and to come; a second asset with a pool of its own.             *)
EXTENDS Crowdfund

CONSTANTS alice, bob, fund, gold, silver

MCAddress     == {alice, bob, fund}
MCAsset       == {gold, silver}
MCEndowment   == [a \in {gold, silver} |-> [p \in MCAddress |-> IF p = fund THEN 0
                                       ELSE IF a = gold THEN 2 ELSE 1]]
MCAmounts     == {-1, 0, 1, 2}
MCGoals       == {0, 2, 3}
MCDeadlines   == {1, 2, 3}
MCExpirations == {0, 1, 2}

=============================================================================
