-------------------------- MODULE MCAllowanceManager --------------------------
(* Bounds for TLC: alice grants to two spenders and owns less than she can *)
(* grant; bob approves the manager on the token itself.                    *)
EXTENDS AllowanceManager

CONSTANTS alice, bob, carol, manager

MCAddress     == {alice, bob, carol, manager}
MCEndowment   == [a \in MCAddress |-> IF a = alice THEN 2 ELSE 0]
MCAmounts     == {-1, 0, 1, 2}
MCExpirations == 1..4

TwoSpenders   == {<<alice, bob>>, <<alice, carol>>}

Nobody        == {}
OnlyBob       == {bob}

===============================================================================
