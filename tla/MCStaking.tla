------------------------------ MODULE MCStaking ------------------------------
(* Bounds for TLC: two users who stake, claim and fund in every order over *)
(* two overlapping reward periods; a precision that does not divide the    *)
(* totals, so that every division rounds.                                  *)
EXTENDS Staking

CONSTANTS alice, bob, contract

MCAddress   == {alice, bob, contract}
MCEndowment == [a \in MCAddress |-> IF a = alice THEN 4 ELSE IF a = bob THEN 2 ELSE 0]
MCAmounts   == {-1, 0, 1, 2, 3}

=============================================================================
