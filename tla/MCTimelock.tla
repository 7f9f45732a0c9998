------------------------------ MODULE MCTimelock ------------------------------
(* Bounds for TLC: two locks of one asset share the contract's balance, or *)
(* are of two assets; unlock times past, present and to come; a party that *)
(* sends funds to the contract or spends them before it can lock them.     *)
EXTENDS Timelock

CONSTANTS alice, bob, lockbox, gold, silver

MCAddress     == {alice, bob, lockbox}
MCAsset       == {gold, silver}
MCEndowment   == [a \in MCAsset |->
                    [p \in MCAddress |->
                        IF p = alice \/ (p = bob /\ a = gold) THEN 1 ELSE 0]]
MCAmounts     == {-1, 0, 1, 2}
MCUnlockTimes == {0, 1}

=============================================================================
