-------------------------- MODULE MCClaimableBalance --------------------------
(* Bounds for TLC: two balances share what the contract holds; windows     *)
(* that open now or later and close before, at and after they open; the    *)
(* admin is one of the parties.                                            *)
EXTENDS ClaimableBalance

CONSTANTS alice, bob, vault

MCAddress        == {alice, bob, vault}
MCEndowment      == [p \in MCAddress |-> IF p = vault THEN 0 ELSE 1]
MCDepositAmounts == {-1, 0, 1, 2}
MCDelays         == {0, 1}
MCExpiries       == {1, 2}
MCHorizons       == {0, 1, 2}

=============================================================================
