------------------------------- MODULE MCToken -------------------------------
(* Bounds for TLC: amounts around zero and up to the whole of i128, so     *)
(* that the negative-amount guards, the exact-balance boundary and the     *)
(* overflow are met; expirations before, at and past every ledger and past *)
(* the host's limit.  One pair grants; the grants of two pairs never meet  *)
(* in the code.                                                            *)
EXTENDS Token

CONSTANTS alice, bob, carol

MCAddress     == {alice, bob, carol}
MCAmounts     == {-1, 0, 1, 2}
MCGrants      == {<<alice, bob>>}
MCExpirations == 0..5

=============================================================================
