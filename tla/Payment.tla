------------------------------- MODULE Payment -------------------------------
(***************************************************************************)
(* A payment of any asset (contracts/payment).  The contract is stateless: *)
(* it checks the sign and forwards to the asset's transfer, whose          *)
(* semantics is a parameter.                                               *)
(***************************************************************************)
EXTENDS Integers

CONSTANT Transfer(_, _, _, _)   \* storage, from, to, amount -> set of storages
VARIABLE tok                    \* the asset's storage

\* mutant: the sign is left to the asset
Pay_unchecked(from, to, n) == tok' \in Transfer(tok, from, to, n)

\* authorized by from
Pay(from, to, n) ==
    /\ n >= 0
    /\ tok' \in Transfer(tok, from, to, n)

=============================================================================
