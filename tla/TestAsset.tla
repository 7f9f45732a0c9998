------------------------------ MODULE TestAsset ------------------------------
(***************************************************************************)
(* The asset payment is tested against (contracts/test-asset), as functions*)
(* from its balances to the set of balances an operation can leave.        *)
(* Balances are plain i128: neither amounts nor balances are checked to be *)
(* positive.  Its approve, transfer_from, burn and burn_from do nothing.   *)
(***************************************************************************)
EXTENDS Integers

CONSTANTS
    Address,
    MaxI128

I128 == (-MaxI128 - 1) .. MaxI128

NoBalances == [a \in Address |-> 0]

\* authorized by the admin
mint(balances, to, n) ==
    IF balances[to] + n \in I128
    THEN {[balances EXCEPT ![to] = @ + n]} ELSE {}

(* The receiver's balance is read before the debit, so that who pays       *)
(* itself ends up with the amount on top.                                  *)
transfer(balances, from, to, n) ==
    IF /\ balances[from] >= n
       /\ balances[from] - n \in I128
       /\ balances[to] + n \in I128
    THEN LET from_balance == balances[from]
             to_balance   == balances[to]
         IN  {[[balances EXCEPT ![from] = from_balance - n] EXCEPT ![to] = to_balance + n]}
    ELSE {}

=============================================================================
