------------------------------- MODULE Vesting -------------------------------
(***************************************************************************)
(* A grant that is released linearly to one beneficiary, after a cliff     *)
(* (contracts/vesting).  Anyone funds the contract; it does not record how *)
(* much it was given, and a claim pays from whatever it holds.             *)
(***************************************************************************)
EXTENDS Sep41

CONSTANTS
    Person,         \* the addresses that can authorize a call
    Vault,          \* the contract's own address
    Beneficiary,
    Sums, Starts, Durations, Cliffs,    \* what the constructor may be given
    Amounts         \* the amounts a call may carry

VARIABLES
    tok,            \* the asset's storage
    now,            \* the ledger's timestamp
    grant,          \* "total", "start", "cliff" and "end" of the instance storage
    released

vars == <<tok, now, grant, released>>

I128   == (-MaxI128 - 1) .. MaxI128

Grant == {g \in [total : I128, start : Nat, cliff : Nat, end : Nat] :
              g.start <= g.cliff /\ g.cliff <= g.end /\ g.start < g.end}

(* The constructor; the total is not checked.                              *)
Init ==
    /\ \E total \in Sums, start \in Starts, duration \in Durations, cliff \in Cliffs :
           /\ duration > 0
           /\ cliff <= duration
           /\ grant = [total |-> total,
                       start |-> now + start,
                       cliff |-> now + start + cliff,
                       end   |-> now + start + duration]
    /\ released = 0

\* authorized by from
Deposit(from, n) ==
    /\ n > 0
    /\ tok' \in transfer(tok, from, Vault, n)
    /\ UNCHANGED <<now, grant, released>>

(* Division of integers truncates towards zero. *)
Quotient(a, b) == IF a >= 0 THEN a \div b ELSE -((-a) \div b)

\* mutants: the division rounds up; the end of the period is not special
claimable_rounded_up ==
    IF now < grant.cliff THEN {0}
    ELSE IF now >= grant.end THEN {grant.total - released}
    ELSE {Quotient(grant.total * (now - grant.start) + grant.end - grant.start - 1,
                   grant.end - grant.start) - released}

claimable_endless ==
    IF now < grant.cliff THEN {0}
    ELSE LET product == grant.total * (now - grant.start) IN
         IF product \in I128
         THEN {Quotient(product, grant.end - grant.start) - released} ELSE Panic

(* The set of what it can answer: nothing when the product overflows.      *)
claimable ==
    IF now < grant.cliff THEN {0}
    ELSE IF now >= grant.end THEN {grant.total - released}
    ELSE LET product == grant.total * (now - grant.start) IN
         IF product \in I128
         THEN {Quotient(product, grant.end - grant.start) - released} ELSE Panic

\* mutant: the payment is not recorded
Claim_unrecorded(beneficiary) ==
    /\ beneficiary = Beneficiary
    /\ \E n \in claimable : n > 0 /\ tok' \in transfer(tok, Vault, beneficiary, n)
    /\ UNCHANGED <<now, grant, released>>

\* authorized by the beneficiary; nothing changes when nothing is claimable
Claim(beneficiary) ==
    /\ beneficiary = Beneficiary
    /\ \E n \in claimable :
           /\ n > 0
           /\ tok' \in transfer(tok, Vault, beneficiary, n)
           /\ released' = released + n
    /\ UNCHANGED <<now, grant>>

Next ==
    \/ \E p \in Person, n \in Amounts : Deposit(p, n)
    \/ \E p \in Person : Claim(p)

-----------------------------------------------------------------------------
(* The grant is one the constructor accepts.                               *)
TypeOK == grant \in Grant /\ released \in Held

(* However often it is claimed, and whatever the divisions round: nothing  *)
(* is released before the cliff, and never more than the exact linear      *)
(* share of the total at the time, of which the whole is the most          *)
(* (lib.rs:125-154).                                                       *)
ReleasedIsVested ==
    released > 0 =>
        /\ now >= grant.cliff
        /\ released <= grant.total
        /\ released * (grant.end - grant.start) <= grant.total * (now - grant.start)

(* The contract's funds only leave to be recorded as released: a grant     *)
(* that is fully funded once is so for ever (lib.rs:113-137).              *)
Funding       == tok.bal[Vault] + released
FundingIsKept == [][Funding' >= Funding]_vars

(* Once its period is over, a funded grant is released to the last unit,   *)
(* whatever was rounded off on the way and even if its claims overflowed   *)
(* while it was vesting.                                                   *)
FundedIsReleased ==
    now >= grant.end /\ Funding >= grant.total ~> released >= grant.total

=============================================================================
