-------------------------------- MODULE Escrow --------------------------------
(***************************************************************************)
(* One deal between a depositor and a beneficiary, decided by an arbiter   *)
(* (contracts/escrow).  The depositor pays in as often as it likes until   *)
(* the arbiter releases everything to the one or refunds it to the other.  *)
(***************************************************************************)
EXTENDS Sep41

CONSTANTS
    Person,         \* the addresses that can authorize a call
    Vault,          \* the contract's own address
    Depositor, Beneficiary, Arbiter,    \* what the constructor was given
    Amounts         \* the amounts a call may carry

VARIABLES
    tok,            \* the asset's storage
    held,           \* "amount" of the instance storage
    state           \* "Active", "Released" or "Refunded"

vars == <<tok, held, state>>

State  == {"Active", "Released", "Refunded"}

Init ==
    /\ held = 0
    /\ state = "Active"

\* mutant: a closed escrow takes deposits
Deposit_when_closed(depositor, n) ==
    /\ n > 0
    /\ depositor = Depositor
    /\ tok' \in transfer(tok, depositor, Vault, n)
    /\ held + n <= MaxI128
    /\ held' = held + n
    /\ UNCHANGED state

\* authorized by the depositor
Deposit(depositor, n) ==
    /\ n > 0
    /\ depositor = Depositor
    /\ state = "Active"
    /\ tok' \in transfer(tok, depositor, Vault, n)
    /\ held + n <= MaxI128
    /\ held' = held + n
    /\ UNCHANGED state

\* mutant: what is held is paid out without closing the escrow
PayOut_open(to, outcome) ==
    /\ held > 0
    /\ tok' \in transfer(tok, Vault, to, held)
    /\ UNCHANGED <<held, state>>

PayOut(to, outcome) ==
    /\ state = "Active"
    /\ held > 0
    /\ tok' \in transfer(tok, Vault, to, held)
    /\ state' = outcome
    /\ held' = 0

\* authorized by the arbiter
Release(arbiter) == arbiter = Arbiter /\ PayOut(Beneficiary, "Released")

\* authorized by the arbiter
Refund(arbiter) == arbiter = Arbiter /\ PayOut(Depositor, "Refunded")

Next ==
    \/ \E p \in Person, n \in Amounts : Deposit(p, n)
    \/ \E p \in Person : Release(p) \/ Refund(p)

-----------------------------------------------------------------------------
(* The escrow's record is well typed.                                      *)
TypeOK ==
    /\ held \in Held
    /\ state \in State

(* The arbiter's choice is free as long as anything is held: both payouts  *)
(* go through in the token, so neither can be forced by making the other   *)
(* impossible (lib.rs:123-171).                                            *)
BothOutcomesPossible ==
    held > 0 => /\ state = "Active"
                /\ transfer(tok, Vault, Beneficiary, held) # Panic
                /\ transfer(tok, Vault, Depositor, held) # Panic

(* The escrow as the only deal of the abstract custody: open once funded.  *)
Kept == INSTANCE Custody WITH
    Holder   <- Address,
    Keeper   <- Vault,
    Asset    <- {"asset"},
    Deal     <- {"escrow"},
    Quantity <- Held,
    wealth   <- [a \in {"asset"} |-> tok.bal],
    owed     <- [a \in {"asset"} |-> [d \in {"escrow"} |-> held]],
    payees   <- [d \in {"escrow"} |-> IF state = "Active" /\ held = 0 THEN {}
                                      ELSE {Depositor, Beneficiary}],
    phase    <- [d \in {"escrow"} |-> IF state # "Active" THEN "settled"
                                      ELSE IF held = 0 THEN "unused" ELSE "open"]

(* The contract keeps what it promises of custody: whatever was deposited  *)
(* in however many parts is paid out once, whole, to the depositor or to   *)
(* the beneficiary, after which nothing is taken in.                       *)
ImplementsCustody == Kept!Spec

=============================================================================
