------------------------------- MODULE Timelock -------------------------------
(***************************************************************************)
(* Amounts locked for a beneficiary until a time (contracts/timelock).  All*)
(* locks of an asset share one balance of the contract.                    *)
(***************************************************************************)
EXTENDS Sep41, Sequences

CONSTANTS
    Asset,
    Lockbox,        \* the contract's own address
    Endowment,      \* asset -> what each address holds at deployment
    Amounts,        \* the amounts a call may carry
    UnlockTimes,    \* the timestamps a lock may name
    MaxLocks,       \* bound: locks created
    MaxTime         \* bound: the last timestamp explored

ASSUME LockboxAssumption   == Lockbox \in Address
ASSUME EndowmentAssumption == Endowment \in [Asset -> [Address -> Held]]
ASSUME AmountsAssumption   == Amounts \subseteq (-MaxI128 - 1) .. MaxI128
ASSUME TimesAssumption     == UnlockTimes \subseteq Nat
ASSUME BoundsAssumption    == MaxLocks \in Nat /\ MaxTime \in Nat

VARIABLES
    toks,           \* asset -> the asset's storage
    locks,          \* the sequence of locks; the id of the first one is 0
    now             \* the ledger's timestamp

vars == <<toks, locks, now>>

Person == Address \ {Lockbox}

Lock == [owner : Person, asset : Asset, amount : Held, beneficiary : Address,
         unlock_time : Nat, released : BOOLEAN]

is_unlocked(l) == now >= l.unlock_time

Init ==
    /\ toks = [a \in Asset |-> [EmptyStorage EXCEPT !.bal = Endowment[a]]]
    /\ locks = <<>>
    /\ now = 0

(* A direct call on the token: parties spend their funds, and can send     *)
(* some to the contract that no lock accounts for.                         *)
TokenTransfer(asset, from, to, n) ==
    /\ \E t \in transfer(toks[asset], from, to, n) : toks' = [toks EXCEPT ![asset] = t]
    /\ UNCHANGED <<locks, now>>

\* authorized by the owner
CreateLock(owner, asset, n, beneficiary, unlock_time) ==
    /\ \E t \in transfer(toks[asset], owner, Lockbox, n) : toks' = [toks EXCEPT ![asset] = t]
    /\ locks' = Append(locks, [owner |-> owner, asset |-> asset, amount |-> n,
                               beneficiary |-> beneficiary, unlock_time |-> unlock_time,
                               released |-> FALSE])
    /\ UNCHANGED now

\* mutants: a spent lock is not refused; the ledger before the unlock time is
\* late enough; the unlock time itself is too early
Releasable_again(l)  == is_unlocked(l)
Releasable_early(l)  == ~l.released /\ now + 1 >= l.unlock_time
Releasable_strict(l) == ~l.released /\ now > l.unlock_time

Releasable(l) == ~l.released /\ is_unlocked(l)

Released(l) == [l EXCEPT !.released = TRUE]

\* authorized by the beneficiary
Release(id, beneficiary) ==
    LET l == locks[id] IN
    /\ Releasable(l)
    /\ l.beneficiary = beneficiary
    /\ \E t \in transfer(toks[l.asset], Lockbox, beneficiary, l.amount) :
           toks' = [toks EXCEPT ![l.asset] = t]
    /\ locks' = [locks EXCEPT ![id] = Released(l)]
    /\ UNCHANGED now

CloseLedger ==
    /\ now < MaxTime
    /\ now' = now + 1
    /\ UNCHANGED <<toks, locks>>

Next ==
    \/ \E asset \in Asset, from \in Person, to \in Address, n \in Amounts :
           TokenTransfer(asset, from, to, n)
    \/ /\ Len(locks) < MaxLocks
       /\ \E owner \in Person, asset \in Asset, n \in Amounts, beneficiary \in Address,
             unlock_time \in UnlockTimes :
              CreateLock(owner, asset, n, beneficiary, unlock_time)
    \/ \E id \in DOMAIN locks, p \in Person : Release(id, p)
    \/ CloseLedger

Spec == Init /\ [][Next]_vars

(* Ledgers keep closing, and beneficiaries keep asking.                    *)
Fairness ==
    /\ WF_vars(CloseLedger)
    /\ \A id \in 1..MaxLocks, p \in Person :
           WF_vars(id \in DOMAIN locks /\ Release(id, p))

FairSpec == Spec /\ Fairness

-----------------------------------------------------------------------------
(* Storages and locks are well typed.                                      *)
TypeOK ==
    /\ toks \in [Asset -> Storage]
    /\ locks \in Seq(Lock)
    /\ Len(locks) <= MaxLocks
    /\ now \in 0..MaxTime

(* A lock that its beneficiary can ask for is released in the end.         *)
EventuallyReleased ==
    \A id \in 1..MaxLocks :
        (id \in DOMAIN locks /\ locks[id].beneficiary \in Person)
            ~> (id \in DOMAIN locks /\ locks[id].released)

(* Every lock holds something (the test at test.rs:99).                    *)
LocksArePositive == \A id \in DOMAIN locks : locks[id].amount > 0

(* The locks as deals of the abstract custody.                             *)
Exists(d) == d \in DOMAIN locks

OwedTo(a, d) ==
    IF Exists(d) /\ locks[d].asset = a /\ ~locks[d].released THEN locks[d].amount ELSE 0

PhaseOf(d) ==
    IF ~Exists(d) THEN "unused" ELSE IF locks[d].released THEN "settled" ELSE "open"

DealIds      == 1..MaxLocks
wealthOfAll  == [a \in Asset |-> toks[a].bal]
owedOnLocks  == [a \in Asset |-> [d \in DealIds |-> OwedTo(a, d)]]
payeesOfLock == [d \in DealIds |-> IF Exists(d) THEN {locks[d].beneficiary} ELSE {}]
phaseOfLock  == [d \in DealIds |-> PhaseOf(d)]

Kept == INSTANCE Custody WITH
    Holder   <- Address,
    Keeper   <- Lockbox,
    Deal     <- DealIds,
    Quantity <- Held,
    wealth   <- wealthOfAll,
    owed     <- owedOnLocks,
    payees   <- payeesOfLock,
    phase    <- phaseOfLock

(* What the contract must hold for a lock: all of it until its time comes, *)
(* whatever the record says, and from then on until it is released.        *)
DueOn(a, d) ==
    IF Exists(d) /\ locks[d].asset = a /\ (~locks[d].released \/ ~is_unlocked(locks[d]))
    THEN locks[d].amount ELSE 0

(* The contract holds at least what all its locks of an asset together     *)
(* require: none is paid before its time, and none from another's funds    *)
(* (lib.rs:56-69).                                                         *)
HoldingsCoverLocks ==
    \A a \in Asset : Total([d \in DealIds |-> DueOn(a, d)]) <= toks[a].bal[Lockbox]

(* The contract keeps what it promises of custody: each lock is paid once, *)
(* whole, to the beneficiary it was made for, and nothing else leaves.     *)
ImplementsCustody == Kept!Spec

=============================================================================
