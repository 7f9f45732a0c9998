--------------------------- MODULE ClaimableBalance ---------------------------
(***************************************************************************)
(* Deposits for a claimant, claimable from an unlock time up to an optional*)
(* expiry, and cancellable by the admin (contracts/claimable-balance).  All*)
(* deposits share one balance of the contract.                             *)
(***************************************************************************)
EXTENDS Sep41, Sequences

CONSTANTS
    Vault,          \* the contract's own address
    Admin,
    SafeTtl,        \* SAFE_ALLOWANCE_TTL
    Endowment,      \* what each address holds of the asset at deployment
    DepositAmounts, \* the amounts a call may carry
    Delays,         \* the delays a deposit may name
    Expiries,       \* the expiry timestamps a deposit may name
    Horizons,       \* how far ahead of the ledger a deposit's expiration is
    MaxBalances,    \* bound: balances created
    MaxTime         \* bound: the last ledger explored

ASSUME PartiesAssumption   == Vault \in Address /\ Admin \in Address \ {Vault}
ASSUME SafeTtlAssumption   == SafeTtl \in Nat
ASSUME EndowmentAssumption == Endowment \in [Address -> Held]
ASSUME DepositsAssumption  == DepositAmounts \subseteq (-MaxI128 - 1) .. MaxI128
ASSUME TimesAssumption     == /\ Delays \subseteq Nat /\ Expiries \subseteq Nat
                              /\ Horizons \subseteq Int
ASSUME BoundsAssumption    == MaxBalances \in Nat /\ MaxTime \in Nat \ {0}

VARIABLES
    asset,          \* the asset's storage
    balances,       \* the sequence of balances; the id of the first one is 0
    now             \* the ledger: its timestamp, and its sequence number

claimableVars == <<asset, balances, now>>

Person == Address \ {Vault}

(* An Option<Timepoint> is the set of the timepoints it has: none or one.  *)
Option(S) == {{}} \cup {{x} : x \in S}

Balance == [funder : Person, claimant : Address, amount : 1..MaxI128, unlock_time : Nat,
            expiry : SUBSET Expiries, claimed : BOOLEAN, cancelled : BOOLEAN]

check_expiration(x) == x > now /\ x - now <= SafeTtl

expired(b) == \E exp \in b.expiry : now > exp

\* mutant: the last moment of the window is left out
is_claimable_strict(b) ==
    /\ ~b.claimed /\ ~b.cancelled
    /\ now >= b.unlock_time
    /\ \A exp \in b.expiry : now < exp

is_claimable(b) ==
    /\ ~b.claimed /\ ~b.cancelled
    /\ now >= b.unlock_time
    /\ ~expired(b)

ClaimableInit ==
    /\ asset = [EmptyStorage EXCEPT !.bal = Endowment]
    /\ balances = <<>>
    /\ now = 1

(* A direct call on the token: parties spend their funds, and can send     *)
(* some to the contract that no balance accounts for.                      *)
TokenTransfer(from, to, n) ==
    /\ asset' \in transfer(asset, from, to, n)
    /\ UNCHANGED <<balances, now>>

(* The funder approves the contract, which pulls the deposit.              *)
Pulled(funder, n, x) ==
    UNION {transfer_from(u, now, Vault, funder, Vault, n) :
               u \in approve(asset, now, funder, Vault, n, x)}

\* authorized by the funder
Deposit(funder, claimant, n, delay, expiry, x) ==
    /\ n > 0
    /\ check_expiration(x)
    /\ asset' \in Pulled(funder, n, x)
    /\ balances' = Append(balances,
           [funder |-> funder, claimant |-> claimant, amount |-> n, unlock_time |-> now + delay,
            expiry |-> expiry, claimed |-> FALSE, cancelled |-> FALSE])
    /\ UNCHANGED now

\* mutants: a claimed balance can still be cancelled; an expired one cannot
Cancellable_claimed(b)   == ~b.cancelled
Cancellable_unexpired(b) == ~b.cancelled /\ ~b.claimed /\ ~expired(b)

Cancellable(b) == ~b.cancelled /\ ~b.claimed

\* mutant: the unlock time itself is too early
Claimed_after_unlock(b) ==
    IF ~b.claimed /\ ~b.cancelled /\ now > b.unlock_time /\ ~expired(b)
    THEN transfer(asset, Vault, b.claimant, b.amount)
    ELSE Panic

(* The token's storage after a claim of b.                                 *)
Claimed(b) ==
    IF ~b.claimed /\ ~b.cancelled /\ now >= b.unlock_time /\ ~expired(b)
    THEN transfer(asset, Vault, b.claimant, b.amount)
    ELSE Panic

\* authorized by the claimant
Claim(id, claimant) ==
    /\ claimant = balances[id].claimant
    /\ asset' \in Claimed(balances[id])
    /\ balances' = [balances EXCEPT ![id].claimed = TRUE]
    /\ UNCHANGED now

\* authorized by the admin
Cancel(id) ==
    LET b == balances[id] IN
    /\ Cancellable(b)
    /\ asset' \in transfer(asset, Vault, b.funder, b.amount)
    /\ balances' = [balances EXCEPT ![id].cancelled = TRUE]
    /\ UNCHANGED now

LedgerCloses ==
    /\ now < MaxTime
    /\ now' = now + 1
    /\ UNCHANGED <<asset, balances>>

ClaimableNext ==
    \/ \E from \in Person, to \in Address, n \in DepositAmounts : TokenTransfer(from, to, n)
    \/ /\ Len(balances) < MaxBalances
       /\ \E funder \in Person, claimant \in Address, n \in DepositAmounts, delay \in Delays,
             expiry \in Option(Expiries), ahead \in Horizons :
              Deposit(funder, claimant, n, delay, expiry, now + ahead)
    \/ \E id \in DOMAIN balances, p \in Person : Claim(id, p)
    \/ \E id \in DOMAIN balances : Cancel(id)
    \/ LedgerCloses

ClaimableSpec == ClaimableInit /\ [][ClaimableNext]_claimableVars

(* Ledgers keep closing, and claimants keep asking.                        *)
Fairness ==
    /\ WF_claimableVars(LedgerCloses)
    /\ \A id \in 1..MaxBalances, p \in Person :
           WF_claimableVars(id \in DOMAIN balances /\ Claim(id, p))

ClaimableFairSpec == ClaimableSpec /\ Fairness

-----------------------------------------------------------------------------
(* The storage and the balances are well typed.                            *)
ClaimableTypeOK ==
    /\ asset \in Storage
    /\ balances \in Seq(Balance)
    /\ Len(balances) <= MaxBalances
    /\ now \in 1..MaxTime

(* What is_claimable answers (lib.rs:189-204) is what claim does: exactly  *)
(* the balances it announces go through in the token, whatever other       *)
(* balances have paid before.                                              *)
ViewIsTruthful ==
    \A id \in DOMAIN balances :
        is_claimable(balances[id]) <=> Claimed(balances[id]) # Panic

(* The admin can cancel whatever is not settled, before the unlock, in the *)
(* window and after it alike, and the token sends it back (lib.rs:159-178):*)
(* no balance is beyond recovery.                                          *)
AlwaysRecoverable ==
    \A id \in DOMAIN balances :
        LET b == balances[id] IN
        ~b.claimed /\ ~b.cancelled =>
            Cancellable(b) /\ transfer(asset, Vault, b.funder, b.amount) # Panic

(* A balance without an expiry that its claimant can ask for is settled in *)
(* the end, if it unlocks in the time explored.  One with an expiry may be *)
(* missed and wait for the admin.                                          *)
EventuallySettled ==
    \A id \in 1..MaxBalances :
        (/\ id \in DOMAIN balances
         /\ balances[id].claimant \in Person
         /\ balances[id].expiry = {} /\ balances[id].unlock_time <= MaxTime)
            ~> (id \in DOMAIN balances /\ (balances[id].claimed \/ balances[id].cancelled))

(* The balances as deals of the abstract custody.                          *)
Exists(d) == d \in DOMAIN balances
Settled(d) == balances[d].claimed \/ balances[d].cancelled

OwedOn(d) == IF Exists(d) /\ ~Settled(d) THEN balances[d].amount ELSE 0

PayeesOf(d) == IF Exists(d) THEN {balances[d].claimant, balances[d].funder} ELSE {}

PhaseOf(d) == IF ~Exists(d) THEN "unused" ELSE IF Settled(d) THEN "settled" ELSE "open"

DealOf          == 1..MaxBalances
wealthOfAsset   == [a \in {"asset"} |-> asset.bal]
owedOnBalances  == [a \in {"asset"} |-> [d \in DealOf |-> OwedOn(d)]]
payeesOfBalance == [d \in DealOf |-> PayeesOf(d)]
phaseOfBalance  == [d \in DealOf |-> PhaseOf(d)]

Kept == INSTANCE Custody WITH
    Holder   <- Address,
    Keeper   <- Vault,
    Asset    <- {"asset"},
    Deal     <- DealOf,
    Quantity <- Held,
    wealth   <- wealthOfAsset,
    owed     <- owedOnBalances,
    payees   <- payeesOfBalance,
    phase    <- phaseOfBalance

(* The contract keeps what it promises of custody: each balance is paid    *)
(* once, whole, to its claimant or back to its funder.                     *)
ImplementsCustody == Kept!Spec

=============================================================================
