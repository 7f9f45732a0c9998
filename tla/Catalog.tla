------------------------------- MODULE Catalog -------------------------------
(***************************************************************************)
(* Deployments of the small contracts.  Those that move the asset share it *)
(* with each other and with the payments of the people, and the ledger     *)
(* whose time they read; the others keep to their own storage.  Every      *)
(* contract is a component of its own: a step of one leaves the storage of *)
(* the others as it is.                                                    *)
(***************************************************************************)
EXTENDS Sep41, Sequences

CONSTANTS
    Person,         \* the addresses that can authorize a call
    Deployments,    \* the sets of contracts that are deployed together
    Endowment,      \* what each address holds of the asset at deployment
    Amounts,        \* the amounts a call may carry
    MaxTime,        \* bound: the last ledger explored
    EscrowVault, Depositor, Arbiter, EscrowBeneficiary,
    VestingVault, Beneficiary, Sums, Starts, Durations, Cliffs,
    Subscriber, Merchant, Prices, Intervals,
    AirdropVault, Admin, Lists, Indices, ProofLength,
    Key, ObservedPrices, ObservedTimes, MaxSigned,
    Proposal, Thresholds,
    Role

ASSUME PartiesAssumption ==
    /\ Person \subseteq Address
    /\ {EscrowVault, VestingVault, AirdropVault} \subseteq Address \ Person
    /\ EscrowVault # VestingVault /\ EscrowVault # AirdropVault
    /\ VestingVault # AirdropVault
    /\ {Depositor, Beneficiary, Subscriber, Admin} \subseteq Person
    /\ {EscrowBeneficiary, Arbiter, Merchant} \subseteq Address
ASSUME EndowmentAssumption  == Endowment \in [Address -> Held]
ASSUME AmountsAssumption    ==
    Amounts \cup Sums \cup Prices \subseteq (-MaxI128 - 1) .. MaxI128
ASSUME TimesAssumption      ==
    Starts \cup Durations \cup Cliffs \cup Intervals \cup ObservedTimes \subseteq Nat
ASSUME ObservationsAssumption == ObservedPrices \subseteq Int /\ Key # {}
\* the tree over nothing has no root (merkle-airdrop test.rs:23-43)
ASSUME ListsAssumption      ==
    \A list \in Lists : /\ list \in Seq([index : Nat, claimant : Address, amount : Int])
                        /\ list # <<>>
ASSUME ThresholdsAssumption == Thresholds \subseteq Nat
ASSUME BoundsAssumption     == MaxTime \in Nat \ {0}

VARIABLES
    deployed,       \* the contracts of this deployment
    tok,            \* the asset's storage
    now,            \* the ledger's timestamp
    held, state,                            \* escrow
    grant, released,                        \* vesting
    plan, next_charge, active,              \* subscription
    root, claimed,                          \* merkle-airdrop
    signer, price, time, initialized, signed,   \* oracle
    config, approvals, executed,            \* multi-signature
    admin, roles,                           \* access-control
    coins                                   \* test-asset

escrow         == <<held, state>>
vesting        == <<grant, released>>
subscription   == <<plan, next_charge, active>>
airdrop        == <<root, claimed>>
oracle         == <<signer, price, time, initialized, signed>>
multisignature == <<config, approvals, executed>>
access         == <<admin, roles>>
decisions      == <<oracle, multisignature, access, coins>>
custodians     == <<escrow, vesting, subscription, airdrop>>

vars == <<deployed, tok, now, custodians, decisions>>

Contract == {"escrow", "vesting", "subscription", "payment", "merkle-airdrop", "oracle",
             "multi-signature", "access-control", "test-asset"}

E == INSTANCE Escrow WITH Vault <- EscrowVault, Beneficiary <- EscrowBeneficiary
V == INSTANCE Vesting WITH Vault <- VestingVault
S == INSTANCE Subscription
P == INSTANCE Payment WITH Transfer <- transfer
A == INSTANCE MerkleAirdrop WITH Vault <- AirdropVault
O == INSTANCE Oracle WITH Prices <- ObservedPrices, Times <- ObservedTimes
M == INSTANCE MultiSignature
R == INSTANCE AccessControl
T == INSTANCE TestAsset
Q == INSTANCE Payment WITH Transfer <- T!transfer, tok <- coins

-----------------------------------------------------------------------------
(* A contract that is not deployed has a blank storage, which no step reads. *)
Some(set) == CHOOSE x \in set : TRUE

Init ==
    /\ deployed \in Deployments
    /\ tok = [EmptyStorage EXCEPT !.bal = Endowment]
    /\ now = 1
    /\ E!Init
    /\ IF "vesting" \in deployed THEN V!Init
       ELSE grant = [total |-> 0, start |-> 0, cliff |-> 0, end |-> 1] /\ released = 0
    /\ IF "subscription" \in deployed THEN S!Init
       ELSE /\ plan = [amount |-> 0, interval |-> 0]
            /\ next_charge = 0 /\ active = FALSE
    /\ IF "merkle-airdrop" \in deployed THEN A!Init
       ELSE root = A!OtherBytes /\ claimed = {}
    /\ IF "oracle" \in deployed THEN O!Init
       ELSE /\ signer = Some(Key) /\ price = 0 /\ time = 0
            /\ initialized = FALSE /\ signed = {}
    /\ IF "multi-signature" \in deployed THEN M!Init
       ELSE /\ config = [signers |-> {}, threshold |-> 0]
            /\ approvals = [p \in Proposal |-> {}] /\ executed = {}
    /\ IF "access-control" \in deployed THEN R!Init
       ELSE admin = Some(Person) /\ roles = {}
    /\ coins = T!NoBalances

-----------------------------------------------------------------------------
(* The steps of one contract, the storage of the others as it is.          *)

EscrowStep ==
    /\ "escrow" \in deployed
    /\ E!Next
    /\ UNCHANGED <<deployed, now, vesting, subscription, airdrop, decisions>>

VestingStep ==
    /\ "vesting" \in deployed
    /\ V!Next
    /\ UNCHANGED <<deployed, escrow, subscription, airdrop, decisions>>

SubscriptionStep ==
    /\ "subscription" \in deployed
    /\ S!Next
    /\ UNCHANGED <<deployed, escrow, vesting, airdrop, decisions>>

(* People pay each other, or send a contract what it does not account for, *)
(* through the payment contract or by the transfer it forwards to.         *)
PaymentStep ==
    /\ "payment" \in deployed
    /\ \E from \in Person, to \in Address, n \in Amounts : P!Pay(from, to, n)
    /\ UNCHANGED <<deployed, now, custodians, decisions>>

AirdropStep ==
    /\ "merkle-airdrop" \in deployed
    /\ A!Next
    /\ UNCHANGED <<deployed, now, escrow, vesting, subscription, decisions>>

OracleStep ==
    /\ "oracle" \in deployed
    /\ O!Next
    /\ UNCHANGED <<deployed, tok, now, custodians, multisignature, access, coins>>

MultiSignatureStep ==
    /\ "multi-signature" \in deployed
    /\ M!Next
    /\ UNCHANGED <<deployed, tok, now, custodians, oracle, access, coins>>

AccessControlStep ==
    /\ "access-control" \in deployed
    /\ R!Next
    /\ UNCHANGED <<deployed, tok, now, custodians, oracle, multisignature, coins>>

(* The test asset as payment's tests use it: its admin mints positive      *)
(* amounts, and people pay through the payment contract.                   *)
TestAssetStep ==
    /\ "test-asset" \in deployed
    /\ \/ \E to \in Person, n \in Amounts : n > 0 /\ coins' \in T!mint(coins, to, n)
       \/ \E from, to \in Person, n \in Amounts : Q!Pay(from, to, n)
    /\ UNCHANGED <<deployed, tok, now, custodians, oracle, multisignature, access>>

(* Only these two read the time. *)
CloseLedger ==
    /\ deployed \cap {"vesting", "subscription"} # {}
    /\ now < MaxTime
    /\ now' = now + 1
    /\ UNCHANGED <<deployed, tok, custodians, decisions>>

Next ==
    \/ EscrowStep \/ VestingStep \/ SubscriptionStep \/ PaymentStep \/ AirdropStep
    \/ OracleStep \/ MultiSignatureStep \/ AccessControlStep \/ TestAssetStep
    \/ CloseLedger

Spec == Init /\ [][Next]_vars

(* The beneficiary of the grant keeps claiming, and whoever runs the price *)
(* feed keeps submitting some signed observation that is not stale.        *)
Fairness ==
    /\ WF_vars(VestingStep /\ V!Claim(Beneficiary))
    /\ WF_vars(OracleStep /\ \E observation \in signed : O!Publish(observation))

FairSpec == Spec /\ Fairness

-----------------------------------------------------------------------------
(* Every storage is well typed.                                            *)
TypeOK ==
    /\ deployed \in Deployments
    /\ tok \in Storage
    /\ now \in 1..MaxTime
    /\ E!TypeOK /\ V!TypeOK /\ S!TypeOK /\ A!TypeOK /\ O!TypeOK /\ M!TypeOK /\ R!TypeOK
    /\ coins \in [Address -> T!I128]

(* The arbiter's choice is free as long as anything is held: both payouts  *)
(* go through in the token whatever the other contracts did with it, so    *)
(* neither can be forced by making the other impossible (escrow            *)
(* lib.rs:123-171).                                                        *)
BothOutcomesPossible == E!BothOutcomesPossible

(* The escrow keeps what it promises of custody, next to the other         *)
(* contracts on the asset: whatever was deposited in however many parts is *)
(* paid out once, whole, to the depositor or to the beneficiary.           *)
ImplementsCustody == E!ImplementsCustody

(* Never more than the exact linear share is released, and nothing before  *)
(* the cliff, however often it is claimed (vesting lib.rs:125-154).        *)
ReleasedIsVested == V!ReleasedIsVested

(* A grant that is fully funded once is so for ever (vesting               *)
(* lib.rs:113-137).                                                        *)
FundingIsKept == V!FundingIsKept

(* Once its period is over, a funded grant is released to the last unit    *)
(* (vesting lib.rs:125-154).                                               *)
FundedIsReleased == V!FundedIsReleased

(* Each charge pays for one period that has begun and uses it up, and none *)
(* comes after the cancellation (subscription lib.rs:118-150).             *)
ChargesFollowPlan == S!ChargesFollowPlan

(* Each index is paid at most once under all roots together                *)
(* (merkle-airdrop lib.rs:164-199).                                        *)
EachIndexPaysOnce == A!EachIndexPaysOnce

(* What is paid is on the list the root commits to (merkle-airdrop         *)
(* lib.rs:62-103).                                                         *)
PayoutsAreListed == A!PayoutsAreListed

(* What is on the list the root commits to can be claimed, the index       *)
(* unused and the funds there (merkle-airdrop lib.rs:164-183).             *)
ListedCanClaim == A!ListedCanClaim

(* A price changes only to a later one the trusted key signed (oracle      *)
(* lib.rs:33-65).                                                          *)
PricesMoveForward == O!PricesMoveForward

(* What a standing signer signs is published or overtaken (oracle          *)
(* lib.rs:33-65).                                                          *)
SignedIsOvertaken == O!SignedIsOvertaken

(* What was executed has a quorum behind it (multi-signature               *)
(* lib.rs:85-120).                                                         *)
ExecutedByQuorum == M!ExecutedByQuorum

(* A payment in the test asset, which reads both balances before it writes *)
(* either and compares a negative amount as any other, conserves what two  *)
(* parties have together; nobody pays more than it holds, and nobody loses *)
(* by being paid.  Only a payment to oneself creates any (payment          *)
(* lib.rs:25-34, test-asset lib.rs:57-71).                                 *)
PaymentsConserve ==
    [][ \A p, q \in Person, n \in Amounts :
            p # q /\ Q!Pay(p, q, n) =>
                /\ coins'[p] + coins'[q] = coins[p] + coins[q]
                /\ coins'[p] >= 0 /\ coins'[q] >= coins[q] ]_vars

=============================================================================
