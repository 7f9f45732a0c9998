# Verification of the Stellar Forge contracts

TLA+ models of the Soroban contracts under `contracts/`, model-checked with TLC
on small instances. Every safety property that a run finds to hold is also proved
with TLAPS, for every instance; the liveness properties are model-checked only.

## The system

A catalog of Soroban (Stellar) smart contracts, each deployed on its own. A
contract is called by invocations. An invocation is atomic: it runs to its end
with every nested call it makes, or it panics and everything it did is rolled
back. Invocations are serialized, so concurrency is the order in which the
invocations of different parties reach the ledger, and the ledger's sequence
number and timestamp advance between them. The release profile has
`overflow-checks = true` (`Cargo.toml`), so arithmetic past `i128` panics.

What the contracts share is the SEP-41 token interface: all that hold or move
funds do so by nested calls on an asset's `transfer`, `approve` and
`transfer_from`.

| Component | State it keeps | Operations | Interaction | Correct when |
|---|---|---|---|---|
| `token` | balances (persistent), allowances (temporary entries with a TTL), admin, metadata | mint, set_admin, approve, transfer, transfer_from, burn, burn_from | called by every other component | only mint and burn change the supply; an allowance is spent at most once and never past its ledger |
| `allowance` | remaining allowance per (owner, asset, spender) | approve, increase, decrease, transfer_from | approves and pulls on the token as itself | the token allowance it holds stays within the policies; each pull is debited |
| `atomic-swap` | offers, next id | create_offer, execute, cancel_offer | approves and pulls on two tokens | an exchange happens whole, once, on the recorded terms |
| `crowdfund` | campaigns with their contributions, next id | create_campaign, contribute, withdraw, claim_refund | holds the funds of all campaigns in one balance per asset | campaigns do not pay for each other; everything can be resolved |
| `staking` | rate, period, accumulator, per-user stake, rewards and checkpoint | fund_rewards, stake, unstake, claim | holds stakes and rewards in one balance | rewards are never paid from stakes; earnings are kept; stakes come back |
| `payment` | none | pay | one token transfer | - |
| `claimable-balance` | balances with unlock and expiry | deposit, claim, cancel | holds funds | each deposit leaves once, to the right party |
| `escrow` | one deal and its status | deposit, release, refund | holds funds | release and refund exclude each other, and neither can be made impossible |
| `timelock` | locks, next id | lock, release | holds funds | each lock leaves once, not before its time |
| `vesting` | one grant, amount released | deposit, claim | holds funds | released never exceeds vested, and a funded grant ends up released |
| `subscription` | plan, next charge, active | charge, cancel | one token transfer by the subscriber | a period is charged once, and nothing after the cancellation |
| `merkle-airdrop` | root, admin, claimed indices | deposit, claim, update_root | holds funds | an index is paid once under all roots, and only what is on a list |
| `oracle` | signer, latest price and its time | publish, set_signer | ed25519 verification | a price is replaced by later ones of the trusted key only |
| `multi-signature` | signers, threshold, approvals, executed | approve, execute | none: executing a proposal is recording it | executed only with a quorum of different signers |
| `access-control` | admin, roles | grant, revoke, transfer_admin, has_role | - | roles change by the admin only |
| `test-asset` | balances, admin | mint, transfer | called by `payment` in its tests | payments conserve what two parties have |
| `greeter`, `scripts/`, `prebuilt/` | - | - | fixture, builds | - |

The hard behaviours are not threads or messages but: several parties' calls
interleaving over one pooled quantity (an allowance, a contract's balance);
entries the host drops at a TTL; deadlines met to the ledger; integer rounding
and overflow; and long sequences of legal calls. `PROJECT.json` lists the
hazards at their lines.

## Modules

| Module | Models |
|---|---|
| `Totals` | the sum of a function into the naturals, by counting (no recursion, so that it can be proved about) |
| `Sep41` | the token's storage and operations as functions from a storage to the set of storages the operation can leave: one, or none when it panics. The other contracts chain these with `\E`; a panic anywhere leaves no step, which is the rollback |
| `AssetLedger` | the abstract asset: wealth, grants with a last ledger, supply. No TTLs, no host limits |
| `Token` | the token contract on a ledger that closes; refines `AssetLedger` |
| `AllowanceManager` | the delegated spending manager over one asset |
| `AtomicSwap` | the exchange over several assets |
| `Crowdfund` | campaigns over several assets |
| `Staking` | the staking pool and its accrual arithmetic |
| `Custody` | the abstract keeper of assets: deals that take in an amount, name who it can be paid to, and are settled at most once, whole. No ids, times or authorizations |
| `Timelock` | locks over several assets; refines `Custody` |
| `Escrow` | the arbitrated deal; refines `Custody` as its only deal |
| `ClaimableBalance` | deposits with a window and an admin; refines `Custody` |
| `Vesting`, `Subscription`, `Payment` | the linear grant, the recurring charge, the forwarded transfer |
| `MerkleAirdrop` | allocations, their trees, proofs and roots |
| `Oracle`, `MultiSignature`, `AccessControl` | the contracts that only decide or keep roles |
| `TestAsset` | the asset `payment` is tested against, as functions like those of `Sep41` |
| `Catalog` | deployments of the small contracts: each is an `INSTANCE` over the shared asset and clock, and a step of one leaves the storage of the others as it is |
| `MC*` | the values TLC checks each with |
| `Sep41Proofs` | lemmas every proof rests on: sums, division, what each token operation leaves behind |
| `TokenAndBalanceProofs`, `AllowanceManagerProofs`, `PoolAndSwapProofs`, `CrowdfundProofs`, `CustodyProofs`, `TimelockProofs`, `CatalogProofs` | the theorems about the token and the claimable balance, the allowance manager, the pool and the swap, the crowdfund, the abstract keeper, the timelock, the small contracts |

```
Token ---- refines ---> AssetLedger        AllowanceManager   AtomicSwap
  |  (Sep41: storage -> storages)          Crowdfund          Staking
  +--- used by every module that moves an asset
Timelock, Escrow, ClaimableBalance --- refine ---> Custody
Catalog = { Escrow, Vesting, Subscription, Payment, MerkleAirdrop }  on one asset
        | Oracle | MultiSignature | AccessControl | TestAsset with Payment
```

Each action is one entry point, with the nested token calls it makes. Names
follow the source: actions are the entry points in CamelCase, pure operators
keep the source's snake_case. Authorization (`require_auth`) is the choice of
the acting address: any party may call for itself, and no action is taken in
the name of a contract. Amounts range over the integers of `i128` (from
`-MaxI128 - 1`), so that the sign checks are part of what is checked.

Definitions marked `mutant` are plausible bugs. No specification uses them;
each is substituted for the definition that follows it to see that the named
property fails.

### State and code

* `tok.bal`, `tok.allow`: `DataKey::Balance`, `DataKey::Allowance` of
  `token/src/storage_types.rs`. `liveUntil` is the host's TTL of the temporary
  entry: a first write gives it `MinTempTtl` ledgers, `extend_ttl` of a
  positive write takes it to the expiration, and traps beyond `MaxEntryTtl`.
* `policy`: the manager's persistent allowance per (owner, spender). One asset
  stands for all since both ledgers are keyed by the asset.
* `offers`, `campaigns`: the `Map<u64, _>` of `atomic-swap` and `crowdfund` as a
  sequence (`next_id` counts up from zero without gaps).
* `locks`, `balances`: the maps of `timelock` and `claimable-balance`, as
  sequences too. `held` and `state` are the instance storage of `escrow`; its
  parties never change, so they are constants. `asset` is the storage of the asset
  that `claimable-balance` holds. An `Option<Timepoint>` is the set
  of the timepoints it has. In these three anyone can also transfer to the
  contract directly, so that the holdings exceed what is owed.
* `grant`, `released`: the instance storage of `vesting`. Nothing records the
  funding; the constructor does not check the total, so it may be negative.
* `plan`, `next_charge`, `active`: the instance storage of `subscription`. The
  charge is a transfer that the subscriber itself submits.
* `root`, `claimed`: the storage of `merkle-airdrop`. SHA-256 is an injective
  constructor: a leaf is the allocation it commits to, a node the unordered pair
  of its children (the code sorts them). The trees are those of the contract's
  tests (an odd node is combined with itself, and no tree is built of an empty
  list); a claim may show any proof whose
  siblings are hashes of the listed trees, and the root may be of none of them.
* `signer`, `price`, `time`, `initialized`: the instance storage of `oracle`.
  `signed` is what the holders of the keys have signed so far; it is not on the
  ledger. A rotation needs no consent of the new signer.
* `config`, `approvals`, `executed`: `multi-signature`; the signers are map keys,
  so equal ones count once. `admin`, `roles`: `access-control`.
* `coins`: the balances of `test-asset`, plain `i128`s.
* `deployed`: the contracts of a deployment of `Catalog`. What is not deployed has
  a blank storage that no step reads.
* `pool`: the instance storage of `staking`, `pool.rpt` being `rpt_stored`.
* `seq`, `now`: the ledger's sequence number and timestamp. `crowdfund` compares
  the first only with the expiration of an approval used in the same call, so
  one clock serves for both, and so it does in `claimable-balance`.

## What the runs check

| Run | Properties | Shows |
|---|---|---|
| `token` | `TypeOK`, `TtlCoversExpiration`, `ImplementsAsset` | the token is the abstract asset; no allowance dies before its expiration |
| `allowance_manager` | `TypeOK`, `ExposureWithinPolicy`, `LossIsDebited` | two spenders on one pooled token allowance, and an owner that also approves the manager directly |
| `two_spenders` | `RemainingIsSpendable`, violated | what the manager reports as remaining may not be spendable |
| `atomic_swap` | `PullsAreOffered`, `OffersAreImmutable`, `LossIsExchanged` | whole exchanges on the recorded terms, with expiring approvals and parties that spend what they offered |
| `shared_approval` | `OfferIsBacked`, violated | a second offer of the same asset takes the first one's approval |
| `crowdfund` | `TypeOK`, `HoldingsAreOwed`, `EveryoneIsWhole`, `NoStandingApproval`, `OutcomeIsFinal`, `EventuallyResolved` | campaigns in one pool stay apart to the unit, and none keeps funds for ever |
| `staking` | `Solvent`, `StakeIsReturned`, `EarningsAreKept`, `AccrualIsProportional` | solvency and fair accrual with rounding everywhere; a top-up neither loses what was left of the period nor promises it twice |
| `staking_overflow` | `StakeIsReturned`, violated | an overflow in the accrual locks the stakes |
| `timelock` | `HoldingsCoverLocks`, `ImplementsCustody`, `EventuallyReleased` | each lock is paid once, whole, not before its time, and in the end |
| `zero_lock` | `LocksArePositive`, violated | a lock of nothing is created |
| `claimable_balance` | `ViewIsTruthful`, `AlwaysRecoverable`, `ImplementsCustody`, `EventuallySettled` | claim and cancel exclude each other; `is_claimable` is what `claim` does; whatever is unsettled can be cancelled, before, in and after its window |
| `catalog` | `TypeOK`; escrow: `BothOutcomesPossible`, `ImplementsCustody`; vesting: `ReleasedIsVested`, `FundingIsKept`, `FundedIsReleased`; subscription: `ChargesFollowPlan`; airdrop: `EachIndexPaysOnce`, `PayoutsAreListed`, `ListedCanClaim`; oracle: `PricesMoveForward`, `SignedIsOvertaken`; multi-signature: `ExecutedByQuorum`; payment: `PaymentsConserve` | the small contracts keep their promises whatever the others and the people do with the asset, in every order of calls |

A property is spent on a hazard, so not every run has a type invariant: where it
would only repeat what the safety properties need anyway, or is proved, it is
left to the module.

### Disagreements found

1. `allowance`: every policy change sets the one token allowance of the owner to
   that spender's policy. With two spenders, what `allowance()` reports for the
   first as remaining cannot be spent once the second policy is lower
   (`two_spenders`). The safe direction holds, and is proved: the manager never
   holds more than some spender may spend (`ExposureWithinPolicy`).
2. `atomic-swap`: offers of one asset by one offerer share one allowance, so an
   older offer stays active but cannot be executed (`shared_approval`). Nobody
   loses by it: `LossIsExchanged` holds.
3. `staking`: `dt * rate * PRECISION` overflows `i128` when more than 1.7e20
   smallest units accrue between two updates. `update_reward` then panics in
   every entry point, `unstake` too (`staking_overflow`; the run scales the
   width and the precision down).
4. `timelock`: the test `rejects_zero_amount` expects a lock of zero to panic
   with "amount must be positive". `lock` has no such check and the token moves
   zero, so the lock is created (`zero_lock`). Only the owner's own call is
   affected: the lock holds and releases nothing.

Met on the way, and modelled as the code does it: the test asset's transfer to
oneself reads the receiver's balance before the debit is saved and so credits
the amount (`PaymentsConserve` is stated for two different parties); `publish`
of the oracle is documented to return false for an invalid signature, but the
host's verification traps, and either way nothing changes; a grant's total is
unchecked, and a negative one can never be claimed.

### Bounds

* `token`: three addresses (payer, payee, spender); amounts -1..2 with
  `MaxI128 = 2`, so that both signs, the exact balance and the overflow are met;
  three ledgers and expirations before, at and past all of them and past the
  host limit. One pair grants: the grants of two pairs are independent entries.
* `allowance_manager`: one owner with two spenders is the least that shares an
  allowance; she holds no more than she can grant. A third address approves the
  manager on the token. Three ledgers: an approval of the first expires in the
  second, and policies are changed and drawn on after it.
* `atomic_swap`: two parties, two assets, two offers, three ledgers: each party
  can be an offerer and an entrant of the same asset, and approvals expire.
  Direct transfers of one unit make an offer unfunded and funded again.
* `crowdfund`: two campaigns over two assets are the least for which pools are
  shared and for which they must not be mixed up; goals below, at and above what
  the contributors have; deadlines already past, now and later.
* `staking`: two users, five seconds, periods of two seconds, so that periods
  end, overlap and restart; `PRECISION = 5` divides none of the totals evenly,
  so every division rounds, where the real 10^18 would round less. A top-up
  spreads the leftover over a whole new period, so it may lower the rate; that is
  the code's choice and not a property here. That no more of the leftover is lost
  than the rounding of the new rate is one (`EarningsAreKept`). `MaxI128` is
  out of reach in `staking` and within reach in `staking_overflow`.

* `timelock`, `claimable_balance`: two deals are the least that share holdings;
  `timelock` has a second asset so that two locks may also not share. Unlock
  times and windows lie before, at and after the ledgers explored; windows also
  close before they open. The contract itself may be named as beneficiary or
  claimant, which nobody can then ask for.
* `catalog`: contracts that share neither the asset nor the clock cannot affect
  each other, so seven deployments are explored instead of their product: escrow
  and vesting with payments, and with a subscription (the grant of one person
  pays the charges and the deposits of the same person), the airdrop with
  payments, and the others alone. Vesting and subscription read the time, so it
  advances there: five seconds for a grant of three, with the cliff at the start,
  within and beyond the duration. `MaxI128 = 6` lets `total * elapsed` overflow for the
  grant of 4 and not for that of 3, whose linear shares are whole; 4 rounds. An
  interval of zero and a negative price are among the plans. Lists have one, two
  and three entries (an odd one out), all proofs up to length two are tried, and
  index 0 and 1 are on more than one list. Two signed observations are the least
  that arrive out of order; times start at zero, the storage's initial value.
  Thresholds go from 0 to above the number of signers, which may repeat.

Ledger, offer, campaign, lock and balance bounds (`MaxSeq`, `MaxTime`,
`MaxOffers`, `MaxCampaigns`, `MaxLocks`, `MaxBalances`, `MaxSigned`) only stop the
exploration. `crowdfund` and `catalog` run without the deadlock check: when every
campaign is resolved, and everything in a deployment is paid, executed or
published, there is nothing left to do.

### Fairness

Only the liveness properties assume any: ledgers keep closing (the network's
part), and everyone who is owed a payment keeps submitting the call for it
(their own interest): owners and contributors in `crowdfund`,
beneficiaries in `timelock`, claimants in `claimable_balance`. Nobody is assumed
to contribute, deposit or cancel. The properties then say that the contract
never stands in the way. A claimable balance with an expiry is left out: its
claimant can miss the window, and then only the admin can resolve it.

In `catalog`, a grant's beneficiary keeps claiming, and whoever runs the price
feed keeps submitting some observation that is not stale. Neither property needs the time to advance: `FundedIsReleased`
speaks of a funded grant whose period is over, `SignedIsOvertaken` of an
observation that is signed, by a key that stays the signer.

## What is proved

For every finite set of addresses, every set of `i128` amounts, all host limits
and without the bounds on what TLC tries:

* `Sep41Proofs`: what a sum does under an update, an extension, a scaling and term
  by term (a sum is a cardinality, so these are facts about finite sets), what a
  division rounds, and what each token operation can leave behind, for the
  contracts that call it. `AffordableGoesThrough` is the one that says when a
  transfer cannot panic: the payer has the amount, and the supply fits `i128`.
* `TokenAndBalanceProofs`, the token: `TypeCorrect`, `AllowancesLast` and
  `TokenImplementsAsset`. The inductive invariant is `TypeOK /\ TtlCoversExpiration`.
  The type alone would be inductive too, but the refinement needs that an entry
  with an amount has not been dropped, which is `TtlCoversExpiration`. The
  refinement maps each invocation to one step of `AssetLedger`; that the supply
  (the sum of the balances) moves by exactly the minted or burnt amount comes from
  `TotalUpdate`.
* `TokenAndBalanceProofs`, the claimable balance: `VaultIInv` is the type, that
  entries last, and that the supply is that of the endowments.
  `BalancesImplementCustody` maps claim and cancel to settling a deal;
  `BalancesCovered` is inherited from `HoldingsBacked` through it. With that every
  open balance can be afforded, and so `BalancesRecoverable` and `ViewsTruthful`
  follow when the endowments fit `i128` together.
* `AllowanceManagerProofs`: `TypeCorrect`, `ExposureBounded` and
  `LossesDebited`. `ExposureWithinPolicy` is inductive together with the type and
  the TTL invariant: a policy change makes its spender the witness, and a pull
  lowers the token's allowance at least as much as any policy
  (`SyncStep`, `PullStep`).
* `PoolAndSwapProofs`, the pool. `Due` and `Rpt` are what the code's accrual would
  compute without a width. The argument is a potential, `Owing`: stakes, stored
  rewards, the rest of the period and what the accumulator has spread but nobody
  has been credited with, all times `PRECISION`. The time does not occur in it, an
  update never raises it (`OwingFalls`: each division rounds against the user), and
  every operation moves it by what it moves of the asset. `Covered` says that the
  holdings times `PRECISION` are at least `Owing`; it is the heart of `IInv`.
  - `PoolTyped`, `PoolCoversDues` and `DuesAreKept` need nothing else: in every
    state the holdings cover the stakes, the dues and the rest of the period, and
    in every step what is due to a user stays, grows with time, or is paid to it
    in full. What is left of a period stays in the pool, and a top-up takes over
    all of it but less than one unit per second of the new period (`NextRest`).
  - `AccrualNeverOverflows`: what is due can be computed within `i128`, provided
    that `PRECISION` times the supply times the seconds since deployment fits
    (`AccrualFits`). The accumulator moves by at most `PRECISION` times the
    holdings in a second (`RptLater`), and not at all in a call. Some such
    hypothesis is needed: without it `staking_overflow` is what happens. With
    the code's 10^18 it reads: the supply in smallest units times the seconds stays
    below 1.7e20. It is sufficient, not necessary; a pool that is updated often with
    large stakes has more room.
  - `PoolSolvent`, `NobodyLosesEarnings`, `SharesAreProportional` and
    `StakesAreReturned` state the properties of run `staking` under `AccrualFits`
    (there 5 * 6 * 5 = 150 = `MaxI128`). The lemmas before them (`SolventWhereItFits`
    and the others) give the same for any state or behaviour in which the dues
    can be computed, however it came about.
* `PoolAndSwapProofs`, the swap: `SwapTyped`, `PullsStayOffered`,
  `OffersSettleOnce`, `LossesAreExchanged`. `SwapIInv` is the type, that entries
  last, that the two assets of an offer differ (so that the two payments of an
  execution move different storages) and `PullsAreOffered`.
* `CustodyProofs`: `HoldingsBacked`. The holdings cover the open deals together;
  the invariant also needs that a deal that is not open is owed nothing.
* `TimelockProofs`: `TypeCorrect`, `TimelockImplementsCustody` and `LocksCovered`,
  from two facts: the holdings cover the locks whose record is open
  (`HoldingsBacked`, inherited through the refinement), and no lock is recorded as
  released before its time (`NoneIsEarly`), so that all locks not yet due are among
  them. From these and the conserved supply, `NothingStuck`: a release that is due goes through, whatever
  the other locks were paid. It is the safety half of `EventuallyReleased`, and
  supposes that the supply of each asset fits `i128`. The token bounds each balance
  only, not their sum: beyond that a payee's balance could overflow.
* `CrowdfundProofs`: `TypeCorrect`, `NoApprovalStands`, `OutcomesFinal`,
  `HoldingsOwed` and `EveryoneWhole`, for any number of campaigns, people and
  assets. `Kept` says that each record agrees with itself: only what succeeded
  was withdrawn, and the recorded total is the sum of the contributions until
  refunds start. Without it a withdrawal of `total` need not be what the record
  owes. Contribution, withdrawal and refund are then one shape, `Settles`: one
  record and the pool of its asset move together, by as much as the record's
  obligations and the caller's account change. The sums over the campaigns follow
  from `TotalChange` (a changed record) and `TotalExtend` (a new one), and with
  them the books, `Balanced`. From these, and under the same hypothesis as in the
  timelock, `NothingStuck` is the safety half of `EventuallyResolved`: an ended
  campaign that owes something has someone to pay, and each such payout goes
  through.
* `CatalogProofs`: for every set of deployments, and next to any other contracts
  on the asset. `Movements` says what any step can do to the asset: one
  transfer, from someone who authorized it or by the one contract that pays
  out; `Frames` what a step leaves alone. From these:
  - `TypeCorrect` and `GrantsVest`: inductive together only, since what is
    released is an amount because it is within the total; `QuotientRoundsDown`
    is the arithmetic of the linear share.
  - `FundingKept`: funds leave a grant only to be recorded as released.
  - `ChargesFollowSchedule`: whatever moves the subscription's money or its schedule
    pays for one begun period of an active plan, to the unit, and uses that period
    up (`ChargePays`); the schedule is at most one interval ahead
    (`ChargesWithinPeriods`), and a cancelled plan stays cancelled.
  - `IndicesPayOnce`, `PricesAdvance`, `PaymentsConserved`: action properties.
  - `PayoutsListed`: a verified claim is on a list with the root. By
    `ProofsStayInTheTree`, going up from a node of a tree of known hashes, a
    combination that is again in the tree is that of a node with its neighbour, one
    level up (hashes of different shape differ). So a proof that ends at the root
    began at a leaf, and a leaf is an allocation of the list.
  - `ListedIsPaid`: everyone on the list can claim, the odd one out included.
    `ReachesRoot` builds the proof level by level, with fewer siblings than the list
    has entries. Hypotheses: the endowments fit `i128` together, and the model's
    bound on the length of a proof admits that many.
  - `QuorumsExecute`, with `ApprovedBySigners`, as signers are never replaced.
  - `EscrowImplementsCustody`: the refinement, where a step of another contract is
    a payment into the deal's account or a stutter.
  - `ArbiterIsFree`: both payouts of a funded escrow go through, when the endowments
    fit `i128` together.

Where a theorem supposes that the endowments fit `i128` together, the hypothesis is
its own: the token does not limit its supply, and with more in existence a party
could be too rich to be paid.

Induction along a list or a proof is not available as a rule here, since the
library's is stated for an operator. `LeastMember` and `InductiveSet` get it from
the well-foundedness of the naturals for a set of numbers instead, which is all the
Merkle proofs need; recursive functions (`Hashes`, `Levels`) are unfolded after they
are shown to exist.

Assumptions: the named `ASSUME`s of the modules (the address set is finite, the
TTLs are positive, amounts fit `i128`, a contract starts without funds, airdrop
lists are nonempty), which TLC evaluates on every run.

Only model-checked: the liveness properties (`FundedIsReleased`,
`SignedIsOvertaken`, `EventuallyResolved`, `EventuallyReleased`,
`EventuallySettled`), which are out of the prover's reach, and what the four runs
that end in a violation show.

## What is not modelled

* Persistent entries (balances, offers, campaigns) can be archived by the host
  when their TTL ends and must be restored before they are read again; the data
  is not lost, and the models keep it.
* Instance TTLs, events, metadata, the `decimal` check of the token constructor.
* `u32`/`u64` overflow of ledger numbers, ids and times.
* Assets other than `contracts/token` and the test asset: the models take the
  token's semantics for every SEP-41 asset.
* What is malformed at the host's boundary: proofs whose length is no multiple of
  a hash's, keys and signatures of the wrong length. They trap or verify nothing.
* `greeter`: a fixture for the sandbox runner, one string and one counter set by
  separate calls. `scripts/` and `prebuilt/`: builds, checksums, deployments.

## Plan

Done: every contract is modelled, and every safety invariant and action property
that a run checks is proved.

Left: the same as `NothingStuck` for a funded grant, that what it has vested can be
claimed (the safety half of `FundedIsReleased`); what the rewards that accrue while
nothing is staked add up to.
