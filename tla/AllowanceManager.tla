--------------------------- MODULE AllowanceManager ---------------------------
(***************************************************************************)
(* The delegated spending manager (contracts/allowance) over one asset.    *)
(* The manager keeps one policy per <<owner, spender>>; the token keeps    *)
(* one allowance per owner, from the owner to the manager, which every     *)
(* policy change overwrites and every spender draws on.                    *)
(*                                                                         *)
(* Policies and allowances are keyed by the asset, so the assets of a      *)
(* deployment do not meet and one stands for all.                          *)
(***************************************************************************)
EXTENDS Sep41

CONSTANTS
    Manager,        \* the contract's own address
    SafeTtl,        \* SAFE_ALLOWANCE_TTL
    Endowment,      \* what each address holds when the contract is deployed
    DirectOwners,   \* owners that also approve the manager on the token itself
    Amounts,        \* the amounts an invocation may carry
    Policies,       \* bound: the <<owner, spender>> pairs tried
    Expirations,    \* the expiration ledgers a call may name
    MaxSeq          \* bound: the last ledger sequence explored

ASSUME ManagerAssumption   == Manager \in Address /\ DirectOwners \subseteq Address
ASSUME SafeTtlAssumption   == SafeTtl \in Nat
ASSUME EndowmentAssumption == Endowment \in [Address -> Held]
ASSUME AmountsAssumption   == Amounts \subseteq (-MaxI128 - 1) .. MaxI128
ASSUME PoliciesAssumption  == Policies \subseteq Pair /\ Expirations \subseteq Nat
ASSUME SeqAssumption       == MaxSeq \in Nat \ {0}

VARIABLES
    tok,            \* the asset's storage
    policy,         \* <<owner, spender>> -> remaining allowance of the spender
    seq             \* the ledger sequence number

vars == <<tok, policy, seq>>

check_expiration(x) == x > seq /\ x - seq <= SafeTtl

(* The token's allowance from owner to the manager is set, not adjusted.   *)
sync_token_allowance(owner, n, x) == approve(tok, seq, owner, Manager, n, x)

Init ==
    /\ tok = [EmptyStorage EXCEPT !.bal = Endowment]
    /\ policy = [p \in Pair |-> 0]
    /\ seq = 1

(* How approve, increase and decrease end: with the new policy checked,    *)
(* stored, and forwarded to the token.                                     *)
SetPolicy(p, next, x) ==
    /\ next > 0 => check_expiration(x)
    /\ policy' = [policy EXCEPT ![p] = next]
    /\ tok' \in sync_token_allowance(p[1], next, x)
    /\ UNCHANGED seq

Approve(p, n, x) ==
    /\ n >= 0
    /\ SetPolicy(p, n, x)

IncreaseAllowance(p, n, x) ==
    /\ n >= 0
    /\ policy[p] + n <= MaxI128
    /\ SetPolicy(p, policy[p] + n, x)

\* mutant: the token's allowance is left as it was
DecreaseAllowance_unsynced(p, n, x) ==
    /\ n >= 0
    /\ policy[p] - n >= 0
    /\ policy' = [policy EXCEPT ![p] = @ - n]
    /\ UNCHANGED <<tok, seq>>

DecreaseAllowance(p, n, x) ==
    /\ n >= 0
    /\ policy[p] - n >= 0
    /\ SetPolicy(p, policy[p] - n, x)

\* mutant: the spender's remaining allowance is not debited
Debit_skipped(p, n) == n >= 0 /\ policy[p] >= n /\ policy' = policy

\* mutant: the spender's remaining allowance is not compared with the amount
Debit_unchecked(p, n) == n >= 0 /\ policy' = [policy EXCEPT ![p] = @ - n]

Debit(p, n) ==
    /\ n >= 0
    /\ policy[p] >= n
    /\ policy' = [policy EXCEPT ![p] = @ - n]

(* p is <<from, spender>>; the manager pulls in its own name.              *)
TransferFrom(p, to, n) ==
    /\ Debit(p, n)
    /\ tok' \in transfer_from(tok, seq, Manager, p[1], to, n)
    /\ UNCHANGED seq

(* Calls on the token that bypass the manager.                             *)
TokenTransfer(from, to, n) ==
    /\ tok' \in transfer(tok, from, to, n)
    /\ UNCHANGED <<policy, seq>>

TokenApprove(owner, n, x) ==
    /\ tok' \in approve(tok, seq, owner, Manager, n, x)
    /\ UNCHANGED <<policy, seq>>

CloseLedger ==
    /\ seq < MaxSeq
    /\ seq' = seq + 1
    /\ UNCHANGED <<tok, policy>>

Next ==
    \/ \E p \in Policies, n \in Amounts, x \in Expirations :
           \/ Approve(p, n, x)
           \/ IncreaseAllowance(p, n, x)
           \/ DecreaseAllowance(p, n, x)
    \/ \E p \in Policies, to \in Address, n \in Amounts : TransferFrom(p, to, n)
    \/ \E from \in Address \ {Manager}, to \in Address, n \in Amounts :
           TokenTransfer(from, to, n)
    \/ \E owner \in DirectOwners, n \in Amounts, x \in Expirations :
           TokenApprove(owner, n, x)
    \/ CloseLedger

Spec == Init /\ [][Next]_vars

-----------------------------------------------------------------------------
(* Balances, allowances and policies are well typed.                       *)
TypeOK ==
    /\ tok \in Storage
    /\ policy \in [Pair -> Held]
    /\ seq \in 1..MaxSeq

(* Whatever order policies are granted, adjusted and drawn on, the manager *)
(* is never allowed more of an owner's tokens than some one of the owner's *)
(* spenders may still spend (lib.rs:10-15).  Owners that approve the       *)
(* manager on the token themselves are outside the promise.                *)
ExposureWithinPolicy ==
    \A owner \in Address \ DirectOwners :
        \E spender \in Address :
            tok.allow[<<owner, Manager>>].amount <= policy[<<owner, spender>>]

(* An owner's balance falls by its own transfer, or by a pull debited, to  *)
(* the last unit, to the policy of one of its spenders (lib.rs:126-151).   *)
LossIsDebited ==
    [][ \A owner \in Address :
          LET loss == tok.bal[owner] - tok'.bal[owner] IN
          loss > 0 =>
            \/ \E to \in Address : TokenTransfer(owner, to, loss)
            \/ \E spender \in Address :
                 policy' = [policy EXCEPT ![<<owner, spender>>] = @ - loss] ]_vars

(* What the manager reports as remaining (lib.rs:114-118) can be spent, as *)
(* long as the owner holds it and the approval has not expired.            *)
RemainingIsSpendable ==
    \A p \in Policies :
        LET granted == tok.allow[<<p[1], Manager>>] IN
        /\ policy[p] <= tok.bal[p[1]]
        /\ granted.expiration >= seq
        => transfer_from(tok, seq, Manager, p[1], p[2], policy[p]) # Panic

=============================================================================
