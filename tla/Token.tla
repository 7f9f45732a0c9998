-------------------------------- MODULE Token --------------------------------
(***************************************************************************)
(* The token contract (contracts/token) on a ledger that closes.  Every    *)
(* action is one invocation, authorized by the address it names (an        *)
(* account that signs, or a contract that calls on its own behalf), or the *)
(* close of a ledger.                                                      *)
(***************************************************************************)
EXTENDS Sep41

CONSTANTS
    Amounts,        \* the amounts an invocation may carry, negative ones too
    Grants,         \* bound: the <<from, spender>> pairs an approval is tried for
    Expirations,    \* the expiration ledgers an approval may name
    MaxSeq          \* bound: the last ledger sequence explored

ASSUME AmountsAssumption == Amounts \subseteq (-MaxI128 - 1) .. MaxI128
ASSUME GrantsAssumption  == Grants \subseteq Pair /\ Expirations \subseteq Nat
ASSUME SeqAssumption     == MaxSeq \in Nat \ {0}

VARIABLES
    tok,            \* Balance and Allowance entries
    admin,          \* DataKey::Admin in instance storage
    seq             \* the ledger sequence number

vars == <<tok, admin, seq>>

Init ==
    /\ tok = EmptyStorage
    /\ admin \in Address
    /\ seq = 1

\* authorized by the stored admin (contract.rs:54-55)
Mint(to, n) ==
    /\ tok' \in mint(tok, to, n)
    /\ UNCHANGED <<admin, seq>>

SetAdmin(new) ==
    /\ admin' = new
    /\ UNCHANGED <<tok, seq>>

Approve(from, spender, n, expiration) ==
    /\ tok' \in approve(tok, seq, from, spender, n, expiration)
    /\ UNCHANGED <<admin, seq>>

Transfer(from, to, n) ==
    /\ tok' \in transfer(tok, from, to, n)
    /\ UNCHANGED <<admin, seq>>

TransferFrom(spender, from, to, n) ==
    /\ tok' \in transfer_from(tok, seq, spender, from, to, n)
    /\ UNCHANGED <<admin, seq>>

Burn(from, n) ==
    /\ tok' \in burn(tok, from, n)
    /\ UNCHANGED <<admin, seq>>

BurnFrom(spender, from, n) ==
    /\ tok' \in burn_from(tok, seq, spender, from, n)
    /\ UNCHANGED <<admin, seq>>

CloseLedger ==
    /\ seq < MaxSeq
    /\ seq' = seq + 1
    /\ UNCHANGED <<tok, admin>>

Next ==
    \/ \E to \in Address, n \in Amounts : Mint(to, n)
    \/ \E new \in Address : SetAdmin(new)
    \/ \E p \in Grants, n \in Amounts, x \in Expirations : Approve(p[1], p[2], n, x)
    \/ \E from, to \in Address, n \in Amounts : Transfer(from, to, n)
    \/ \E spender, from, to \in Address, n \in Amounts :
           TransferFrom(spender, from, to, n)
    \/ \E from \in Address, n \in Amounts : Burn(from, n)
    \/ \E spender, from \in Address, n \in Amounts :
           BurnFrom(spender, from, n)
    \/ CloseLedger

Spec == Init /\ [][Next]_vars

-----------------------------------------------------------------------------
(* The storage is well typed: in particular no balance is negative and     *)
(* none has wrapped past i128::MAX (balance.rs:24-35).                     *)
TypeOK ==
    /\ tok \in Storage
    /\ admin \in Address
    /\ seq \in 1..MaxSeq

(* The host keeps an allowance entry at least as long as the allowance is  *)
(* promised: whatever sequence of approvals and spends wrote it, an entry  *)
(* that still carries an amount outlives its expiration_ledger             *)
(* (allowance.rs:42-48 extends the TTL only when amount > 0).              *)
TtlCoversExpiration == Lasting(tok)

(* What the token promises, with no TTL, no host limit and no storage      *)
(* entries: the grants are the stored amounts with their expiration, and   *)
(* the supply is the sum of the balances.                                  *)
Promise == INSTANCE AssetLedger WITH
    Holder   <- Address,
    Quantity <- {n \in Amounts : n >= 0},
    Deadline <- Expirations,
    wealth   <- tok.bal,
    grant    <- [p \in Pair |-> tok.allow[p].amount],
    until    <- [p \in Pair |-> tok.allow[p].expiration],
    supply   <- Total(tok.bal),
    clock    <- seq

(* The token implements the abstract asset: every invocation is a payment, *)
(* a draw on a live grant, a grant, an issue or a destruction, with the    *)
(* supply conserved by all but the last two (contract.rs:52-188).          *)
ImplementsAsset == Promise!Spec

=============================================================================
