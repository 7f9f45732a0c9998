----------------------------- MODULE MerkleAirdrop -----------------------------
(***************************************************************************)
(* Allocations paid against proofs that they are under a Merkle root, which*)
(* the admin can replace (contracts/merkle-airdrop).                       *)
(*                                                                         *)
(* SHA-256 is an injective constructor: a leaf stands for the allocation it*)
(* commits to, a node for the unordered pair of its children (the pair is  *)
(* sorted before it is hashed).  A leaf is hashed from at least 93 bytes   *)
(* and a node from 64, so neither is ever the other.  A proof whose length *)
(* is not a multiple of a hash's verifies nothing and is left out.         *)
(***************************************************************************)
EXTENDS Sep41, Sequences

CONSTANTS
    Person,         \* the addresses that can authorize a call
    Vault,          \* the contract's own address
    Admin,
    Lists,          \* the lists of allocations the admin may commit to
    Amounts,        \* the amounts a call may carry
    Indices,        \* the indices a claim may name
    ProofLength     \* bound: siblings in a proof

VARIABLES
    tok,            \* the asset's storage
    root,
    claimed         \* the indices of the claimed map

vars == <<tok, root, claimed>>

-----------------------------------------------------------------------------
(* Hashes, trees and proofs *)

\* mutant: the claimant is not part of the commitment
leaf_hash_unbound(index, claimant, amount) ==
    [kind |-> "leaf", index |-> index, amount |-> amount]

leaf_hash(index, claimant, amount) ==
    [kind |-> "leaf", index |-> index, claimant |-> claimant, amount |-> amount]

\* mutant: the pair is not sorted
combine_unsorted(a, b) == [kind |-> "node", children |-> <<a, b>>]

combine(a, b) == [kind |-> "node", children |-> {a, b}]

verify_proof(leaf, proof, top) ==
    LET computed[i \in 0..Len(proof)] ==
            IF i = 0 THEN leaf ELSE combine(computed[i - 1], proof[i])
    IN  computed[Len(proof)] = top

(* The tree over a list: neighbours are combined level by level, the odd   *)
(* one out with itself.                                                    *)
NextLevel(s) ==
    IF Len(s) = 1 THEN s
    ELSE [j \in 1 .. (Len(s) + 1) \div 2 |->
             combine(s[2 * j - 1], IF 2 * j <= Len(s) THEN s[2 * j] ELSE s[2 * j - 1])]

Levels(list) ==
    LET level[k \in 0..Len(list)] ==
            IF k = 0 THEN [j \in DOMAIN list |->
                              leaf_hash(list[j].index, list[j].claimant, list[j].amount)]
            ELSE NextLevel(level[k - 1])
    IN  level

Commitment(list) == Levels(list)[Len(list)][1]

KnownHashes ==
    UNION {UNION {{Levels(list)[k][j] : j \in DOMAIN Levels(list)[k]} : k \in DOMAIN Levels(list)} :
              list \in Lists}

Proofs == UNION {[1..n -> KnownHashes] : n \in 0..ProofLength}

(* Any bytes can be set as the root.                                       *)
OtherBytes == [kind |-> "other"]
Roots      == {Commitment(list) : list \in Lists} \cup {OtherBytes}

-----------------------------------------------------------------------------
Init ==
    /\ root \in Roots
    /\ claimed = {}

\* authorized by the admin
Deposit(n) ==
    /\ n > 0
    /\ tok' \in transfer(tok, Admin, Vault, n)
    /\ UNCHANGED <<root, claimed>>

\* authorized by the claimant
Claim(index, claimant, n, proof) ==
    /\ n > 0
    /\ index \notin claimed
    /\ verify_proof(leaf_hash(index, claimant, n), proof, root)
    /\ tok' \in transfer(tok, Vault, claimant, n)
    /\ claimed' = claimed \cup {index}
    /\ UNCHANGED root

\* mutant: a new root starts with nothing claimed
UpdateRoot_reset(new_root) ==
    /\ root' = new_root
    /\ claimed' = {}
    /\ UNCHANGED tok

\* authorized by the admin
UpdateRoot(new_root) ==
    /\ root' = new_root
    /\ UNCHANGED <<tok, claimed>>

Next ==
    \/ \E n \in Amounts : Deposit(n)
    \/ \E index \in Indices, claimant \in Person, n \in Amounts, proof \in Proofs :
           Claim(index, claimant, n, proof)
    \/ \E new_root \in Roots : UpdateRoot(new_root)

-----------------------------------------------------------------------------
(* The root is one that was given, and indices were claimed.               *)
TypeOK == root \in Roots /\ claimed \subseteq Indices

(* Under all roots together, each index is paid at most once: whatever     *)
(* leaves the contract uses up an index, and no index is ever freed, by a  *)
(* new root neither (lib.rs:164-199).                                      *)
EachIndexPaysOnce ==
    [][ /\ claimed \subseteq claimed'
        /\ tok'.bal[Vault] < tok.bal[Vault] => claimed' # claimed ]_vars

(* Whatever is paid is on the list the current root commits to: no proof   *)
(* put together from any known hashes, of this list or another one, has an *)
(* allocation of someone else's making accepted (lib.rs:62-103).           *)
PayoutsAreListed ==
    [][ tok'.bal[Vault] < tok.bal[Vault] =>
            \E list \in Lists : \E k \in DOMAIN list :
                /\ Commitment(list) = root
                /\ claimed' = claimed \cup {list[k].index}
                /\ tok' \in transfer(tok, Vault, list[k].claimant, list[k].amount) ]_vars

(* Everyone on the current list has a proof: a positive allocation the     *)
(* contract holds enough for is paid, unless its index was used.           *)
ListedCanClaim ==
    \A list \in Lists : \A k \in DOMAIN list :
        LET entry == list[k] IN
        (/\ Commitment(list) = root
         /\ entry.index \notin claimed
         /\ entry.amount \in 1..tok.bal[Vault]) =>
            \E proof \in Proofs :
                /\ verify_proof(leaf_hash(entry.index, entry.claimant, entry.amount), proof, root)
                /\ transfer(tok, Vault, entry.claimant, entry.amount) # Panic

=============================================================================
