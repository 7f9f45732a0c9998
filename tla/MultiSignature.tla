---------------------------- MODULE MultiSignature ----------------------------
(***************************************************************************)
(* M-of-N approval of named proposals (contracts/multi-signature).  What a *)
(* proposal means is not the contract's: executing one is recording it.    *)
(***************************************************************************)
EXTENDS Integers, FiniteSets

CONSTANTS
    Person,
    Proposal,
    Thresholds      \* what the constructor may be given

VARIABLES
    config,         \* "signers" and "threshold" of the instance storage
    approvals,      \* proposal -> who approved it
    executed        \* the proposals recorded as executed

vars == <<config, approvals, executed>>

(* The signers are the keys of a map, so that equal ones count as one; the *)
(* threshold is not checked.                                               *)
Init ==
    /\ \E signer1, signer2, signer3 \in Person, threshold \in Thresholds :
           config = [signers |-> {signer1, signer2, signer3}, threshold |-> threshold]
    /\ approvals = [p \in Proposal |-> {}]
    /\ executed = {}

\* authorized by the signer; approving again changes nothing
Approve(signer, proposal) ==
    /\ signer \in config.signers
    /\ approvals' = [approvals EXCEPT ![proposal] = @ \cup {signer}]
    /\ UNCHANGED <<config, executed>>

\* mutant: the approvals of all proposals are counted together
is_approved_together(proposal) ==
    Cardinality(UNION {approvals[p] : p \in Proposal}) >= config.threshold

is_approved(proposal) == Cardinality(approvals[proposal]) >= config.threshold

\* anyone may call it, again too; not approved, it answers false
Execute(proposal) ==
    /\ is_approved(proposal)
    /\ executed' = executed \cup {proposal}
    /\ UNCHANGED <<config, approvals>>

Next ==
    \/ \E p \in Person, proposal \in Proposal : Approve(p, proposal)
    \/ \E proposal \in Proposal : Execute(proposal)

-----------------------------------------------------------------------------
(* Configuration and records are well typed.                               *)
TypeOK ==
    /\ config \in [signers : SUBSET Person, threshold : Nat]
    /\ approvals \in [Proposal -> SUBSET Person]
    /\ executed \subseteq Proposal

(* Whatever has been executed has, at every later time too, as many        *)
(* different signers behind that very proposal as the threshold asks; with *)
(* a threshold above the signers that differ nothing ever executes         *)
(* (lib.rs:85-120).                                                        *)
ExecutedByQuorum ==
    \A proposal \in executed :
        \E quorum \in SUBSET config.signers :
            /\ quorum \subseteq approvals[proposal]
            /\ Cardinality(quorum) >= config.threshold

=============================================================================
