------------------------------- MODULE Custody -------------------------------
(***************************************************************************)
(* What a contract that holds assets for others promises.  Each deal takes *)
(* in some of one asset and names who it can be paid to; it is settled at  *)
(* most once, whole, to one of them.  The keeper's holdings move for no    *)
(* other reason, however many deals share them.                            *)
(***************************************************************************)
EXTENDS Totals

CONSTANTS
    Holder,
    Keeper,         \* the contract
    Asset,
    Deal,           \* names of deals
    Quantity        \* amounts that can move, naturals

(* What the constants have to be for the properties below to hold.         *)
WellGiven == Keeper \in Holder /\ IsFiniteSet(Deal) /\ Quantity \subseteq Nat

VARIABLES
    wealth,         \* asset -> what each holder owns of it
    owed,           \* asset -> what the keeper holds of it for each deal
    payees,         \* deal -> whom it can be paid to
    phase           \* deal -> "unused", "open" or "settled"

vars == <<wealth, owed, payees, phase>>

Init ==
    /\ wealth \in [Asset -> [Holder -> Nat]]
    /\ owed = [a \in Asset |-> [d \in Deal |-> 0]]
    /\ payees = [d \in Deal |-> {}]
    /\ phase = [d \in Deal |-> "unused"]

(* Paying oneself changes nothing. *)
Move(a, from, to, n) ==
    /\ n <= wealth[a][from]
    /\ wealth' = IF from = to THEN wealth
                 ELSE [wealth EXCEPT ![a][from] = @ - n, ![a][to] = @ + n]

(* Anybody but the keeper moves what it owns, to the keeper too: a gift to *)
(* the keeper belongs to no deal.                                          *)
Pay(a, from, to, n) ==
    /\ from # Keeper
    /\ Move(a, from, to, n)
    /\ UNCHANGED <<owed, payees, phase>>

Open(a, d, from, n, ps) ==
    /\ phase[d] = "unused"
    /\ from # Keeper
    /\ Move(a, from, Keeper, n)
    /\ owed' = [owed EXCEPT ![a][d] = n]
    /\ payees' = [payees EXCEPT ![d] = ps]
    /\ phase' = [phase EXCEPT ![d] = "open"]

Raise(a, d, from, n) ==
    /\ phase[d] = "open"
    /\ from # Keeper
    /\ Move(a, from, Keeper, n)
    /\ owed' = [owed EXCEPT ![a][d] = @ + n]
    /\ UNCHANGED <<payees, phase>>

Settle(a, d, to) ==
    /\ phase[d] = "open"
    /\ to \in payees[d]
    /\ \A b \in Asset \ {a} : owed[b][d] = 0
    /\ Move(a, Keeper, to, owed[a][d])
    /\ owed' = [owed EXCEPT ![a][d] = 0]
    /\ phase' = [phase EXCEPT ![d] = "settled"]
    /\ UNCHANGED payees

Next ==
    \/ \E a \in Asset, from, to \in Holder, n \in Quantity : Pay(a, from, to, n)
    \/ \E a \in Asset, d \in Deal, from \in Holder, n \in Quantity, ps \in SUBSET Holder :
           Open(a, d, from, n, ps)
    \/ \E a \in Asset, d \in Deal, from \in Holder, n \in Quantity : Raise(a, d, from, n)
    \/ \E a \in Asset, d \in Deal, to \in Holder : Settle(a, d, to)

Spec == Init /\ [][Next]_vars

-----------------------------------------------------------------------------
TypeOK ==
    /\ wealth \in [Asset -> [Holder -> Nat]]
    /\ owed \in [Asset -> [Deal -> Nat]]
    /\ payees \in [Deal -> SUBSET Holder]
    /\ phase \in [Deal -> {"unused", "open", "settled"}]

(* A deal that is not open is owed nothing, and what the keeper holds      *)
(* covers what it owes to all open deals together.                         *)
Backed ==
    /\ \A a \in Asset, d \in Deal : phase[d] # "open" => owed[a][d] = 0
    /\ \A a \in Asset : Total(owed[a]) <= wealth[a][Keeper]

=============================================================================
