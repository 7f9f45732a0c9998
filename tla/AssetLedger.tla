----------------------------- MODULE AssetLedger -----------------------------
(***************************************************************************)
(* What a SEP-41 asset promises its holders, apart from how it is stored.  *)
(* Wealth moves between holders; only issuing and destroying change the    *)
(* supply.  A holder loses wealth by its own payment or destruction, or    *)
(* through a grant: an amount another holder may draw until a ledger.      *)
(***************************************************************************)
EXTENDS Integers

CONSTANTS
    Holder,
    Quantity,       \* amounts that can move, naturals
    Deadline        \* ledgers a grant can end at

VARIABLES
    wealth,         \* what each holder owns
    grant,          \* <<owner, spender>> -> amount the spender may still draw
    until,          \* <<owner, spender>> -> last ledger the grant holds
    supply,         \* the tokens in existence
    clock           \* the ledger sequence number

vars == <<wealth, grant, until, supply, clock>>

Pairs == Holder \X Holder

Init ==
    /\ wealth = [h \in Holder |-> 0]
    /\ grant = [p \in Pairs |-> 0]
    /\ until = [p \in Pairs |-> 0]
    /\ supply = 0
    /\ clock = 1

Drawable(p) == IF until[p] < clock THEN 0 ELSE grant[p]

(* Paying oneself changes nothing. *)
Moved(from, to, n) ==
    IF from = to THEN wealth
    ELSE [wealth EXCEPT ![from] = @ - n, ![to] = @ + n]

(* A draw of nothing needs no grant and leaves it as it is. *)
Draw(p, n) ==
    /\ n <= Drawable(p)
    /\ grant' = IF n = 0 THEN grant ELSE [grant EXCEPT ![p] = @ - n]
    /\ until' = until

Pay(from, to, n) ==
    /\ n <= wealth[from]
    /\ wealth' = Moved(from, to, n)
    /\ UNCHANGED <<grant, until, supply, clock>>

PayFromGrant(spender, from, to, n) ==
    /\ n <= wealth[from]
    /\ Draw(<<from, spender>>, n)
    /\ wealth' = Moved(from, to, n)
    /\ UNCHANGED <<supply, clock>>

(* A grant that is worth something ends now or later; a grant of nothing,  *)
(* a revocation, may carry any deadline.                                   *)
Grant(p, n, last) ==
    /\ n > 0 => last >= clock
    /\ grant' = [grant EXCEPT ![p] = n]
    /\ until' = [until EXCEPT ![p] = last]
    /\ UNCHANGED <<wealth, supply, clock>>

Issue(to, n) ==
    /\ wealth' = [wealth EXCEPT ![to] = @ + n]
    /\ supply' = supply + n
    /\ UNCHANGED <<grant, until, clock>>

Destroy(from, n) ==
    /\ n <= wealth[from]
    /\ wealth' = [wealth EXCEPT ![from] = @ - n]
    /\ supply' = supply - n
    /\ UNCHANGED <<grant, until, clock>>

DestroyFromGrant(spender, from, n) ==
    /\ n <= wealth[from]
    /\ Draw(<<from, spender>>, n)
    /\ wealth' = [wealth EXCEPT ![from] = @ - n]
    /\ supply' = supply - n
    /\ UNCHANGED clock

Tick ==
    /\ clock' = clock + 1
    /\ UNCHANGED <<wealth, grant, until, supply>>

Next ==
    \/ \E from, to \in Holder, n \in Quantity : Pay(from, to, n)
    \/ \E spender, from, to \in Holder, n \in Quantity : PayFromGrant(spender, from, to, n)
    \/ \E p \in Pairs, n \in Quantity, last \in Deadline : Grant(p, n, last)
    \/ \E to \in Holder, n \in Quantity : Issue(to, n)
    \/ \E from \in Holder, n \in Quantity : Destroy(from, n)
    \/ \E spender, from \in Holder, n \in Quantity : DestroyFromGrant(spender, from, n)
    \/ Tick

Spec == Init /\ [][Next]_vars

=============================================================================
