------------------------------ MODULE Crowdfund ------------------------------
(***************************************************************************)
(* Funding campaigns with a goal and a deadline (contracts/crowdfund).  The*)
(* contract keeps the funds of every campaign in one balance per asset; a  *)
(* campaign's own record says what part of it is whose.                    *)
(***************************************************************************)
EXTENDS Sep41, Sequences

CONSTANTS
    Asset,
    Fund,           \* the contract's own address
    SafeTtl,        \* SAFE_ALLOWANCE_TTL
    Endowment,      \* asset -> what each address holds at deployment
    Amounts,        \* the amounts a contribution may carry
    Goals,          \* the goals a campaign may name
    Deadlines,      \* the timestamps a campaign may name
    Expirations,    \* how far ahead of the ledger a contribution's expiration is
    MaxCampaigns,   \* bound: campaigns created
    MaxTime         \* bound: the last ledger explored

ASSUME FundAssumption      == Fund \in Address
ASSUME SafeTtlAssumption   == SafeTtl \in Nat
ASSUME EndowmentAssumption == /\ Endowment \in [Asset -> [Address -> Held]]
                              /\ \A a \in Asset : Endowment[a][Fund] = 0
ASSUME AmountsAssumption   == /\ Amounts \subseteq (-MaxI128 - 1) .. MaxI128
                              /\ Goals \subseteq (-MaxI128 - 1) .. MaxI128
ASSUME TimesAssumption     == Deadlines \subseteq Nat /\ Expirations \subseteq Int
ASSUME BoundsAssumption    == MaxCampaigns \in Nat /\ MaxTime \in Nat \ {0}

VARIABLES
    toks,           \* asset -> the asset's storage
    campaigns,      \* the sequence of campaigns; the id of the first one is 0
    now             \* the ledger: its timestamp, and its sequence number

vars == <<toks, campaigns, now>>

Person == Address \ {Fund}

Campaign == [owner : Person, asset : Asset, goal : 1..MaxI128, deadline : Nat,
             total : Held, withdrawn : BOOLEAN, contributions : [Person -> Held]]

NewCampaign(owner, asset, goal, deadline) ==
    [owner |-> owner, asset |-> asset, goal |-> goal, deadline |-> deadline,
     total |-> 0, withdrawn |-> FALSE, contributions |-> [p \in Person |-> 0]]

(* The ledger's close times grow with its sequence number; counting both   *)
(* with one clock loses only how many seconds a ledger takes.              *)
check_expiration(x) == x > now /\ x - now <= SafeTtl

\* mutant: the deadline is ignored
IsOpen_always(c) == TRUE

IsOpen(c)       == now < c.deadline
Ended(c)        == now >= c.deadline
goal_reached(c) == c.total >= c.goal

Init ==
    /\ toks = [a \in Asset |-> [EmptyStorage EXCEPT !.bal = Endowment[a]]]
    /\ campaigns = <<>>
    /\ now = 1

\* mutant: the goal is not checked
CreateCampaign_unchecked(owner, asset, goal, deadline) ==
    /\ campaigns' = Append(campaigns, NewCampaign(owner, asset, goal, deadline))
    /\ UNCHANGED <<toks, now>>

\* authorized by the owner
CreateCampaign(owner, asset, goal, deadline) ==
    /\ goal > 0
    /\ campaigns' = Append(campaigns, NewCampaign(owner, asset, goal, deadline))
    /\ UNCHANGED <<toks, now>>

\* mutant: the funds come by a transfer, and the approval stays behind
Pulled_by_transfer(t, contributor, n, x) ==
    UNION {transfer(u, contributor, Fund, n) :
               u \in approve(t, now, contributor, Fund, n, x)}

(* The contributor approves the contract, which pulls the contribution.    *)
Pulled(t, contributor, n, x) ==
    UNION {transfer_from(u, now, Fund, contributor, Fund, n) :
               u \in approve(t, now, contributor, Fund, n, x)}

Contributed(c, contributor, n) ==
    LET so_far == c.contributions[contributor] IN
    [c EXCEPT !.contributions[contributor] = so_far + n, !.total = @ + n]

\* authorized by the contributor
Contribute(id, contributor, n, x) ==
    LET c == campaigns[id] IN
    /\ n > 0
    /\ check_expiration(x)
    /\ IsOpen(c)
    /\ c.contributions[contributor] + n <= MaxI128 /\ c.total + n <= MaxI128
    /\ \E t \in Pulled(toks[c.asset], contributor, n, x) : toks' = [toks EXCEPT ![c.asset] = t]
    /\ campaigns' = [campaigns EXCEPT ![id] = Contributed(c, contributor, n)]
    /\ UNCHANGED now

\* mutants: a campaign can be withdrawn again; a goal that is exactly met does
\* not count
Withdrawable_again(c, owner)    == owner = c.owner /\ Ended(c) /\ goal_reached(c)
Withdrawable_exceeded(c, owner) ==
    owner = c.owner /\ Ended(c) /\ c.total > c.goal /\ ~c.withdrawn

Withdrawable(c, owner) ==
    owner = c.owner /\ Ended(c) /\ goal_reached(c) /\ ~c.withdrawn

\* authorized by the owner
Withdraw(id, owner) ==
    LET c == campaigns[id] IN
    /\ Withdrawable(c, owner)
    /\ \E t \in transfer(toks[c.asset], Fund, owner, c.total) :
           toks' = [toks EXCEPT ![c.asset] = t]
    /\ campaigns' = [campaigns EXCEPT ![id].withdrawn = TRUE]
    /\ UNCHANGED now

\* mutant: the refunded contribution stays recorded
Refunded_unrecorded(c, contributor) == c

Refunded(c, contributor) == [c EXCEPT !.contributions[contributor] = 0]

\* authorized by the contributor
ClaimRefund(id, contributor) ==
    LET c == campaigns[id]
        amount == c.contributions[contributor]
    IN
    /\ Ended(c)
    /\ ~goal_reached(c)
    /\ amount # 0
    /\ \E t \in transfer(toks[c.asset], Fund, contributor, amount) :
           toks' = [toks EXCEPT ![c.asset] = t]
    /\ campaigns' = [campaigns EXCEPT ![id] = Refunded(c, contributor)]
    /\ UNCHANGED now

CloseLedger ==
    /\ now < MaxTime
    /\ now' = now + 1
    /\ UNCHANGED <<toks, campaigns>>

Next ==
    \/ /\ Len(campaigns) < MaxCampaigns
       /\ \E owner \in Person, asset \in Asset, goal \in Goals, deadline \in Deadlines :
              CreateCampaign(owner, asset, goal, deadline)
    \/ \E id \in DOMAIN campaigns, p \in Person, n \in Amounts, ahead \in Expirations :
           Contribute(id, p, n, now + ahead)
    \/ \E id \in DOMAIN campaigns, p \in Person : Withdraw(id, p) \/ ClaimRefund(id, p)
    \/ CloseLedger

Spec == Init /\ [][Next]_vars

(* Ledgers keep closing, and everyone who is owed something keeps asking   *)
(* for it.  Nobody has to contribute.                                      *)
Fairness ==
    /\ WF_vars(CloseLedger)
    /\ \A id \in 1..MaxCampaigns, p \in Person :
           WF_vars(id \in DOMAIN campaigns /\ (Withdraw(id, p) \/ ClaimRefund(id, p)))

FairSpec == Spec /\ Fairness

-----------------------------------------------------------------------------
(* Storages and campaigns are well typed.                                  *)
TypeOK ==
    /\ toks \in [Asset -> Storage]
    /\ campaigns \in Seq(Campaign)
    /\ now \in 1..MaxTime

(* What a campaign's record still owes.                                    *)
Owed(c) == IF c.withdrawn THEN 0 ELSE Total(c.contributions)

(* The campaigns of an asset: what each owes, what a person has in each,   *)
(* and what the person withdrew from each.                                 *)
InAsset(a)        == {id \in DOMAIN campaigns : campaigns[id].asset = a}
OwedIn(a)         == [id \in InAsset(a) |-> Owed(campaigns[id])]
GivenBy(a, p)     == [id \in InAsset(a) |-> campaigns[id].contributions[p]]
WithdrawnBy(a, p) ==
    [id \in InAsset(a) |-> IF campaigns[id].withdrawn /\ campaigns[id].owner = p
                           THEN campaigns[id].total ELSE 0]

(* The pooled balance is the campaigns' obligations, to the unit: no       *)
(* campaign is paid from another one's funds, and nothing is stranded      *)
(* (lib.rs:127-207).                                                       *)
HoldingsAreOwed == \A a \in Asset : toks[a].bal[Fund] = Total(OwedIn(a))

(* Everyone is whole: what a person holds and what the campaigns took from *)
(* it is what it started with and what it withdrew as an owner.  A refund  *)
(* gives back exactly the contribution, once, and none after a withdrawal  *)
(* (lib.rs:127-207).                                                       *)
EveryoneIsWhole ==
    \A a \in Asset, p \in Person :
        toks[a].bal[p] + Total(GivenBy(a, p)) = Endowment[a][p] + Total(WithdrawnBy(a, p))

(* The contract's right to pull is used up by the call that obtained it.   *)
NoStandingApproval ==
    \A a \in Asset, p \in Person : toks[a].allow[<<p, Fund>>].amount = 0

(* The outcome of a campaign is settled at its deadline: what refunds and  *)
(* withdrawals do never turns a failure into a success or back.            *)
OutcomeIsFinal ==
    [][ \A id \in DOMAIN campaigns :
          Ended(campaigns[id]) =>
              /\ Ended(campaigns[id])'
              /\ goal_reached(campaigns'[id]) = goal_reached(campaigns[id])
              /\ campaigns[id].withdrawn => campaigns'[id].withdrawn ]_vars

(* No campaign keeps funds for ever: each ends up withdrawn, or refunded   *)
(* to its last contributor (lib.rs:13-15).                                 *)
EventuallyResolved ==
    \A id \in 1..MaxCampaigns :
        <>[](id \in DOMAIN campaigns => Owed(campaigns[id]) = 0)

=============================================================================
