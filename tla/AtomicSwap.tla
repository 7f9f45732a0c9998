------------------------------ MODULE AtomicSwap ------------------------------
(***************************************************************************)
(* The two-party exchange (contracts/atomic-swap).  An offer holds no      *)
(* funds: the swap contract pulls them, when the offer is executed, with   *)
(* the allowances the offerer and the entrant gave it.  There is one such  *)
(* allowance per party and asset, shared by all of the party's offers.     *)
(***************************************************************************)
EXTENDS Sep41, Sequences

CONSTANTS
    Asset,
    Swap,           \* the contract's own address
    OfferTtl,       \* ledgers an approval is asked to last, 5_000_000
    Endowments,     \* asset -> what each address holds at deployment
    OfferAmounts,   \* the amounts an offer may name
    Payments,       \* bound: the amounts of direct transfers
    MaxOffers,      \* bound: offers created
    MaxSeq          \* bound: the last ledger sequence explored

ASSUME SwapAssumption       == Swap \in Address
ASSUME OfferTtlAssumption   == OfferTtl \in Nat
ASSUME EndowmentsAssumption == Endowments \in [Asset -> [Address -> Held]]
ASSUME TermsAssumption      == /\ OfferAmounts \subseteq (-MaxI128 - 1) .. MaxI128
                               /\ Payments \subseteq (-MaxI128 - 1) .. MaxI128
ASSUME BoundsAssumption     == MaxOffers \in Nat /\ MaxSeq \in Nat \ {0}

VARIABLES
    toks,           \* asset -> the asset's storage
    offers,         \* the sequence of offers; the id of the first one is 0
    seq             \* the ledger sequence number

swapVars == <<toks, offers, seq>>

Party == Address \ {Swap}

Offer == [offerer : Party, offer_asset : Asset, offer_amount : Held,
          ask_asset : Asset, ask_amount : Held, active : BOOLEAN]

live == seq + OfferTtl

SwapInit ==
    /\ toks = [a \in Asset |-> [EmptyStorage EXCEPT !.bal = Endowments[a]]]
    /\ offers = <<>>
    /\ seq = 1

ValidTerms(offer_asset, offer_amount, ask_asset, ask_amount) ==
    offer_asset # ask_asset /\ offer_amount > 0 /\ ask_amount > 0

\* mutant: the next id is not advanced
Published_same_id(o) == <<o>>

(* The offer under the next id.                                            *)
Published(o) == Append(offers, o)

\* mutant: the offer is saved as it was
Closed_unchanged(o) == o

Closed(o) == [o EXCEPT !.active = FALSE]

\* authorized by the offerer
CreateOffer(offerer, offer_asset, offer_amount, ask_asset, ask_amount) ==
    /\ ValidTerms(offer_asset, offer_amount, ask_asset, ask_amount)
    /\ \E t \in approve(toks[offer_asset], seq, offerer, Swap, offer_amount, live) :
           toks' = [toks EXCEPT ![offer_asset] = t]
    /\ offers' = Published(
           [offerer |-> offerer, offer_asset |-> offer_asset, offer_amount |-> offer_amount,
            ask_asset |-> ask_asset, ask_amount |-> ask_amount, active |-> TRUE])
    /\ UNCHANGED seq

\* mutant: the entrant pays by a transfer, and its approval stays behind
PayAsk_by_transfer(o, entrant) ==
    UNION {transfer(t, entrant, o.offerer, o.ask_amount) :
               t \in approve(toks[o.ask_asset], seq, entrant, Swap, o.ask_amount, live)}

(* The entrant approves the contract, which pulls the ask to the offerer.  *)
PayAsk(o, entrant) ==
    UNION {transfer_from(t, seq, Swap, entrant, o.offerer, o.ask_amount) :
               t \in approve(toks[o.ask_asset], seq, entrant, Swap, o.ask_amount, live)}

(* The contract pulls the offer to the entrant.                            *)
GiveOffer(o, entrant) ==
    transfer_from(toks[o.offer_asset], seq, Swap, o.offerer, entrant, o.offer_amount)

\* authorized by the entrant; the two assets differ, so their storages do
Execute(entrant, id) ==
    LET o == offers[id] IN
    /\ o.active
    /\ \E paid \in PayAsk(o, entrant), given \in GiveOffer(o, entrant) :
           toks' = [toks EXCEPT ![o.ask_asset] = paid, ![o.offer_asset] = given]
    /\ offers' = [offers EXCEPT ![id] = Closed(o)]
    /\ UNCHANGED seq

CancelOffer(offerer, id) ==
    /\ offers[id].offerer = offerer
    /\ offers[id].active
    /\ offers' = [offers EXCEPT ![id] = Closed(offers[id])]
    /\ UNCHANGED <<toks, seq>>

(* Owners move their tokens whatever they have offered.                    *)
TokenTransfer(asset, from, to, n) ==
    /\ \E t \in transfer(toks[asset], from, to, n) : toks' = [toks EXCEPT ![asset] = t]
    /\ UNCHANGED <<offers, seq>>

CloseLedger ==
    /\ seq < MaxSeq
    /\ seq' = seq + 1
    /\ UNCHANGED <<toks, offers>>

SwapNext ==
    \/ /\ Len(offers) < MaxOffers
       /\ \E offerer \in Party, give, ask \in Asset, m, n \in OfferAmounts :
              CreateOffer(offerer, give, m, ask, n)
    \/ \E entrant \in Party, id \in DOMAIN offers : Execute(entrant, id)
    \/ \E offerer \in Party, id \in DOMAIN offers : CancelOffer(offerer, id)
    \/ \E asset \in Asset, from, to \in Party, n \in Payments :
           TokenTransfer(asset, from, to, n)
    \/ CloseLedger

SwapSpec == SwapInit /\ [][SwapNext]_swapVars

-----------------------------------------------------------------------------
(* Storages and offers are well typed.                                     *)
SwapTypeOK ==
    /\ toks \in [Asset -> Storage]
    /\ offers \in Seq(Offer)
    /\ seq \in 1..MaxSeq

Settled(id) == offers[id].active /\ ~offers'[id].active

(* An offer settles once and on its own terms: it is never changed after   *)
(* it was cancelled or executed, and while active only its flag can change *)
(* (lib.rs:119-171).                                                       *)
OffersAreImmutable ==
    [][ \A id \in DOMAIN offers :
          \/ offers'[id] = offers[id]
          \/ Settled(id) /\ offers'[id] = [offers[id] EXCEPT !.active = FALSE] ]_swapVars

(* No party is worse off in one asset, except by a transfer of its own, or *)
(* against exactly what an offer that settles in the same step promises it *)
(* in the other asset: as the offerer the ask for the offered amount, as   *)
(* the entrant the other way round (lib.rs:114-151).                       *)
LossIsExchanged ==
    [][ \A a \in Asset, p \in Party :
          LET gain(asset) == toks'[asset].bal[p] - toks[asset].bal[p] IN
          gain(a) < 0 =>
            \/ \E to \in Party : TokenTransfer(a, p, to, -gain(a))
            \/ \E id \in DOMAIN offers :
                 LET o == offers[id] IN
                 /\ Settled(id)
                 /\ \/ /\ p = o.offerer
                       /\ a = o.offer_asset /\ gain(a) = -o.offer_amount
                       /\ gain(o.ask_asset) = o.ask_amount
                    \/ /\ p # o.offerer
                       /\ a = o.ask_asset /\ gain(a) = -o.ask_amount
                       /\ gain(o.offer_asset) = o.offer_amount ]_swapVars

(* The contract never comes to hold what it exchanges, and never keeps an  *)
(* allowance beyond what its parties published: its allowance on a party's *)
(* asset is at most one of the amounts the party offered.                  *)
PullsAreOffered ==
    \A a \in Asset, p \in Party :
        LET pull == toks[a].allow[<<p, Swap>>].amount IN
        /\ toks[a].bal[Swap] = Endowments[a][Swap]
        /\ pull > 0 => \E id \in DOMAIN offers :
               /\ offers[id].offerer = p
               /\ offers[id].offer_asset = a
               /\ pull <= offers[id].offer_amount

(* What create_offer promises (lib.rs:75-76): the contract can pull the    *)
(* offered amount at execution, if the offerer still holds it.             *)
OfferIsBacked ==
    \A id \in DOMAIN offers :
        LET o == offers[id] IN
        /\ o.active
        /\ toks[o.offer_asset].bal[o.offerer] >= o.offer_amount
        => read_allowance(toks[o.offer_asset], seq, <<o.offerer, Swap>>).amount
               >= o.offer_amount

=============================================================================
