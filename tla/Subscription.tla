----------------------------- MODULE Subscription -----------------------------
(***************************************************************************)
(* A recurring payment (contracts/subscription).  The subscriber itself    *)
(* submits the charges.  A charge advances the schedule by one interval    *)
(* from where it was, so charges that were missed can be made up later.    *)
(***************************************************************************)
EXTENDS Sep41

CONSTANTS
    Person,             \* the addresses that can authorize a call
    Subscriber, Merchant,
    Prices, Intervals   \* what the constructor may be given

VARIABLES
    tok,                \* the asset's storage
    now,                \* the ledger's timestamp
    plan,               \* "amount" and "interval" of the instance storage
    next_charge,
    active

vars == <<tok, now, plan, next_charge, active>>

Plan == [amount : (-MaxI128 - 1) .. MaxI128, interval : Nat]

(* The constructor; neither the amount nor the interval is checked.        *)
Init ==
    /\ plan \in [amount : Prices, interval : Intervals]
    /\ next_charge = now + plan.interval
    /\ active = TRUE

\* mutant: the charge is paid and the schedule stays
Charge_unadvanced(subscriber) ==
    /\ active
    /\ subscriber = Subscriber
    /\ now >= next_charge
    /\ tok' \in transfer(tok, subscriber, Merchant, plan.amount)
    /\ UNCHANGED <<now, plan, next_charge, active>>

\* authorized by the subscriber; inactive or early, it answers false
Charge(subscriber) ==
    /\ active
    /\ subscriber = Subscriber
    /\ now >= next_charge
    /\ tok' \in transfer(tok, subscriber, Merchant, plan.amount)
    /\ next_charge' = next_charge + plan.interval
    /\ UNCHANGED <<now, plan, active>>

\* authorized by the subscriber; inactive, it answers false
Cancel(subscriber) ==
    /\ active
    /\ subscriber = Subscriber
    /\ active' = FALSE
    /\ UNCHANGED <<tok, now, plan, next_charge>>

Next == \E p \in Person : Charge(p) \/ Cancel(p)

-----------------------------------------------------------------------------
(* The plan and the schedule are well typed.                               *)
TypeOK == plan \in Plan /\ next_charge \in Nat /\ active \in BOOLEAN

(* One period that has begun is paid for, to the unit, and used up.        *)
PeriodIsPaid ==
    /\ active /\ now >= next_charge
    /\ next_charge' = next_charge + plan.interval
    /\ tok'.bal = [tok.bal EXCEPT ![Subscriber] = @ - plan.amount,
                                  ![Merchant] = @ + plan.amount]

(* The subscription moves money only to pay for one period of an active    *)
(* plan, and the schedule only with that money, so that no period is paid  *)
(* twice or skipped unpaid, however many are made up at once.  The schedule*)
(* never runs more than one interval ahead, which bounds the payments by   *)
(* the periods begun, and what was not charged before the cancellation     *)
(* never is (lib.rs:118-150).                                              *)
ChargesFollowPlan ==
    [][ /\ (Next /\ tok' # tok) \/ next_charge' # next_charge => PeriodIsPaid
        /\ next_charge' <= now' + plan.interval
        /\ ~active => ~active' ]_vars

=============================================================================
