---------------------------- MODULE CatalogProofs ----------------------------
(***************************************************************************)
(* The small contracts keep what they promise in every deployment, for     *)
(* every set of people, assets' limits, schedules, lists and keys.         *)
(***************************************************************************)
EXTENDS Catalog, Sep41Proofs, WellFoundedInduction

(* The contracts call one and the same token.                              *)
LEMMA SameTransfer ==
    ASSUME NEW t, NEW from, NEW to, NEW n
    PROVE  /\ E!transfer(t, from, to, n) = transfer(t, from, to, n)
           /\ V!transfer(t, from, to, n) = transfer(t, from, to, n)
           /\ S!transfer(t, from, to, n) = transfer(t, from, to, n)
           /\ A!transfer(t, from, to, n) = transfer(t, from, to, n)
<1>1. E!transfer(t, from, to, n) = transfer(t, from, to, n)
  BY DEF transfer, check_nonnegative_amount, receive_balance, spend_balance, Outcome, Panic,
         E!transfer, E!check_nonnegative_amount, E!receive_balance, E!spend_balance,
         E!Outcome, E!Panic
<1>2. V!transfer(t, from, to, n) = transfer(t, from, to, n)
  BY DEF transfer, check_nonnegative_amount, receive_balance, spend_balance, Outcome, Panic,
         V!transfer, V!check_nonnegative_amount, V!receive_balance, V!spend_balance,
         V!Outcome, V!Panic
<1>3. S!transfer(t, from, to, n) = transfer(t, from, to, n)
  BY DEF transfer, check_nonnegative_amount, receive_balance, spend_balance, Outcome, Panic,
         S!transfer, S!check_nonnegative_amount, S!receive_balance, S!spend_balance,
         S!Outcome, S!Panic
<1>4. A!transfer(t, from, to, n) = transfer(t, from, to, n)
  BY DEF transfer, check_nonnegative_amount, receive_balance, spend_balance, Outcome, Panic,
         A!transfer, A!check_nonnegative_amount, A!receive_balance, A!spend_balance,
         A!Outcome, A!Panic
<1>. QED  BY <1>1, <1>2, <1>3, <1>4

(* Every step is one contract's own or leaves that contract's storage.     *)
LEMMA Frames ==
    ASSUME [Next]_vars
    PROVE  /\ UNCHANGED deployed
           /\ VestingStep \/ UNCHANGED vesting
           /\ SubscriptionStep \/ UNCHANGED subscription
           /\ AirdropStep \/ UNCHANGED airdrop
           /\ OracleStep \/ UNCHANGED oracle
           /\ MultiSignatureStep \/ UNCHANGED multisignature
           /\ AccessControlStep \/ UNCHANGED access
           /\ TestAssetStep \/ UNCHANGED coins
           /\ EscrowStep \/ UNCHANGED escrow
           /\ CloseLedger \/ UNCHANGED now
BY DEF Next, vars, custodians, decisions, escrow, vesting, subscription, airdrop, oracle,
       multisignature, access, EscrowStep, VestingStep, SubscriptionStep, PaymentStep,
       AirdropStep, OracleStep, MultiSignatureStep, AccessControlStep, TestAssetStep,
       CloseLedger, V!Next, V!Deposit, V!Claim, S!Next, S!Charge, S!Cancel

(* A transfer changes the balances of its two parties, and takes only from *)
(* the payer.                                                              *)
LEMMA TransferMoves ==
    ASSUME NEW t \in Storage, NEW from \in Address, NEW to \in Address, NEW n \in Int,
           NEW u \in transfer(t, from, to, n)
    PROVE  /\ n \in Nat /\ n <= t.bal[from] /\ n <= MaxI128
           /\ u \in Storage
           /\ \A a \in Address : t.bal[a] \in Nat /\ u.bal[a] \in Nat
           /\ \A a \in Address : a # from => u.bal[a] >= t.bal[a]
           /\ \A a \in Address : a = from => u.bal[a] >= t.bal[a] - n
<1>1. /\ n \in Nat
      /\ u \in Storage
      /\ u.allow = t.allow
      /\ n <= t.bal[from]
      /\ Total(u.bal) = Total(t.bal)
  BY TransferOutcome
<1>2. /\ from = to => u.bal = t.bal
      /\ from # to => u.bal = [t.bal EXCEPT ![from] = @ - n, ![to] = @ + n]
  BY TransferBalances
<1>3. /\ t.bal \in [Address -> 0..MaxI128]
      /\ u.bal \in [Address -> 0..MaxI128]
  BY <1>1 DEF Storage, Held
<1>4. \A a \in Address : t.bal[a] \in Nat /\ u.bal[a] \in Nat /\ t.bal[a] <= MaxI128
  BY <1>3, WidthAssumption
<1>. QED  BY <1>1, <1>2, <1>3, <1>4, WidthAssumption

(* What is claimable of a grant is a number.                               *)
LEMMA ClaimableType ==
    ASSUME TypeOK
    PROVE  V!claimable \subseteq Int
<1>1. /\ grant.total \in Int /\ grant.start \in Nat /\ grant.cliff \in Nat
      /\ grant.end \in Nat /\ grant.start < grant.end
      /\ released \in Nat /\ now \in Nat
  BY WidthAssumption, BoundsAssumption DEF TypeOK, V!TypeOK, V!Grant, V!I128, V!Held
<1>2. \A a \in Int, b \in Nat \ {0} : V!Quotient(a, b) \in Int
  BY DEF V!Quotient
<1>3. grant.end - grant.start \in Nat \ {0}
  BY <1>1
<1>4. grant.total * (now - grant.start) \in Int
  BY <1>1
<1>5. V!Quotient(grant.total * (now - grant.start), grant.end - grant.start) \in Int
  BY <1>2, <1>3, <1>4
<1>. QED  BY <1>1, <1>5 DEF V!claimable, V!Panic

(* The asset moves from a person, or from a contract by its own step.      *)
LEMMA Movements ==
    ASSUME TypeOK, [Next]_vars
    PROVE  \/ UNCHANGED tok
           \/ \E from \in Person, to \in Address, n \in Int : tok' \in transfer(tok, from, to, n)
           \/ EscrowStep /\ \E to \in Address : tok' \in transfer(tok, EscrowVault, to, held)
           \/ /\ VestingStep
              /\ \E n \in V!claimable : /\ tok' \in transfer(tok, VestingVault, Beneficiary, n)
                                        /\ released' = released + n
           \/ /\ AirdropStep
              /\ \E to \in Person, n \in Int, index \in Indices :
                     /\ tok' \in transfer(tok, AirdropVault, to, n)
                     /\ index \notin claimed
                     /\ claimed' = claimed \cup {index}
<1>0. /\ Amounts \subseteq Int
      /\ plan.amount \in Int
      /\ Person \subseteq Address
      /\ {EscrowVault, VestingVault, AirdropVault} \subseteq Address
      /\ {Depositor, Beneficiary, Subscriber, Admin} \subseteq Person
      /\ {EscrowBeneficiary, Arbiter, Merchant} \subseteq Address
  BY PartiesAssumption, AmountsAssumption, WidthAssumption DEF TypeOK, S!TypeOK, S!Plan
<1>1. CASE UNCHANGED tok
  BY <1>1
<1>2. CASE EscrowStep
  <2>1. ASSUME NEW p \in Person, NEW n \in Amounts, E!Deposit(p, n)
        PROVE  \E from \in Person, to \in Address, m \in Int : tok' \in transfer(tok, from, to, m)
    BY <1>0, <2>1, SameTransfer DEF E!Deposit
  <2>2. ASSUME NEW p \in Person, E!Release(p) \/ E!Refund(p)
        PROVE  \E to \in Address : tok' \in transfer(tok, EscrowVault, to, held)
    BY <1>0, <2>2, SameTransfer DEF E!Release, E!Refund, E!PayOut
  <2>. QED  BY <1>2, <2>1, <2>2 DEF EscrowStep, E!Next
<1>3. CASE VestingStep
  <2>1. ASSUME NEW p \in Person, NEW n \in Amounts, V!Deposit(p, n)
        PROVE  \E from \in Person, to \in Address, m \in Int : tok' \in transfer(tok, from, to, m)
    BY <1>0, <2>1, SameTransfer DEF V!Deposit
  <2>2. ASSUME NEW p \in Person, V!Claim(p)
        PROVE  \E n \in V!claimable : /\ tok' \in transfer(tok, VestingVault, Beneficiary, n)
                                      /\ released' = released + n
    BY <2>2, SameTransfer DEF V!Claim
  <2>. QED  BY <1>3, <2>1, <2>2 DEF VestingStep, V!Next
<1>4. CASE SubscriptionStep
  <2>1. ASSUME NEW p \in Person, S!Charge(p)
        PROVE  \E from \in Person, to \in Address, m \in Int : tok' \in transfer(tok, from, to, m)
    BY <1>0, <2>1, SameTransfer DEF S!Charge
  <2>2. ASSUME NEW p \in Person, S!Cancel(p)
        PROVE  UNCHANGED tok
    BY <2>2 DEF S!Cancel
  <2>. QED  BY <1>4, <2>1, <2>2 DEF SubscriptionStep, S!Next
<1>5. CASE PaymentStep
  BY <1>0, <1>5 DEF PaymentStep, P!Pay
<1>6. CASE AirdropStep
  <2>1. ASSUME NEW n \in Amounts, A!Deposit(n)
        PROVE  \E from \in Person, to \in Address, m \in Int : tok' \in transfer(tok, from, to, m)
    BY <1>0, <2>1, SameTransfer DEF A!Deposit
  <2>2. ASSUME NEW index \in Indices, NEW claimant \in Person, NEW n \in Amounts,
               NEW proof \in A!Proofs, A!Claim(index, claimant, n, proof)
        PROVE  \E to \in Person, m \in Int, i \in Indices :
                   /\ tok' \in transfer(tok, AirdropVault, to, m)
                   /\ i \notin claimed
                   /\ claimed' = claimed \cup {i}
    <3>1. /\ tok' \in transfer(tok, AirdropVault, claimant, n)
          /\ index \notin claimed
          /\ claimed' = claimed \cup {index}
      BY <2>2, SameTransfer DEF A!Claim
    <3>. QED  BY <1>0, <3>1
  <2>3. ASSUME NEW new_root \in A!Roots, A!UpdateRoot(new_root)
        PROVE  UNCHANGED tok
    BY <2>3 DEF A!UpdateRoot
  <2>. QED  BY <1>6, <2>1, <2>2, <2>3 DEF AirdropStep, A!Next
<1>. QED
  BY <1>1, <1>2, <1>3, <1>4, <1>5, <1>6
     DEF Next, vars, OracleStep, MultiSignatureStep, AccessControlStep, TestAssetStep, CloseLedger

-----------------------------------------------------------------------------
(* The storages are well typed, and grants stay vested: the release of a   *)
(* grant is only an amount of the asset while it is below the total.       *)

Typed == TypeOK /\ ReleasedIsVested

LEMMA InitTyped == Init => Typed
<1>. SUFFICES ASSUME Init PROVE Typed
  OBVIOUS
<1>1. tok \in Storage
  <2>1. EmptyStorage \in Storage
    BY WidthAssumption DEF EmptyStorage, Storage, NoEntry, Entry, Held
  <2>. QED  BY <2>1, EndowmentAssumption DEF Init, Storage
<1>2. deployed \in Deployments /\ now \in 1..MaxTime /\ now = 1
  BY BoundsAssumption DEF Init
<1>3. E!TypeOK
  BY WidthAssumption DEF Init, E!Init, E!TypeOK, E!Held, E!State
<1>4. V!TypeOK /\ released = 0
  <2>1. CASE "vesting" \in deployed
    <3>1. PICK total \in Sums, start \in Starts, duration \in Durations, cliff \in Cliffs :
              /\ duration > 0
              /\ cliff <= duration
              /\ grant = [total |-> total, start |-> now + start,
                          cliff |-> now + start + cliff, end |-> now + start + duration]
      BY <2>1 DEF Init, V!Init
    <3>2. /\ total \in V!I128
          /\ start \in Nat /\ duration \in Nat /\ cliff \in Nat
      BY AmountsAssumption, TimesAssumption DEF V!I128
    <3>3. grant \in V!Grant
      BY <1>2, <3>1, <3>2 DEF V!Grant
    <3>. QED  BY <2>1, <3>3, WidthAssumption DEF Init, V!Init, V!TypeOK, V!Held
  <2>2. CASE "vesting" \notin deployed
    BY <2>2, WidthAssumption DEF Init, V!TypeOK, V!Grant, V!I128, V!Held
  <2>. QED  BY <2>1, <2>2
<1>5. S!TypeOK
  <2>1. CASE "subscription" \in deployed
    <3>1. plan \in [amount : Prices, interval : Intervals] /\ next_charge = now + plan.interval
      BY <2>1 DEF Init, S!Init
    <3>2. plan \in S!Plan /\ plan.interval \in Nat
      BY <3>1, AmountsAssumption, TimesAssumption DEF S!Plan
    <3>. QED  BY <1>2, <2>1, <3>1, <3>2 DEF Init, S!Init, S!TypeOK
  <2>2. CASE "subscription" \notin deployed
    <3>1. 0 \in (-MaxI128 - 1) .. MaxI128
      BY WidthAssumption
    <3>2. plan = [amount |-> 0, interval |-> 0] /\ next_charge = 0 /\ active = FALSE
      BY <2>2 DEF Init
    <3>. QED  BY <3>1, <3>2 DEF S!TypeOK, S!Plan
  <2>. QED  BY <2>1, <2>2
<1>6. A!TypeOK
  BY DEF Init, A!Init, A!TypeOK, A!Roots
<1>7. O!TypeOK
  <2>1. Some(Key) \in Key
    BY ObservationsAssumption DEF Some
  <2>2. /\ signer \in Key /\ price = 0 /\ time = 0
        /\ initialized = FALSE /\ signed = {}
    BY <2>1 DEF Init, O!Init
  <2>3. signed \subseteq O!Observation
    BY <2>2
  <2>4. initialized \in BOOLEAN /\ price \in Int /\ time \in Nat
    <3>1. price \in Int /\ time \in Nat
      BY <2>2
    <3>. QED  BY <2>2, <3>1
  <2>. QED  BY <2>2, <2>3, <2>4 DEF O!TypeOK
<1>8. M!TypeOK
  <2>1. CASE "multi-signature" \in deployed
    <3>1. PICK signer1 \in Person, signer2 \in Person, signer3 \in Person, threshold \in Thresholds :
              config = [signers |-> {signer1, signer2, signer3}, threshold |-> threshold]
      BY <2>1 DEF Init, M!Init
    <3>2. config \in [signers : SUBSET Person, threshold : Nat]
      BY <3>1, ThresholdsAssumption
    <3>. QED  BY <2>1, <3>2 DEF Init, M!Init, M!TypeOK
  <2>2. CASE "multi-signature" \notin deployed
    BY <2>2 DEF Init, M!TypeOK
  <2>. QED  BY <2>1, <2>2
<1>9. R!TypeOK
  BY PartiesAssumption DEF Init, Some, R!Init, R!TypeOK
<1>10. coins \in [Address -> T!I128]
  BY WidthAssumption DEF Init, T!NoBalances, T!I128
<1>11. TypeOK
  BY <1>1, <1>2, <1>3, <1>4, <1>5, <1>6, <1>7, <1>8, <1>9, <1>10 DEF TypeOK
<1>12. ReleasedIsVested
  BY <1>4 DEF ReleasedIsVested, V!ReleasedIsVested
<1>. QED  BY <1>11, <1>12 DEF Typed

(* A quotient that is positive is of a positive number, and rounded down.  *)
LEMMA QuotientRoundsDown ==
    ASSUME NEW a \in Int, NEW b \in Nat \ {0}, V!Quotient(a, b) > 0
    PROVE  a > 0 /\ V!Quotient(a, b) \in Nat /\ V!Quotient(a, b) * b <= a
<1>1. ASSUME NEW c \in Nat PROVE c \div b \in Nat /\ (c \div b) * b <= c
  BY <1>1
<1>2. a >= 0
  <2>1. SUFFICES ASSUME a < 0 PROVE FALSE
    OBVIOUS
  <2>2. (-a) \div b \in Nat
    BY <1>1, <2>1
  <2>3. V!Quotient(a, b) = -((-a) \div b)
    BY <2>1 DEF V!Quotient
  <2>. QED  BY <2>2, <2>3
<1>3. V!Quotient(a, b) = a \div b
  BY <1>2 DEF V!Quotient
<1>4. a \div b \in Nat /\ (a \div b) * b <= a
  BY <1>1, <1>2
<1>5. a # 0
  <2>1. SUFFICES ASSUME a = 0 PROVE FALSE
    OBVIOUS
  <2>2. ASSUME NEW q \in Nat, q > 0, q * b <= 0 PROVE FALSE
    BY <2>2
  <2>. QED  BY <1>3, <1>4, <2>1, <2>2
<1>. QED  BY <1>2, <1>3, <1>4, <1>5

(* What is claimed makes the release no more than the linear share.        *)
LEMMA ClaimIsVested ==
    ASSUME TypeOK, NEW n \in V!claimable, n > 0
    PROVE  /\ n \in Int
           /\ now >= grant.cliff
           /\ released + n <= grant.total
           /\ (released + n) * (grant.end - grant.start) <= grant.total * (now - grant.start)
<1>. DEFINE span == grant.end - grant.start
            elapsed == now - grant.start
<1>1. /\ grant.total \in Int /\ grant.start \in Nat /\ grant.cliff \in Nat
      /\ grant.end \in Nat /\ grant.start < grant.end
      /\ grant.start <= grant.cliff
      /\ released \in Nat /\ now \in Nat
  BY WidthAssumption, BoundsAssumption DEF TypeOK, V!TypeOK, V!Grant, V!I128, V!Held
<1>2. n \in Int
  BY ClaimableType
<1>3. now >= grant.cliff
  BY <1>1, <1>2 DEF V!claimable
<1>4. span \in Nat \ {0} /\ elapsed \in Nat
  BY <1>1, <1>3
<1>5. CASE now >= grant.end
  <2>1. n = grant.total - released
    BY <1>1, <1>3, <1>5 DEF V!claimable
  <2>2. released + n = grant.total /\ grant.total > 0 /\ span <= elapsed
    BY <1>1, <1>2, <1>5, <2>1
  <2>3. ASSUME NEW t \in Nat, NEW x \in Nat, NEW y \in Nat, x <= y
        PROVE  t * x <= t * y
    BY <2>3
  <2>4. grant.total * span <= grant.total * elapsed
    BY <1>1, <1>4, <2>2, <2>3
  <2>. QED  BY <1>1, <1>2, <1>3, <2>2, <2>4
<1>6. CASE now < grant.end
  <2>1. n = V!Quotient(grant.total * elapsed, span) - released
    BY <1>1, <1>3, <1>6 DEF V!claimable, V!Panic
  <2>2. grant.total * elapsed \in Int
    BY <1>1, <1>4
  <2>3. V!Quotient(grant.total * elapsed, span) \in Int
    BY <1>4, <2>2 DEF V!Quotient
  <2>. DEFINE q == released + n
  <2>4. q = V!Quotient(grant.total * elapsed, span) /\ q > 0
    <3>1. ASSUME NEW x \in Int, n = x - released PROVE q = x /\ q > 0
      BY <1>1, <1>2, <3>1
    <3>. QED  BY <2>1, <2>3, <3>1
  <2>5. grant.total * elapsed > 0 /\ q \in Nat /\ q * span <= grant.total * elapsed
    BY <1>4, <2>2, <2>4, QuotientRoundsDown
  <2>6. grant.total > 0 /\ elapsed < span
    <3>1. ASSUME NEW t \in Int, NEW x \in Nat, t * x > 0 PROVE t > 0
      BY <3>1
    <3>2. grant.total > 0
      BY <1>1, <1>4, <2>5, <3>1
    <3>. QED  BY <1>1, <1>6, <3>2
  <2>7. ASSUME NEW t \in Nat, NEW x \in Nat, NEW y \in Nat, NEW r \in Nat, x < y, r * y <= t * x
        PROVE  r <= t
    <3>1. SUFFICES ASSUME r > t PROVE FALSE
      BY <2>7
    <3>2. r * y >= (t + 1) * y /\ (t + 1) * y = t * y + y /\ t * y >= t * x
      BY <2>7, <3>1
    <3>. QED  BY <2>7, <3>2
  <2>8. q <= grant.total
    BY <1>1, <1>4, <2>5, <2>6, <2>7
  <2>. QED  BY <1>2, <1>3, <2>5, <2>8
<1>. QED  BY <1>1, <1>5, <1>6

(* What moves the asset keeps its storage well typed.                      *)
LEMMA NextStorage ==
    ASSUME TypeOK, [Next]_vars
    PROVE  tok' \in Storage
<1>1. /\ tok \in Storage /\ held \in Int
      /\ Person \subseteq Address /\ Beneficiary \in Address
      /\ {EscrowVault, VestingVault, AirdropVault} \subseteq Address
      /\ V!claimable \subseteq Int
  BY PartiesAssumption, WidthAssumption, ClaimableType DEF TypeOK, E!TypeOK, E!Held
<1>2. ASSUME NEW from \in Address, NEW to \in Address, NEW n \in Int,
             tok' \in transfer(tok, from, to, n)
      PROVE  tok' \in Storage
  BY <1>1, <1>2, TransferMoves
<1>. QED  BY <1>1, <1>2, Movements

LEMMA NextVesting ==
    ASSUME Typed, [Next]_vars
    PROVE  V!TypeOK' /\ ReleasedIsVested'
<1>1. /\ TypeOK /\ tok \in Storage
      /\ grant \in V!Grant
      /\ released \in 0..MaxI128
      /\ released > 0 => /\ now >= grant.cliff
                         /\ released <= grant.total
                         /\ released * (grant.end - grant.start) <= grant.total * (now - grant.start)
  BY DEF Typed, TypeOK, V!TypeOK, V!Held, ReleasedIsVested, V!ReleasedIsVested
<1>2. /\ grant.total \in Int /\ grant.start \in Nat /\ grant.cliff \in Nat
      /\ grant.end \in Nat /\ grant.start < grant.end /\ grant.start <= grant.cliff
      /\ grant.total <= MaxI128 /\ released \in Nat /\ now \in Nat
  BY <1>1, WidthAssumption, BoundsAssumption DEF TypeOK, V!Grant, V!I128
<1>3. CASE VestingStep /\ \E p \in Person : V!Claim(p)
  <2>1. PICK n \in V!claimable :
            /\ n > 0
            /\ released' = released + n
            /\ UNCHANGED <<now, grant>>
    BY <1>3 DEF V!Claim
  <2>2. /\ n \in Int
        /\ now >= grant.cliff
        /\ released + n <= grant.total
        /\ (released + n) * (grant.end - grant.start) <= grant.total * (now - grant.start)
    BY <1>1, <2>1, ClaimIsVested
  <2>3. released' \in V!Held
    BY <1>2, <2>1, <2>2, WidthAssumption DEF V!Held
  <2>4. V!TypeOK'
    BY <1>1, <2>1, <2>3 DEF V!TypeOK, V!Held, V!Grant, V!I128
  <2>5. /\ now' >= grant'.cliff
        /\ released' <= grant'.total
        /\ released' * (grant'.end - grant'.start) <= grant'.total * (now' - grant'.start)
    BY <2>1, <2>2
  <2>. QED  BY <2>4, <2>5 DEF ReleasedIsVested, V!ReleasedIsVested
<1>4. CASE UNCHANGED <<grant, released>> /\ now' \in Nat /\ now <= now'
  <2>1. V!TypeOK'
    BY <1>1, <1>4 DEF V!TypeOK, V!Held, V!Grant, V!I128
  <2>2. ASSUME released > 0
        PROVE  /\ now' >= grant.cliff
               /\ released <= grant.total
               /\ released * (grant.end - grant.start) <= grant.total * (now' - grant.start)
    <3>1. ASSUME NEW t \in Nat, NEW x \in Int, NEW y \in Int, x <= y
          PROVE  t * x <= t * y
      BY <3>1
    <3>2. grant.total * (now - grant.start) <= grant.total * (now' - grant.start)
      BY <1>1, <1>2, <1>4, <2>2, <3>1
    <3>3. released * (grant.end - grant.start) \in Int /\ grant.total * (now - grant.start) \in Int
          /\ grant.total * (now' - grant.start) \in Int
      BY <1>2, <1>4
    <3>. QED  BY <1>1, <1>2, <1>4, <2>2, <3>2, <3>3
  <2>3. ReleasedIsVested'
    BY <1>4, <2>2 DEF ReleasedIsVested, V!ReleasedIsVested
  <2>. QED  BY <2>1, <2>3
<1>5. now' \in Nat /\ now <= now'
  BY <1>2, Frames DEF CloseLedger
<1>6. VestingStep => \/ \E p \in Person : V!Claim(p)
                    \/ UNCHANGED <<grant, released>>
  BY DEF VestingStep, V!Next, V!Deposit
<1>. QED  BY <1>3, <1>4, <1>5, <1>6, Frames DEF vesting

LEMMA NextTyped == Typed /\ [Next]_vars => Typed'
<1>. SUFFICES ASSUME Typed, [Next]_vars PROVE Typed'
  OBVIOUS
<1>1. TypeOK
  BY DEF Typed
<1>2. deployed' \in Deployments /\ now' \in 1..MaxTime
  BY <1>1, Frames, BoundsAssumption DEF TypeOK, CloseLedger
<1>3. E!TypeOK'
  <2>1. held \in E!Held /\ state \in E!State
    BY <1>1 DEF TypeOK, E!TypeOK
  <2>2. CASE UNCHANGED escrow
    BY <2>1, <2>2 DEF escrow, E!TypeOK
  <2>3. ASSUME NEW p \in Person, NEW n \in Amounts, E!Deposit(p, n)
        PROVE  E!TypeOK'
    BY <2>1, <2>3, AmountsAssumption, WidthAssumption DEF E!Deposit, E!TypeOK, E!Held
  <2>4. ASSUME NEW p \in Person, E!Release(p) \/ E!Refund(p)
        PROVE  E!TypeOK'
    BY <2>4, WidthAssumption DEF E!Release, E!Refund, E!PayOut, E!TypeOK, E!Held, E!State
  <2>. QED  BY <2>2, <2>3, <2>4, Frames DEF EscrowStep, E!Next
<1>4. S!TypeOK'
  <2>1. plan \in S!Plan /\ plan.interval \in Nat /\ next_charge \in Nat /\ active \in BOOLEAN
    BY <1>1 DEF TypeOK, S!TypeOK, S!Plan
  <2>2. CASE UNCHANGED subscription
    BY <2>1, <2>2 DEF subscription, S!TypeOK
  <2>3. ASSUME NEW p \in Person, S!Charge(p) PROVE S!TypeOK'
    <3>1. next_charge' \in Nat
      BY <2>1, <2>3 DEF S!Charge
    <3>. QED  BY <2>1, <2>3, <3>1 DEF S!Charge, S!TypeOK
  <2>4. ASSUME NEW p \in Person, S!Cancel(p) PROVE S!TypeOK'
    BY <2>1, <2>4 DEF S!Cancel, S!TypeOK
  <2>. QED  BY <2>2, <2>3, <2>4, Frames DEF SubscriptionStep, S!Next
<1>5. A!TypeOK'
  <2>1. root \in A!Roots /\ claimed \subseteq Indices
    BY <1>1 DEF TypeOK, A!TypeOK
  <2>2. AirdropStep => root' \in A!Roots /\ claimed' \subseteq Indices
    BY <2>1 DEF AirdropStep, A!Next, A!Deposit, A!Claim, A!UpdateRoot
  <2>3. UNCHANGED airdrop => root' \in A!Roots /\ claimed' \subseteq Indices
    BY <2>1 DEF airdrop
  <2>4. root' \in A!Roots /\ claimed' \subseteq Indices
    BY <2>2, <2>3, Frames
  <2>. QED  BY <2>4 DEF A!TypeOK, A!Roots
<1>6. O!TypeOK'
  <2>1. /\ signer \in Key /\ price \in Int /\ time \in Nat
        /\ initialized \in BOOLEAN /\ signed \subseteq O!Observation
    BY <1>1 DEF TypeOK, O!TypeOK
  <2>2. CASE UNCHANGED oracle
    BY <2>1, <2>2 DEF oracle, O!TypeOK
  <2>3. ASSUME NEW o \in O!Observation, O!Sign(o) PROVE O!TypeOK'
    BY <2>1, <2>3 DEF O!Sign, O!TypeOK
  <2>4. ASSUME NEW o \in signed, O!Publish(o) PROVE O!TypeOK'
    <3>1. o.price \in Int /\ o.time \in Nat
      BY <2>1, ObservationsAssumption, TimesAssumption DEF O!Observation
    <3>. QED  BY <2>1, <2>4, <3>1 DEF O!Publish, O!TypeOK
  <2>5. ASSUME NEW key \in Key, O!SetSigner(key) PROVE O!TypeOK'
    BY <2>1, <2>5 DEF O!SetSigner, O!TypeOK
  <2>. QED  BY <2>2, <2>3, <2>4, <2>5, Frames DEF OracleStep, O!Next
<1>7. M!TypeOK'
  <2>1. /\ config \in [signers : SUBSET Person, threshold : Nat]
        /\ approvals \in [Proposal -> SUBSET Person]
        /\ executed \subseteq Proposal
    BY <1>1 DEF TypeOK, M!TypeOK
  <2>2. CASE UNCHANGED multisignature
    BY <2>1, <2>2 DEF multisignature, M!TypeOK
  <2>3. ASSUME NEW p \in Person, NEW proposal \in Proposal, M!Approve(p, proposal)
        PROVE  M!TypeOK'
    BY <2>1, <2>3 DEF M!Approve, M!TypeOK
  <2>4. ASSUME NEW proposal \in Proposal, M!Execute(proposal) PROVE M!TypeOK'
    BY <2>1, <2>4 DEF M!Execute, M!TypeOK
  <2>. QED  BY <2>2, <2>3, <2>4, Frames DEF MultiSignatureStep, M!Next
<1>8. R!TypeOK'
  BY <1>1, Frames
     DEF TypeOK, R!TypeOK, access, AccessControlStep, R!Next, R!GrantRole, R!RevokeRole,
         R!TransferAdmin
<1>9. (coins \in [Address -> T!I128])'
  <2>1. coins \in [Address -> T!I128] /\ Person \subseteq Address
    BY <1>1, PartiesAssumption DEF TypeOK
  <2>2. ASSUME NEW to \in Person, NEW n \in Amounts, coins' \in T!mint(coins, to, n)
        PROVE  coins' \in [Address -> T!I128]
    BY <2>1, <2>2 DEF T!mint
  <2>3. ASSUME NEW from \in Person, NEW to \in Person, NEW n \in Amounts, Q!Pay(from, to, n)
        PROVE  coins' \in [Address -> T!I128]
    BY <2>1, <2>3 DEF Q!Pay, T!transfer
  <2>. QED  BY <2>1, <2>2, <2>3, Frames DEF TestAssetStep, T!I128
<1>. QED
  BY <1>1, <1>2, <1>3, <1>4, <1>5, <1>6, <1>7, <1>8, <1>9, NextStorage, NextVesting
     DEF Typed, TypeOK

(* Every storage is well typed in every deployment.                        *)
THEOREM TypeCorrect == Spec => []TypeOK
<1>1. Init => Typed
  BY InitTyped
<1>2. Typed /\ [Next]_vars => Typed'
  BY NextTyped
<1>3. Typed => TypeOK
  BY DEF Typed
<1>. QED  BY <1>1, <1>2, <1>3, PTL DEF Spec

(* However often it is claimed and whatever the divisions round off, a     *)
(* grant never releases more than the linear share (vesting lib.rs:125-154)*)
THEOREM GrantsVest == Spec => []ReleasedIsVested
<1>1. Init => Typed
  BY InitTyped
<1>2. Typed /\ [Next]_vars => Typed'
  BY NextTyped
<1>3. Typed => ReleasedIsVested
  BY DEF Typed
<1>. QED  BY <1>1, <1>2, <1>3, PTL DEF Spec

(* Funds leave the grant only to be recorded as released, whatever the     *)
(* other contracts and the people do with the asset (vesting               *)
(* lib.rs:113-137).                                                        *)
THEOREM FundingKept == Spec => FundingIsKept
<1>1. Init => Typed
  BY InitTyped
<1>2. Typed /\ [Next]_vars => Typed'
  BY NextTyped
<1>3. Typed /\ [Next]_vars => [V!Funding' >= V!Funding]_(V!vars)
  <2>. SUFFICES ASSUME Typed, [Next]_vars PROVE V!Funding' >= V!Funding
    OBVIOUS
  <2>1. /\ TypeOK /\ tok \in Storage /\ held \in Int /\ released \in Nat
        /\ Person \subseteq Address /\ Beneficiary \in Person
        /\ {EscrowVault, VestingVault, AirdropVault} \subseteq Address \ Person
        /\ EscrowVault # VestingVault /\ AirdropVault # VestingVault
        /\ V!claimable \subseteq Int
    BY PartiesAssumption, WidthAssumption, ClaimableType
       DEF Typed, TypeOK, E!TypeOK, E!Held, V!TypeOK, V!Held
  <2>2. tok.bal[VestingVault] \in Nat
    BY <2>1, WidthAssumption DEF Storage, Held
  <2>3. CASE \E n \in V!claimable : /\ tok' \in transfer(tok, VestingVault, Beneficiary, n)
                                    /\ released' = released + n
    <3>1. PICK n \in V!claimable : /\ tok' \in transfer(tok, VestingVault, Beneficiary, n)
                                   /\ released' = released + n
      BY <2>3
    <3>2. /\ tok'.bal[VestingVault] \in Nat
          /\ tok'.bal[VestingVault] >= tok.bal[VestingVault] - n
          /\ n \in Int
      BY <2>1, <3>1, TransferMoves
    <3>. QED  BY <2>1, <2>2, <3>1, <3>2 DEF V!Funding
  <2>4. released' >= released
    BY <2>1, Frames DEF vesting, VestingStep, V!Next, V!Deposit, V!Claim
  <2>5. released' \in Int
    BY <2>1, Frames DEF vesting, VestingStep, V!Next, V!Deposit, V!Claim
  <2>6. ASSUME NEW from \in Address, NEW to \in Address, NEW n \in Int,
               from # VestingVault, tok' \in transfer(tok, from, to, n)
        PROVE  V!Funding' >= V!Funding
    <3>1. /\ tok'.bal[VestingVault] \in Nat
          /\ tok'.bal[VestingVault] >= tok.bal[VestingVault]
      BY <2>1, <2>6, TransferMoves
    <3>. QED  BY <2>1, <2>2, <2>4, <2>5, <3>1 DEF V!Funding
  <2>7. CASE UNCHANGED tok
    BY <2>1, <2>2, <2>4, <2>5, <2>7 DEF V!Funding
  <2>. QED  BY <2>1, <2>3, <2>6, <2>7, Movements
<1>. QED  BY <1>1, <1>2, <1>3, PTL DEF Spec, FundingIsKept, V!FundingIsKept

-----------------------------------------------------------------------------
(* The schedule of the subscription *)

(* The next charge is at most one interval away.                           *)
ChargesWithinPeriods == next_charge <= now + plan.interval

LEMMA InitScheduled == Init => Typed /\ ChargesWithinPeriods
<1>1. Init => ChargesWithinPeriods
  <2>. SUFFICES ASSUME Init PROVE ChargesWithinPeriods
    OBVIOUS
  <2>1. next_charge \in Nat /\ plan.interval \in Nat
    BY InitTyped DEF Typed, TypeOK, S!TypeOK, S!Plan
  <2>. QED  BY <2>1 DEF Init, S!Init, ChargesWithinPeriods
<1>. QED  BY <1>1, InitTyped

(* A charge pays for one period, whoever the merchant is.                  *)
LEMMA ChargePays ==
    ASSUME Typed, NEW p \in Person, S!Charge(p)
    PROVE  S!PeriodIsPaid
<1>1. /\ tok \in Storage /\ plan.amount \in Int
      /\ Subscriber \in Address /\ Merchant \in Address
  BY PartiesAssumption, AmountsAssumption, WidthAssumption
     DEF Typed, TypeOK, S!TypeOK, S!Plan
<1>2. tok' \in transfer(tok, Subscriber, Merchant, plan.amount)
  BY SameTransfer DEF S!Charge
<1>3. tok.bal \in [Address -> Int]
  BY <1>1, WidthAssumption DEF Storage, Held
<1>4. /\ Subscriber = Merchant => tok'.bal = tok.bal
      /\ Subscriber # Merchant =>
             tok'.bal = [tok.bal EXCEPT ![Subscriber] = @ - plan.amount,
                                        ![Merchant] = @ + plan.amount]
  BY <1>1, <1>2, TransferBalances
<1>5. tok'.bal = [tok.bal EXCEPT ![Subscriber] = @ - plan.amount,
                                 ![Merchant] = @ + plan.amount]
  BY <1>1, <1>3, <1>4
<1>. QED  BY <1>5 DEF S!Charge, S!PeriodIsPaid

(* Missed charges are made up one interval at a time, each with its        *)
(* payment, and a cancelled subscription has none.                         *)
LEMMA NextScheduled ==
    ASSUME Typed, ChargesWithinPeriods, [Next]_vars
    PROVE  /\ Typed' /\ ChargesWithinPeriods'
           /\ (S!Next /\ tok' # tok) \/ next_charge' # next_charge => S!PeriodIsPaid
           /\ next_charge' <= now' + plan.interval
           /\ ~active => ~active'
<1>1. /\ next_charge \in Nat /\ plan.interval \in Nat /\ now \in Nat
      /\ next_charge <= now + plan.interval
  BY BoundsAssumption DEF Typed, TypeOK, S!TypeOK, S!Plan, ChargesWithinPeriods
<1>2. now' \in Nat /\ now <= now'
  BY <1>1, Frames DEF CloseLedger
<1>3. plan' = plan /\ next_charge' <= now' + plan.interval
  <2>1. CASE SubscriptionStep
    <3>1. /\ now' = now /\ plan' = plan
          /\ \/ now >= next_charge /\ next_charge' = next_charge + plan.interval
             \/ next_charge' = next_charge
      BY <2>1 DEF SubscriptionStep, S!Next, S!Charge, S!Cancel
    <3>. QED  BY <1>1, <3>1
  <2>2. CASE UNCHANGED subscription
    <3>1. plan' = plan /\ next_charge' = next_charge
      BY <2>2 DEF subscription
    <3>. QED  BY <1>1, <1>2, <3>1
  <2>. QED  BY <2>1, <2>2, Frames
<1>4. ~active => ~active'
  BY Frames DEF subscription, SubscriptionStep, S!Next, S!Charge, S!Cancel
<1>5. ChargesWithinPeriods'
  BY <1>3 DEF ChargesWithinPeriods
<1>6. ASSUME S!Next, tok' # tok \/ next_charge' # next_charge
      PROVE  S!PeriodIsPaid
  <2>1. PICK p \in Person : S!Charge(p) \/ S!Cancel(p)
    BY <1>6 DEF S!Next
  <2>2. S!Charge(p)
    BY <1>6, <2>1 DEF S!Cancel
  <2>. QED  BY <2>2, ChargePays
<1>7. next_charge' # next_charge => S!Next
  BY Frames DEF subscription, SubscriptionStep
<1>. QED  BY <1>3, <1>4, <1>5, <1>6, <1>7, NextTyped

(* The subscription's money and its schedule move only together, one       *)
(* begun period at a time, and neither once cancelled; the schedule is     *)
(* never more than one interval ahead (subscription lib.rs:118-150).       *)
THEOREM ChargesFollowSchedule == Spec => ChargesFollowPlan
<1>1. Typed /\ ChargesWithinPeriods /\ [Next]_vars => Typed' /\ ChargesWithinPeriods'
  BY NextScheduled
<1>2. Typed /\ ChargesWithinPeriods /\ [Next]_vars =>
          [/\ (S!Next /\ tok' # tok) \/ next_charge' # next_charge => S!PeriodIsPaid
           /\ next_charge' <= now' + plan.interval
           /\ ~active => ~active']_(S!vars)
  BY NextScheduled
<1>. QED  BY <1>1, <1>2, InitScheduled, PTL DEF Spec, ChargesFollowPlan, S!ChargesFollowPlan

-----------------------------------------------------------------------------
(* The airdrop *)

(* Under all roots together each index is paid at most once: an index that *)
(* was used stays so, and nothing leaves the contract without one being    *)
(* used up (merkle-airdrop lib.rs:164-199).                                *)
THEOREM IndicesPayOnce == Spec => EachIndexPaysOnce
<1>1. Init => Typed
  BY InitTyped
<1>2. Typed /\ [Next]_vars => Typed'
  BY NextTyped
<1>3. Typed /\ [Next]_vars =>
          [/\ claimed \subseteq claimed'
           /\ tok'.bal[AirdropVault] < tok.bal[AirdropVault] => claimed' # claimed]_(A!vars)
  <2>. SUFFICES ASSUME Typed, [Next]_vars
                PROVE  /\ claimed \subseteq claimed'
                       /\ tok'.bal[AirdropVault] < tok.bal[AirdropVault] => claimed' # claimed
    OBVIOUS
  <2>1. claimed \subseteq claimed'
    BY Frames DEF airdrop, AirdropStep, A!Next, A!Deposit, A!Claim, A!UpdateRoot
  <2>2. SUFFICES ASSUME tok'.bal[AirdropVault] < tok.bal[AirdropVault] PROVE claimed' # claimed
    BY <2>1
  <2>3. /\ TypeOK /\ tok \in Storage /\ held \in Int
        /\ Person \subseteq Address /\ Beneficiary \in Person
        /\ {EscrowVault, VestingVault, AirdropVault} \subseteq Address \ Person
        /\ EscrowVault # AirdropVault /\ AirdropVault # VestingVault
        /\ V!claimable \subseteq Int
    BY PartiesAssumption, WidthAssumption, ClaimableType DEF Typed, TypeOK, E!TypeOK, E!Held
  <2>4. tok.bal[AirdropVault] \in Nat
    BY <2>3, WidthAssumption DEF Storage, Held
  <2>5. tok' # tok
    BY <2>2, <2>4
  <2>6. ASSUME NEW from \in Address, NEW to \in Address, NEW n \in Int,
               from # AirdropVault, tok' \in transfer(tok, from, to, n)
        PROVE  FALSE
    <3>1. /\ tok'.bal[AirdropVault] \in Nat
          /\ tok'.bal[AirdropVault] >= tok.bal[AirdropVault]
      BY <2>3, <2>6, TransferMoves
    <3>. QED  BY <2>2, <2>4, <3>1
  <2>7. \E index \in Indices : index \notin claimed /\ claimed' = claimed \cup {index}
    BY <2>3, <2>5, <2>6, Movements
  <2>. QED  BY <2>7
<1>. QED  BY <1>1, <1>2, <1>3, PTL DEF Spec, EachIndexPaysOnce, A!EachIndexPaysOnce

-----------------------------------------------------------------------------
(* Induction on the naturals, by sets of them: a set that is not all of    *)
(* them misses a least one.                                                *)
LEMMA LeastMember ==
    ASSUME NEW set \in SUBSET Nat, set # {}
    PROVE  \E least \in set : \A n \in set : least <= n
<1>. DEFINE Below == {p \in Nat \X Nat : p[1] < p[2]}
<1>1. IsWellFoundedOn(Below, Nat)
  BY NatLessThanWellFounded DEF OpToRel
<1>2. PICK least \in set : \A n \in set : ~ (<<n, least>> \in Below)
  <2>. HIDE DEF Below
  <2>. QED  BY <1>1, WFMin
<1>3. \A n \in set : ~ (n < least)
  BY <1>2
<1>. QED  BY <1>3

LEMMA InductiveSet ==
    ASSUME NEW set \in SUBSET Nat, 0 \in set, \A n \in set : n + 1 \in set
    PROVE  set = Nat
<1>. SUFFICES ASSUME Nat \ set # {} PROVE FALSE
  OBVIOUS
<1>1. PICK n \in Nat \ set : \A m \in Nat \ set : n <= m
  BY LeastMember
<1>2. n # 0 /\ n - 1 \in Nat /\ n - 1 \notin Nat \ set
  BY <1>1
<1>. QED  BY <1>2

-----------------------------------------------------------------------------
(* The proofs of the airdrop *)

(* The hashes that a proof computes one after the other.                   *)
Hashes(f, leaf, proof, n) ==
    f = [i \in 0..n |-> IF i = 0 THEN leaf ELSE A!combine(f[i - 1], proof[i])]

LEMMA HashesExist ==
    ASSUME NEW leaf, NEW proof, NEW n \in Nat
    PROVE  \E f : Hashes(f, leaf, proof, n)
<1>. DEFINE set == {m \in Nat : \E f : Hashes(f, leaf, proof, m)}
<1>1. 0 \in set
  <2>. DEFINE f == [i \in 0..0 |-> leaf]
  <2>1. Hashes(f, leaf, proof, 0)
    BY DEF Hashes
  <2>. QED  BY <2>1
<1>2. ASSUME NEW m \in set PROVE m + 1 \in set
  <2>1. PICK f : Hashes(f, leaf, proof, m)
    OBVIOUS
  <2>. DEFINE g == [i \in 0..(m + 1) |->
                       IF i = m + 1 THEN A!combine(f[m], proof[m + 1]) ELSE f[i]]
  <2>2. /\ m \in Nat
        /\ \A i \in 0..m : f[i] = IF i = 0 THEN leaf ELSE A!combine(f[i - 1], proof[i])
    BY <2>1 DEF Hashes
  <2>3. ASSUME NEW i \in 0..(m + 1)
        PROVE  g[i] = IF i = 0 THEN leaf ELSE A!combine(g[i - 1], proof[i])
    <3>1. CASE i = m + 1
      BY <2>2, <3>1
    <3>2. CASE i # m + 1
      BY <2>2, <3>2
    <3>. QED  BY <3>1, <3>2
  <2>4. g = [i \in 0..(m + 1) |-> IF i = 0 THEN leaf ELSE A!combine(g[i - 1], proof[i])]
    BY <2>3
  <2>5. Hashes(g, leaf, proof, m + 1)
    BY <2>4 DEF Hashes
  <2>. QED  BY <2>2, <2>5
<1>. HIDE DEF set
<1>3. set = Nat
  BY <1>1, <1>2, InductiveSet DEF set
<1>. QED  BY <1>3 DEF set

Computes(f, leaf, proof, n) ==
    f[0] = leaf /\ \A i \in 1..n : f[i] = A!combine(f[i - 1], proof[i])

(* What verify_proof compares with the root is the last of them.           *)
LEMMA VerifiesLast ==
    ASSUME NEW leaf, NEW proof, NEW top, Len(proof) \in Nat
    PROVE  \E f : /\ Computes(f, leaf, proof, Len(proof))
                  /\ A!verify_proof(leaf, proof, top) <=> f[Len(proof)] = top
<1>. DEFINE f == CHOOSE g : g = [i \in 0..Len(proof) |->
                                   IF i = 0 THEN leaf ELSE A!combine(g[i - 1], proof[i])]
<1>1. f = [i \in 0..Len(proof) |-> IF i = 0 THEN leaf ELSE A!combine(f[i - 1], proof[i])]
  <2>1. \E g : Hashes(g, leaf, proof, Len(proof))
    BY HashesExist
  <2>2. \E g : g = [i \in 0..Len(proof) |->
                       IF i = 0 THEN leaf ELSE A!combine(g[i - 1], proof[i])]
    BY <2>1, Zenon DEF Hashes
  <2>. QED  BY <2>2, Zenon
<1>2. A!verify_proof(leaf, proof, top) <=> f[Len(proof)] = top
  BY DEF A!verify_proof
<1>. HIDE DEF f
<1>3. Computes(f, leaf, proof, Len(proof))
  BY <1>1 DEF Computes
<1>. QED  BY <1>2, <1>3

(* The hashes of a proof are determined by it.                             *)
LEMMA HashesAgree ==
    ASSUME NEW leaf, NEW proof, NEW n \in Nat, NEW f, NEW g,
           Computes(f, leaf, proof, n), Computes(g, leaf, proof, n)
    PROVE  f[n] = g[n]
<1>. USE DEF Computes
<1>. DEFINE set == {i \in Nat : i <= n => f[i] = g[i]}
<1>1. 0 \in set
  OBVIOUS
<1>2. ASSUME NEW i \in set PROVE i + 1 \in set
  <2>1. CASE i + 1 <= n
    <3>1. i + 1 \in 1..n /\ (i + 1) - 1 = i /\ f[i] = g[i]
      BY <1>2, <2>1
    <3>. QED  BY <3>1
  <2>2. CASE ~ (i + 1 <= n)
    BY <1>2, <2>2
  <2>. QED  BY <2>1, <2>2
<1>. HIDE DEF set
<1>3. set = Nat
  BY <1>1, <1>2, InductiveSet DEF set
<1>. QED  BY <1>3 DEF set

-----------------------------------------------------------------------------
(* The trees of the airdrop *)

Leaves(list) ==
    [j \in DOMAIN list |-> A!leaf_hash(list[j].index, list[j].claimant, list[j].amount)]

LEMMA LevelsRecursion ==
    ASSUME NEW list, Len(list) \in Nat
    PROVE  /\ A!Levels(list)[0] = Leaves(list)
           /\ \A k \in 1..Len(list) : A!Levels(list)[k] = A!NextLevel(A!Levels(list)[k - 1])
           /\ DOMAIN A!Levels(list) = 0..Len(list)
<1>. DEFINE IsLevels(f, n) ==
         f = [k \in 0..n |-> IF k = 0 THEN Leaves(list) ELSE A!NextLevel(f[k - 1])]
     set == {n \in Nat : \E f : IsLevels(f, n)}
<1>1. 0 \in set
  <2>. DEFINE f == [k \in 0..0 |-> Leaves(list)]
  <2>1. IsLevels(f, 0)
    OBVIOUS
  <2>. QED  BY <2>1
<1>2. ASSUME NEW n \in set PROVE n + 1 \in set
  <2>1. PICK f : IsLevels(f, n)
    OBVIOUS
  <2>. DEFINE g == [k \in 0..(n + 1) |-> IF k = n + 1 THEN A!NextLevel(f[n]) ELSE f[k]]
  <2>2. /\ n \in Nat
        /\ \A k \in 0..n : f[k] = IF k = 0 THEN Leaves(list) ELSE A!NextLevel(f[k - 1])
    BY <2>1
  <2>3. ASSUME NEW k \in 0..(n + 1)
        PROVE  g[k] = IF k = 0 THEN Leaves(list) ELSE A!NextLevel(g[k - 1])
    <3>1. CASE k = n + 1
      BY <2>2, <3>1
    <3>2. CASE k # n + 1
      BY <2>2, <3>2
    <3>. QED  BY <3>1, <3>2
  <2>. HIDE DEF g
  <2>4. g = [k \in 0..(n + 1) |-> IF k = 0 THEN Leaves(list) ELSE A!NextLevel(g[k - 1])]
    BY <2>2, <2>3 DEF g
  <2>. QED  BY <2>2, <2>4
<1>3. \E f : IsLevels(f, Len(list))
  <2>. HIDE DEF set
  <2>1. set = Nat
    BY <1>1, <1>2, InductiveSet DEF set
  <2>. QED  BY <2>1 DEF set
<1>. DEFINE level == CHOOSE f : IsLevels(f, Len(list))
<1>4. A!Levels(list) = level
  BY DEF A!Levels, Leaves
<1>5. IsLevels(level, Len(list))
  BY <1>3
<1>. HIDE DEF level
<1>6. \A k \in 0..Len(list) :
          level[k] = IF k = 0 THEN Leaves(list) ELSE A!NextLevel(level[k - 1])
  BY <1>5
<1>7. DOMAIN level = 0..Len(list)
  BY <1>5
<1>. QED  BY <1>4, <1>6, <1>7

(* A level of n hashes.                                                    *)
IsRow(s, n) == n \in Nat \ {0} /\ Len(s) = n /\ DOMAIN s = 1..n

(* A level of more than one is combined into a shorter one; each hash of   *)
(* it is of two below, and each below is in one with a neighbour.          *)
LEMMA NextRow ==
    ASSUME NEW s, NEW n, IsRow(s, n), n > 1
    PROVE  \E m : /\ IsRow(A!NextLevel(s), m) /\ m < n
                  /\ \A j \in 1..m : \E a, b \in 1..n :
                         A!NextLevel(s)[j] = A!combine(s[a], s[b])
                  /\ \A a \in 1..n : \E j \in 1..m : \E b \in 1..n :
                         A!NextLevel(s)[j] = A!combine(s[a], s[b])
<1>. DEFINE m == (n + 1) \div 2
            next == [j \in 1..m |->
                        A!combine(s[2 * j - 1], IF 2 * j <= n THEN s[2 * j] ELSE s[2 * j - 1])]
<1>1. n \in Nat \ {0} /\ Len(s) = n /\ DOMAIN s = 1..n
  BY DEF IsRow
<1>2. m \in Nat \ {0} /\ m < n /\ 2 * m <= n + 1 /\ n <= 2 * m
  BY <1>1
<1>3. A!NextLevel(s) = next
  BY <1>1 DEF A!NextLevel
<1>. HIDE DEF m
<1>4. IsRow(next, m)
  BY <1>2 DEF IsRow
<1>5. ASSUME NEW j \in 1..m
      PROVE  \E a, b \in 1..n : next[j] = A!combine(s[a], s[b])
  <2>1. 2 * j - 1 \in 1..n
    BY <1>1, <1>2
  <2>2. CASE 2 * j <= n
    <3>1. 2 * j \in 1..n /\ next[j] = A!combine(s[2 * j - 1], s[2 * j])
      BY <1>1, <1>2, <2>2
    <3>. QED  BY <2>1, <3>1
  <2>3. CASE ~ (2 * j <= n)
    <3>1. next[j] = A!combine(s[2 * j - 1], s[2 * j - 1])
      BY <2>3
    <3>. QED  BY <2>1, <3>1
  <2>. QED  BY <2>2, <2>3
<1>6. ASSUME NEW a \in 1..n
      PROVE  \E j \in 1..m : \E b \in 1..n : next[j] = A!combine(s[a], s[b])
  <2>1. PICK j \in 1..m : a = 2 * j - 1 \/ a = 2 * j
    <3>1. (a + 1) \div 2 \in 1..m /\ (a = 2 * ((a + 1) \div 2) - 1 \/ a = 2 * ((a + 1) \div 2))
      BY <1>1, <1>2
    <3>. QED  BY <3>1
  <2>2. CASE a = 2 * j
    <3>1. 2 * j - 1 \in 1..n /\ next[j] = A!combine(s[2 * j - 1], s[a])
      BY <1>1, <1>2, <2>2
    <3>2. A!combine(s[2 * j - 1], s[a]) = A!combine(s[a], s[2 * j - 1])
      BY DEF A!combine
    <3>. QED  BY <3>1, <3>2
  <2>3. CASE a = 2 * j - 1 /\ 2 * j <= n
    <3>1. 2 * j \in 1..n /\ next[j] = A!combine(s[a], s[2 * j])
      BY <1>1, <1>2, <2>3
    <3>. QED  BY <3>1
  <2>4. CASE a = 2 * j - 1 /\ ~ (2 * j <= n)
    <3>1. next[j] = A!combine(s[a], s[a])
      BY <2>4
    <3>. QED  BY <3>1
  <2>. QED  BY <2>1, <2>2, <2>3, <2>4
<1>. HIDE DEF next
<1>7. \A j \in 1..m : \E a, b \in 1..n : A!NextLevel(s)[j] = A!combine(s[a], s[b])
  BY <1>3, <1>5, Zenon
<1>8. \A a \in 1..n : \E j \in 1..m : \E b \in 1..n :
          A!NextLevel(s)[j] = A!combine(s[a], s[b])
  BY <1>3, <1>6, Zenon
<1>9. IsRow(A!NextLevel(s), m) /\ m < n
  BY <1>2, <1>3, <1>4
<1>. QED  BY <1>7, <1>8, <1>9, Zenon

(* A list of the airdrop: its levels get shorter until one hash is left.   *)
LEMMA ListFacts ==
    ASSUME NEW list \in Lists
    PROVE  /\ Len(list) \in Nat \ {0} /\ DOMAIN list = 1..Len(list)
           /\ \A k \in 1..Len(list) : /\ list[k].index \in Nat
                                      /\ list[k].claimant \in Address
                                      /\ list[k].amount \in Int
           /\ IsRow(Leaves(list), Len(list))
<1>. DEFINE Entries == [index : Nat, claimant : Address, amount : Int]
<1>1. list \in Seq(Entries) /\ list # <<>>
  BY ListsAssumption
<1>2. Len(list) \in Nat \ {0} /\ DOMAIN list = 1..Len(list)
  BY <1>1
<1>3. \A k \in 1..Len(list) : list[k] \in Entries
  <2>. HIDE DEF Entries
  <2>. QED  BY <1>1
<1>4. IsRow(Leaves(list), Len(list))
  BY <1>2 DEF IsRow, Leaves
<1>. QED  BY <1>2, <1>3, <1>4

LEMMA LevelsShrink ==
    ASSUME NEW list \in Lists, NEW k \in 0..Len(list)
    PROVE  \E n : /\ IsRow(A!Levels(list)[k], n)
                  /\ n = 1 \/ n + k <= Len(list)
<1>1. /\ Len(list) \in Nat \ {0} /\ DOMAIN list = 1..Len(list)
      /\ IsRow(Leaves(list), Len(list))
  BY ListFacts
<1>2. /\ A!Levels(list)[0] = Leaves(list)
      /\ \A i \in 1..Len(list) : A!Levels(list)[i] = A!NextLevel(A!Levels(list)[i - 1])
  BY <1>1, LevelsRecursion
<1>. DEFINE Shrunk(i) == \E n : /\ IsRow(A!Levels(list)[i], n)
                                /\ n = 1 \/ n + i <= Len(list)
            set == {i \in Nat : i <= Len(list) => Shrunk(i)}
<1>3. 0 \in set
  BY <1>1, <1>2
<1>4. ASSUME NEW i \in set PROVE i + 1 \in set
  <2>. SUFFICES ASSUME i + 1 <= Len(list) PROVE Shrunk(i + 1)
    OBVIOUS
  <2>1. i \in Nat /\ i <= Len(list)
    BY <1>1
  <2>2. PICK n : IsRow(A!Levels(list)[i], n) /\ (n = 1 \/ n + i <= Len(list))
    BY <2>1
  <2>3. A!Levels(list)[i + 1] = A!NextLevel(A!Levels(list)[i])
    BY <1>1, <1>2, <2>1
  <2>4. n \in Nat \ {0}
    BY <2>2 DEF IsRow
  <2>5. CASE n = 1
    <3>1. A!Levels(list)[i + 1] = A!Levels(list)[i]
      BY <2>2, <2>3, <2>5 DEF A!NextLevel, IsRow
    <3>. QED  BY <2>2, <2>5, <3>1
  <2>6. CASE n > 1
    <3>1. PICK m : IsRow(A!NextLevel(A!Levels(list)[i]), m) /\ m < n
      BY <2>2, <2>6, NextRow
    <3>2. m \in Nat
      BY <3>1 DEF IsRow
    <3>3. m + (i + 1) <= Len(list)
      BY <1>1, <2>1, <2>2, <2>4, <2>6, <3>1, <3>2
    <3>. QED  BY <2>3, <3>1, <3>3
  <2>. QED  BY <2>4, <2>5, <2>6
<1>. HIDE DEF set
<1>5. set = Nat
  BY <1>3, <1>4, InductiveSet DEF set
<1>. QED  BY <1>1, <1>5 DEF set

(* Hashes tell leaves from nodes, and each from its own kind.              *)
LEMMA HashesDiffer ==
    /\ \A a, b : A!combine(a, b).kind = "node" /\ A!combine(a, b).children = {a, b}
    /\ \A i, c, n : LET leaf == A!leaf_hash(i, c, n) IN
           /\ leaf.kind = "leaf" /\ leaf.index = i /\ leaf.claimant = c /\ leaf.amount = n
    /\ A!OtherBytes.kind = "other"
BY DEF A!combine, A!leaf_hash, A!OtherBytes

-----------------------------------------------------------------------------
(* What a proof proves *)

MeetsOnlyListed(list, k, hash, leaf) ==
    \A j \in DOMAIN A!Levels(list)[k] :
        hash = A!Levels(list)[k][j] => \E e \in 1..Len(list) : leaf = Leaves(list)[e]

(* If a proof that starts from a leaf ever meets a hash of a list's tree,  *)
(* the leaf is of that list, whatever siblings were put into the proof:    *)
(* a node is met only by one of its children, one level down.              *)
LEMMA ProofsStayInTheTree ==
    ASSUME NEW list \in Lists, NEW leaf, leaf.kind = "leaf",
           NEW proof, NEW n \in Nat, NEW f, Computes(f, leaf, proof, n)
    PROVE  \A k \in 0..Len(list), i \in 0..n : MeetsOnlyListed(list, k, f[i], leaf)
<1>0. f[0] = leaf /\ \A i \in 1..n : f[i] = A!combine(f[i - 1], proof[i])
  BY DEF Computes
<1>1. /\ Len(list) \in Nat \ {0} /\ DOMAIN list = 1..Len(list)
      /\ IsRow(Leaves(list), Len(list))
  BY ListFacts
<1>2. /\ A!Levels(list)[0] = Leaves(list)
      /\ \A k \in 1..Len(list) : A!Levels(list)[k] = A!NextLevel(A!Levels(list)[k - 1])
  BY <1>1, LevelsRecursion
<1>. DEFINE Listed == \E e \in 1..Len(list) : leaf = Leaves(list)[e]
            Meets(k) == \A i \in 0..n : \A j \in DOMAIN A!Levels(list)[k] :
                            f[i] = A!Levels(list)[k][j] => Listed
            set == {k \in Nat : k <= Len(list) => Meets(k)}
<1>3. 0 \in set
  <2>. SUFFICES ASSUME NEW i \in 0..n, NEW j \in DOMAIN Leaves(list), f[i] = Leaves(list)[j]
                PROVE  Listed
    BY <1>2
  <2>1. j \in 1..Len(list) /\ Leaves(list)[j].kind = "leaf"
    BY <1>1, HashesDiffer DEF Leaves, IsRow
  <2>2. i = 0
    <3>. SUFFICES ASSUME i # 0 PROVE FALSE
      OBVIOUS
    <3>1. f[i] = A!combine(f[i - 1], proof[i])
      BY <1>0
    <3>2. f[i].kind = "node"
      BY <3>1, HashesDiffer
    <3>. QED  BY <2>1, <3>2
  <2>. QED  BY <1>0, <2>1, <2>2
<1>4. ASSUME NEW k \in set PROVE k + 1 \in set
  <2>. SUFFICES ASSUME k + 1 <= Len(list), NEW i \in 0..n,
                       NEW j \in DOMAIN A!Levels(list)[k + 1],
                       f[i] = A!Levels(list)[k + 1][j]
                PROVE  Listed
    OBVIOUS
  <2>1. k \in 0..Len(list) /\ Meets(k)
    BY <1>1
  <2>2. PICK s : s = A!Levels(list)[k]
    OBVIOUS
  <2>3. A!Levels(list)[k + 1] = A!NextLevel(s)
    BY <1>1, <1>2, <2>1, <2>2
  <2>4. \A h \in 0..n : \A d \in DOMAIN s : f[h] = s[d] => Listed
    BY <2>1, <2>2
  <2>5. PICK r : IsRow(s, r)
    BY <2>1, <2>2, LevelsShrink
  <2>6. r \in Nat \ {0} /\ Len(s) = r /\ DOMAIN s = 1..r
    BY <2>5 DEF IsRow
  <2>7. CASE r = 1
    <3>1. A!NextLevel(s) = s
      BY <2>6, <2>7 DEF A!NextLevel
    <3>. HIDE DEF Listed
    <3>. QED  BY <2>3, <2>4, <3>1
  <2>8. CASE r > 1
    <3>1. PICK m : /\ IsRow(A!NextLevel(s), m)
                   /\ \A h \in 1..m : \E a, b \in 1..r :
                          A!NextLevel(s)[h] = A!combine(s[a], s[b])
      BY <2>5, <2>8, NextRow
    <3>2. j \in 1..m
      BY <2>3, <3>1 DEF IsRow
    <3>3. PICK a \in 1..r, b \in 1..r : f[i] = A!combine(s[a], s[b])
      BY <2>3, <3>1, <3>2
    <3>4. f[i].kind = "node" /\ f[i].children = {s[a], s[b]}
      BY <3>3, HashesDiffer
    <3>5. i # 0
      BY <1>0, <3>4
    <3>6. i \in 1..n /\ i - 1 \in 0..n
      BY <3>5
    <3>7. f[i].children = {f[i - 1], proof[i]}
      BY <1>0, <3>6, HashesDiffer
    <3>8. f[i - 1] = s[a] \/ f[i - 1] = s[b]
      BY <3>4, <3>7
    <3>. HIDE DEF Listed
    <3>. QED  BY <2>4, <2>6, <3>6, <3>8
  <2>. QED  BY <2>6, <2>7, <2>8
<1>. HIDE DEF set
<1>5. set = Nat
  BY <1>3, <1>4, InductiveSet DEF set
<1>6. \A k \in 0..Len(list) : Meets(k)
  BY <1>1, <1>5 DEF set
<1>. QED  BY <1>6 DEF MeetsOnlyListed

(* A proof that verifies against the commitment to a list is of a leaf of  *)
(* that list, and none verifies against other bytes.                       *)
LEMMA VerifiedIsListed ==
    ASSUME NEW index, NEW claimant, NEW n, NEW proof, Len(proof) \in Nat,
           NEW top \in A!Roots,
           A!verify_proof(A!leaf_hash(index, claimant, n), proof, top)
    PROVE  \E list \in Lists : \E e \in DOMAIN list :
               /\ A!Commitment(list) = top
               /\ list[e].index = index /\ list[e].claimant = claimant /\ list[e].amount = n
<1>. DEFINE leaf == A!leaf_hash(index, claimant, n)
<1>1. /\ leaf.kind = "leaf" /\ leaf.index = index /\ leaf.claimant = claimant
      /\ leaf.amount = n
  BY HashesDiffer
<1>. HIDE DEF leaf
<1>2. PICK f : Computes(f, leaf, proof, Len(proof)) /\ f[Len(proof)] = top
  BY VerifiesLast DEF leaf
<1>3. top # A!OtherBytes
  <2>1. top.kind \in {"leaf", "node"}
    <3>1. CASE Len(proof) = 0
      BY <1>1, <1>2, <3>1 DEF Computes
    <3>2. CASE Len(proof) # 0
      <4>1. top = A!combine(f[Len(proof) - 1], proof[Len(proof)])
        BY <1>2, <3>2 DEF Computes
      <4>. QED  BY <4>1, HashesDiffer
    <3>. QED  BY <3>1, <3>2
  <2>. QED  BY <2>1, HashesDiffer
<1>4. PICK list \in Lists : A!Commitment(list) = top
  BY <1>3 DEF A!Roots
<1>5. /\ Len(list) \in Nat \ {0} /\ DOMAIN list = 1..Len(list)
  BY ListFacts
<1>6. PICK r : IsRow(A!Levels(list)[Len(list)], r)
  BY <1>5, LevelsShrink
<1>7. 1 \in DOMAIN A!Levels(list)[Len(list)] /\ top = A!Levels(list)[Len(list)][1]
  BY <1>4, <1>6 DEF IsRow, A!Commitment
<1>8. PICK e \in 1..Len(list) : leaf = Leaves(list)[e]
  <2>1. Len(list) \in 0..Len(list) /\ Len(proof) \in 0..Len(proof)
    BY <1>5
  <2>2. MeetsOnlyListed(list, Len(list), f[Len(proof)], leaf)
    BY <1>1, <1>2, <2>1, ProofsStayInTheTree
  <2>. QED  BY <1>2, <1>7, <2>2 DEF MeetsOnlyListed
<1>9. leaf = A!leaf_hash(list[e].index, list[e].claimant, list[e].amount)
  BY <1>5, <1>8 DEF Leaves
<1>10. list[e].index = index /\ list[e].claimant = claimant /\ list[e].amount = n
  BY <1>1, <1>9, HashesDiffer
<1>. QED  BY <1>4, <1>5, <1>10

LEMMA ProofsHaveLength ==
    ASSUME NEW proof \in A!Proofs
    PROVE  Len(proof) \in Nat
<1>1. PICK n \in 0..ProofLength : proof \in [1..n -> A!KnownHashes]
  BY DEF A!Proofs
<1>2. n \in Nat
  OBVIOUS
<1>. HIDE DEF A!KnownHashes
<1>. QED  BY <1>1, <1>2

(* Only what the current root commits to is ever paid: for lists of any    *)
(* length and proofs of any known hashes in any order, whatever leaves the *)
(* contract is an allocation of the list under the root, to its claimant,  *)
(* and uses up its index (merkle-airdrop lib.rs:62-103).                   *)
THEOREM PayoutsListed == Spec => PayoutsAreListed
<1>1. Init => Typed
  BY InitTyped
<1>2. Typed /\ [Next]_vars => Typed'
  BY NextTyped
<1>. DEFINE Paid ==
         tok'.bal[AirdropVault] < tok.bal[AirdropVault] =>
             \E list \in Lists : \E k \in DOMAIN list :
                 /\ A!Commitment(list) = root
                 /\ claimed' = claimed \cup {list[k].index}
                 /\ tok' \in A!transfer(tok, AirdropVault, list[k].claimant, list[k].amount)
<1>3. Typed /\ [Next]_vars => [Paid]_(A!vars)
  <2>. SUFFICES ASSUME Typed, [Next]_vars, tok'.bal[AirdropVault] < tok.bal[AirdropVault]
                PROVE  \E list \in Lists : \E k \in DOMAIN list :
                           /\ A!Commitment(list) = root
                           /\ claimed' = claimed \cup {list[k].index}
                           /\ tok' \in A!transfer(tok, AirdropVault,
                                                  list[k].claimant, list[k].amount)
    OBVIOUS
  <2>1. /\ TypeOK /\ tok \in Storage /\ held \in Int /\ root \in A!Roots
        /\ Person \subseteq Address /\ Beneficiary \in Person /\ Admin \in Person
        /\ {EscrowVault, VestingVault, AirdropVault} \subseteq Address \ Person
        /\ EscrowVault # AirdropVault /\ AirdropVault # VestingVault
        /\ V!claimable \subseteq Int /\ Amounts \subseteq Int
    BY PartiesAssumption, AmountsAssumption, WidthAssumption, ClaimableType
       DEF Typed, TypeOK, E!TypeOK, E!Held, A!TypeOK
  <2>2. tok.bal[AirdropVault] \in Nat
    BY <2>1, WidthAssumption DEF Storage, Held
  <2>3. tok' # tok
    BY <2>2
  <2>4. ASSUME NEW from \in Address, NEW to \in Address, NEW n \in Int,
               from # AirdropVault, tok' \in transfer(tok, from, to, n)
        PROVE  FALSE
    <3>1. /\ tok'.bal[AirdropVault] \in Nat
          /\ tok'.bal[AirdropVault] >= tok.bal[AirdropVault]
      BY <2>1, <2>4, TransferMoves
    <3>. QED  BY <2>2, <3>1
  <2>5. AirdropStep
    BY <2>1, <2>3, <2>4, Movements
  <2>6. ASSUME NEW n \in Amounts, A!Deposit(n) PROVE FALSE
    BY <2>1, <2>4, <2>6, SameTransfer DEF A!Deposit
  <2>7. ASSUME NEW new_root \in A!Roots, A!UpdateRoot(new_root) PROVE FALSE
    BY <2>3, <2>7 DEF A!UpdateRoot
  <2>8. PICK index \in Indices, claimant \in Person, n \in Amounts, proof \in A!Proofs :
            A!Claim(index, claimant, n, proof)
    BY <2>5, <2>6, <2>7 DEF AirdropStep, A!Next
  <2>9. /\ A!verify_proof(A!leaf_hash(index, claimant, n), proof, root)
        /\ tok' \in A!transfer(tok, AirdropVault, claimant, n)
        /\ claimed' = claimed \cup {index}
    BY <2>8 DEF A!Claim
  <2>10. Len(proof) \in Nat
    BY ProofsHaveLength
  <2>11. PICK list \in Lists : \E e \in DOMAIN list :
             /\ A!Commitment(list) = root
             /\ list[e].index = index /\ list[e].claimant = claimant /\ list[e].amount = n
    BY <2>1, <2>9, <2>10, VerifiedIsListed
  <2>. QED  BY <2>9, <2>11
<1>. QED  BY <1>1, <1>2, <1>3, PTL DEF Spec, PayoutsAreListed, A!PayoutsAreListed

-----------------------------------------------------------------------------
(* What is listed can be proved *)

(* The leaf of entry e reaches level k of its tree by a proof of known     *)
(* hashes, one for each level that was shortened.                          *)
Reaches(list, e, k) ==
    \E n \in Nat : \E proof \in [1..n -> A!KnownHashes] : \E f :
        /\ Computes(f, Leaves(list)[e], proof, n)
        /\ \E j \in DOMAIN A!Levels(list)[k] : f[n] = A!Levels(list)[k][j]
        /\ n + Len(A!Levels(list)[k]) <= Len(list)

(* A proof goes on with the neighbour of the hash it has reached.          *)
LEMMA ReachesNext ==
    ASSUME NEW list \in Lists, NEW e \in 1..Len(list), NEW k \in Nat, k + 1 <= Len(list),
           Reaches(list, e, k)
    PROVE  Reaches(list, e, k + 1)
<1>1. /\ Len(list) \in Nat \ {0} /\ DOMAIN list = 1..Len(list)
      /\ IsRow(Leaves(list), Len(list))
  BY ListFacts
<1>2. /\ A!Levels(list)[0] = Leaves(list)
      /\ \A i \in 1..Len(list) : A!Levels(list)[i] = A!NextLevel(A!Levels(list)[i - 1])
      /\ DOMAIN A!Levels(list) = 0..Len(list)
  BY <1>1, LevelsRecursion
<1>3. PICK s : s = A!Levels(list)[k]
  OBVIOUS
<1>4. A!Levels(list)[k + 1] = A!NextLevel(s)
  BY <1>1, <1>2, <1>3
<1>5. k \in 0..Len(list)
  BY <1>1
<1>6. PICK r : IsRow(s, r)
  BY <1>3, <1>5, LevelsShrink
<1>7. r \in Nat \ {0} /\ Len(s) = r /\ DOMAIN s = 1..r
  BY <1>6 DEF IsRow
<1>8. PICK n \in Nat : \E proof \in [1..n -> A!KnownHashes] : \E f :
          /\ Computes(f, Leaves(list)[e], proof, n)
          /\ \E j \in DOMAIN s : f[n] = s[j]
          /\ n + r <= Len(list)
  BY <1>3, <1>7 DEF Reaches
<1>9. PICK proof \in [1..n -> A!KnownHashes] : \E f :
          /\ Computes(f, Leaves(list)[e], proof, n)
          /\ \E j \in DOMAIN s : f[n] = s[j]
          /\ n + r <= Len(list)
  BY <1>8
<1>10. PICK f : /\ Computes(f, Leaves(list)[e], proof, n)
                /\ \E j \in DOMAIN s : f[n] = s[j]
                /\ n + r <= Len(list)
  BY <1>9
<1>11. PICK j \in 1..r : f[n] = s[j]
  BY <1>7, <1>10
<1>12. CASE r = 1
  <2>1. A!NextLevel(s) = s
    BY <1>7, <1>12 DEF A!NextLevel
  <2>. QED  BY <1>4, <1>7, <1>10, <1>11, <2>1 DEF Reaches
<1>13. CASE r > 1
  <2>1. PICK m : /\ IsRow(A!NextLevel(s), m) /\ m < r
                 /\ \A a \in 1..r : \E h \in 1..m : \E b \in 1..r :
                        A!NextLevel(s)[h] = A!combine(s[a], s[b])
    BY <1>6, <1>13, NextRow
  <2>2. m \in Nat /\ Len(A!NextLevel(s)) = m /\ DOMAIN A!NextLevel(s) = 1..m
    BY <2>1 DEF IsRow
  <2>3. PICK h \in 1..m, b \in 1..r : A!NextLevel(s)[h] = A!combine(s[j], s[b])
    BY <2>1
  <2>4. s[b] \in A!KnownHashes
    <3>. DEFINE At(l, i) == {A!Levels(l)[i][d] : d \in DOMAIN A!Levels(l)[i]}
                Of(l) == UNION {At(l, i) : i \in DOMAIN A!Levels(l)}
    <3>1. A!KnownHashes = UNION {Of(l) : l \in Lists}
      BY DEF A!KnownHashes
    <3>2. s[b] \in At(list, k)
      BY <1>3, <1>7
    <3>. HIDE DEF At
    <3>3. s[b] \in Of(list)
      BY <1>2, <1>5, <3>2
    <3>. HIDE DEF Of
    <3>. QED  BY <3>1, <3>3
  <2>. DEFINE longer == [i \in 1..(n + 1) |-> IF i = n + 1 THEN s[b] ELSE proof[i]]
              g == [i \in 0..(n + 1) |-> IF i = n + 1 THEN A!combine(f[n], s[b]) ELSE f[i]]
  <2>5. longer \in [1..(n + 1) -> A!KnownHashes]
    <3>. HIDE DEF A!KnownHashes
    <3>. QED  BY <2>4
  <2>6. Computes(g, Leaves(list)[e], longer, n + 1)
    <3>1. f[0] = Leaves(list)[e] /\ \A i \in 1..n : f[i] = A!combine(f[i - 1], proof[i])
      BY <1>10 DEF Computes
    <3>2. g[0] = Leaves(list)[e]
      BY <3>1
    <3>3. ASSUME NEW i \in 1..(n + 1) PROVE g[i] = A!combine(g[i - 1], longer[i])
      <4>1. CASE i = n + 1
        BY <4>1
      <4>2. CASE i # n + 1
        <5>1. /\ i \in 1..n /\ i - 1 \in 0..n /\ i - 1 # n + 1
              /\ f[i] = A!combine(f[i - 1], proof[i])
          BY <3>1, <4>2
        <5>. QED  BY <5>1
      <4>. QED  BY <4>1, <4>2
    <3>. HIDE DEF g, longer
    <3>. QED  BY <3>2, <3>3 DEF Computes
  <2>7. g[n + 1] = A!NextLevel(s)[h]
    BY <1>11, <2>3
  <2>8. (n + 1) + m <= Len(list) /\ n + 1 \in Nat
    BY <1>1, <1>7, <1>10, <2>1, <2>2
  <2>. HIDE DEF g, longer
  <2>. QED  BY <1>4, <2>2, <2>5, <2>6, <2>7, <2>8 DEF Reaches
<1>. QED  BY <1>7, <1>12, <1>13

LEMMA ReachesRoot ==
    ASSUME NEW list \in Lists, NEW e \in 1..Len(list)
    PROVE  \E n \in Nat : \E proof \in [1..n -> A!KnownHashes] :
               n < Len(list) /\ A!verify_proof(Leaves(list)[e], proof, A!Commitment(list))
<1>1. /\ Len(list) \in Nat \ {0} /\ DOMAIN list = 1..Len(list)
      /\ IsRow(Leaves(list), Len(list))
  BY ListFacts
<1>2. A!Levels(list)[0] = Leaves(list)
  BY <1>1, LevelsRecursion
<1>. DEFINE set == {k \in Nat : k <= Len(list) => Reaches(list, e, k)}
<1>3. 0 \in set
  <2>. DEFINE proof == [i \in 1..0 |-> CHOOSE x \in A!KnownHashes : TRUE]
              f == [i \in 0..0 |-> Leaves(list)[e]]
  <2>1. Computes(f, Leaves(list)[e], proof, 0)
    BY DEF Computes
  <2>2. proof \in [1..0 -> A!KnownHashes]
    <3>. HIDE DEF A!KnownHashes
    <3>. QED  OBVIOUS
  <2>3. /\ \E j \in DOMAIN A!Levels(list)[0] : f[0] = A!Levels(list)[0][j]
        /\ 0 + Len(A!Levels(list)[0]) <= Len(list)
    <3>1. e \in DOMAIN Leaves(list) /\ f[0] = Leaves(list)[e] /\ Len(Leaves(list)) = Len(list)
      BY <1>1 DEF IsRow
    <3>. QED  BY <1>1, <1>2, <3>1
  <2>. HIDE DEF proof, f
  <2>4. Reaches(list, e, 0)
    BY <2>1, <2>2, <2>3, Zenon DEF Reaches
  <2>. QED  BY <2>4
<1>4. ASSUME NEW k \in set PROVE k + 1 \in set
  <2>. SUFFICES ASSUME k + 1 <= Len(list) PROVE Reaches(list, e, k + 1)
    OBVIOUS
  <2>1. k \in Nat /\ Reaches(list, e, k)
    BY <1>1
  <2>. QED  BY <2>1, ReachesNext
<1>5. set = Nat
  <2>. HIDE DEF set
  <2>. QED  BY <1>3, <1>4, InductiveSet DEF set
<1>6. Reaches(list, e, Len(list))
  BY <1>1, <1>5
<1>7. PICK s : s = A!Levels(list)[Len(list)]
  OBVIOUS
<1>8. PICK r : IsRow(s, r) /\ (r = 1 \/ r + Len(list) <= Len(list))
  BY <1>1, <1>7, LevelsShrink
<1>9. r = 1 /\ Len(s) = 1 /\ DOMAIN s = 1..1
  BY <1>1, <1>8 DEF IsRow
<1>10. PICK n \in Nat : \E proof \in [1..n -> A!KnownHashes] : \E f :
          /\ Computes(f, Leaves(list)[e], proof, n)
          /\ \E j \in DOMAIN s : f[n] = s[j]
          /\ n + 1 <= Len(list)
  BY <1>6, <1>7, <1>9 DEF Reaches
<1>11. PICK proof \in [1..n -> A!KnownHashes] : \E f :
          /\ Computes(f, Leaves(list)[e], proof, n)
          /\ \E j \in DOMAIN s : f[n] = s[j]
          /\ n + 1 <= Len(list)
  BY <1>10
<1>12. PICK f : /\ Computes(f, Leaves(list)[e], proof, n)
                /\ \E j \in DOMAIN s : f[n] = s[j]
                /\ n + 1 <= Len(list)
  BY <1>11
<1>13. f[n] = A!Commitment(list)
  BY <1>7, <1>9, <1>12 DEF A!Commitment
<1>14. Len(proof) = n
  <2>. HIDE DEF A!KnownHashes
  <2>. QED  OBVIOUS
<1>15. PICK g : /\ Computes(g, Leaves(list)[e], proof, n)
                /\ A!verify_proof(Leaves(list)[e], proof, A!Commitment(list))
                       <=> g[n] = A!Commitment(list)
  BY <1>14, VerifiesLast
<1>16. f[n] = g[n]
  BY <1>12, <1>15, HashesAgree
<1>17. n < Len(list)
  BY <1>1, <1>12
<1>. QED  BY <1>13, <1>15, <1>16, <1>17

-----------------------------------------------------------------------------
(* The oracle *)

(* Across rotations of the signer and whatever order observations arrive   *)
(* in, a price changes only to a later one signed by the key trusted at    *)
(* the time (oracle lib.rs:33-65).                                         *)
THEOREM PricesAdvance == Spec => PricesMoveForward
<1>1. Init => Typed
  BY InitTyped
<1>2. Typed /\ [Next]_vars => Typed'
  BY NextTyped
<1>3. Typed /\ [Next]_vars =>
          [<<price, time, initialized>>' # <<price, time, initialized>> =>
               /\ initialized => time' > time
               /\ [key |-> signer, price |-> price', time |-> time'] \in signed]_(O!vars)
  <2>. SUFFICES ASSUME Typed, [Next]_vars,
                       <<price, time, initialized>>' # <<price, time, initialized>>
                PROVE  /\ initialized => time' > time
                       /\ [key |-> signer, price |-> price', time |-> time'] \in signed
    OBVIOUS
  <2>1. PICK o \in signed : O!Publish(o)
    BY Frames DEF oracle, OracleStep, O!Next, O!Sign, O!SetSigner
  <2>2. signed \subseteq O!Observation
    BY DEF Typed, TypeOK, O!TypeOK
  <2>3. o = [key |-> signer, price |-> price', time |-> time']
    BY <2>1, <2>2 DEF O!Publish, O!Observation
  <2>4. initialized => time' > time
    BY <2>1 DEF O!Publish, O!Fresh
  <2>. QED  BY <2>1, <2>3, <2>4
<1>. QED  BY <1>1, <1>2, <1>3, PTL DEF Spec, PricesMoveForward, O!PricesMoveForward

-----------------------------------------------------------------------------
(* The authorization contracts *)

(* Only signers approve.                                                   *)
ApprovedBySigners == \A proposal \in Proposal : approvals[proposal] \subseteq config.signers

Quorate == Typed /\ ApprovedBySigners /\ ExecutedByQuorum

LEMMA InitQuorate == Init => Quorate
<1>. SUFFICES ASSUME Init PROVE Quorate
  OBVIOUS
<1>1. approvals = [p \in Proposal |-> {}] /\ executed = {}
  BY DEF Init, M!Init
<1>. QED
  BY <1>1, InitTyped DEF Quorate, ApprovedBySigners, ExecutedByQuorum, M!ExecutedByQuorum

LEMMA NextQuorate == Quorate /\ [Next]_vars => Quorate'
<1>. SUFFICES ASSUME Quorate, [Next]_vars PROVE Quorate'
  OBVIOUS
<1>1. Typed'
  BY NextTyped DEF Quorate
<1>2. /\ approvals \in [Proposal -> SUBSET Person]
      /\ executed \subseteq Proposal
      /\ \A proposal \in Proposal : approvals[proposal] \subseteq config.signers
      /\ \A proposal \in executed :
             \E quorum \in SUBSET config.signers :
                 quorum \subseteq approvals[proposal] /\ M!Cardinality(quorum) >= config.threshold
  BY DEF Quorate, Typed, TypeOK, M!TypeOK, ApprovedBySigners, ExecutedByQuorum, M!ExecutedByQuorum
<1>3. ASSUME NEW p \in Person, NEW proposal \in Proposal, M!Approve(p, proposal)
      PROVE  ApprovedBySigners' /\ ExecutedByQuorum'
  <2>1. /\ config' = config /\ executed' = executed /\ p \in config.signers
        /\ \A q \in Proposal : approvals'[q] = IF q = proposal THEN approvals[q] \cup {p} ELSE approvals[q]
    BY <1>2, <1>3 DEF M!Approve
  <2>2. ApprovedBySigners'
    BY <1>2, <2>1 DEF ApprovedBySigners
  <2>3. ExecutedByQuorum'
    BY <1>2, <2>1 DEF ExecutedByQuorum, M!ExecutedByQuorum
  <2>. QED  BY <2>2, <2>3
<1>4. ASSUME NEW proposal \in Proposal, M!Execute(proposal)
      PROVE  ApprovedBySigners' /\ ExecutedByQuorum'
  <2>1. /\ config' = config /\ approvals' = approvals
        /\ executed' = executed \cup {proposal}
        /\ M!Cardinality(approvals[proposal]) >= config.threshold
    BY <1>4 DEF M!Execute, M!is_approved
  <2>. QED  BY <1>2, <2>1 DEF ApprovedBySigners, ExecutedByQuorum, M!ExecutedByQuorum
<1>5. ASSUME UNCHANGED multisignature
      PROVE  ApprovedBySigners' /\ ExecutedByQuorum'
  <2>1. config' = config /\ approvals' = approvals /\ executed' = executed
    BY <1>5 DEF multisignature
  <2>2. ApprovedBySigners'
    BY <1>2, <2>1 DEF ApprovedBySigners
  <2>3. ExecutedByQuorum'
    BY <1>2, <2>1 DEF ExecutedByQuorum, M!ExecutedByQuorum
  <2>. QED  BY <2>2, <2>3
<1>. QED  BY <1>1, <1>3, <1>4, <1>5, Frames DEF Quorate, MultiSignatureStep, M!Next

(* Whatever was executed has as many signers behind that proposal as the   *)
(* threshold asks, for any signers, equal ones included, and any threshold *)
(* (multi-signature lib.rs:85-120).                                        *)
THEOREM QuorumsExecute == Spec => []ExecutedByQuorum
<1>1. Quorate => ExecutedByQuorum
  BY DEF Quorate
<1>. QED  BY <1>1, InitQuorate, NextQuorate, PTL DEF Spec

-----------------------------------------------------------------------------
(* Payments in the test asset *)

LEMMA CoinsStep ==
    ASSUME Typed, NEW from \in Person, NEW to \in Person, NEW n \in Amounts, Q!Pay(from, to, n)
    PROVE  /\ n \in Nat /\ n <= coins[from]
           /\ \A p \in Person : coins[p] \in Int
           /\ \A p \in Person : coins'[p] = IF p = to THEN coins[to] + n
                                           ELSE IF p = from THEN coins[from] - n ELSE coins[p]
<1>1. /\ coins \in [Address -> Int] /\ Person \subseteq Address /\ n \in Int
  BY PartiesAssumption, AmountsAssumption, WidthAssumption DEF Typed, TypeOK, T!I128
<1>2. /\ n >= 0 /\ n <= coins[from]
      /\ coins' = [[coins EXCEPT ![from] = coins[from] - n] EXCEPT ![to] = coins[to] + n]
  BY DEF Q!Pay, T!transfer
<1>. QED  BY <1>1, <1>2

(* A payment between two parties conserves what they have together, takes  *)
(* no more than the payer holds and nothing from the payee (payment        *)
(* lib.rs:25-34, test-asset lib.rs:57-71).                                 *)
THEOREM PaymentsConserved == Spec => PaymentsConserve
<1>1. Init => Typed
  BY InitTyped
<1>2. Typed /\ [Next]_vars => Typed'
  BY NextTyped
<1>3. Typed => [ \A p, q \in Person, n \in Amounts :
            p # q /\ Q!Pay(p, q, n) =>
                /\ coins'[p] + coins'[q] = coins[p] + coins[q]
                /\ coins'[p] >= 0 /\ coins'[q] >= coins[q] ]_vars
  <2>. SUFFICES ASSUME Typed, NEW p \in Person, NEW q \in Person, NEW n \in Amounts,
                       p # q, Q!Pay(p, q, n)
                PROVE  /\ coins'[p] + coins'[q] = coins[p] + coins[q]
                       /\ coins'[p] >= 0 /\ coins'[q] >= coins[q]
    OBVIOUS
  <2>1. /\ n \in Nat /\ n <= coins[p]
        /\ \A a \in Person : coins[a] \in Int
        /\ \A a \in Person : coins'[a] = IF a = q THEN coins[q] + n
                                        ELSE IF a = p THEN coins[p] - n ELSE coins[a]
    BY CoinsStep
  <2>. QED  BY <2>1
<1>. QED  BY <1>1, <1>2, <1>3, PTL DEF Spec, PaymentsConserve

-----------------------------------------------------------------------------
(* The escrow implements custody *)

wealthOfAsset == [a \in {"asset"} |-> tok.bal]

(* A transfer of the asset is a move of the abstract custody.              *)
LEMMA TransferIsMove ==
    ASSUME TypeOK, NEW from \in Address, NEW to \in Address, NEW n \in Int,
           tok' \in transfer(tok, from, to, n)
    PROVE  n \in E!Held /\ E!Kept!Move("asset", from, to, n)
<1>1. tok \in Storage
  BY DEF TypeOK
<1>2. n \in Nat /\ n <= tok.bal[from] /\ n <= MaxI128 /\ tok' \in Storage
  BY <1>1, TransferMoves
<1>3. /\ from = to => tok'.bal = tok.bal
      /\ from # to => tok'.bal = [tok.bal EXCEPT ![from] = @ - n, ![to] = @ + n]
  BY <1>1, TransferBalances
<1>4. wealthOfAsset["asset"] = tok.bal /\ DOMAIN wealthOfAsset = {"asset"}
      /\ tok.bal \in [Address -> Held]
  BY <1>1 DEF wealthOfAsset, Storage
<1>5. wealthOfAsset' = [wealthOfAsset EXCEPT !["asset"] = tok'.bal]
  BY <1>4 DEF wealthOfAsset
<1>6. wealthOfAsset' = IF from = to THEN wealthOfAsset
                       ELSE [wealthOfAsset EXCEPT !["asset"][from] = @ - n, !["asset"][to] = @ + n]
  <2>1. CASE from = to
    BY <1>3, <1>4, <2>1 DEF wealthOfAsset
  <2>2. CASE from # to
    <3>1. wealthOfAsset' = [wealthOfAsset EXCEPT !["asset"] =
                               [wealthOfAsset["asset"] EXCEPT ![from] = @ - n, ![to] = @ + n]]
      BY <1>3, <1>4, <1>5, <2>2
    <3>. QED  BY <1>4, <2>2, <3>1
  <2>. QED  BY <2>1, <2>2
<1>7. n \in E!Held
  BY <1>2, WidthAssumption DEF E!Held
<1>. QED  BY <1>2, <1>4, <1>6, <1>7 DEF E!Kept!Move, wealthOfAsset

LEMMA InitRefines == Init => E!Kept!Init
<1>. SUFFICES ASSUME Init PROVE E!Kept!Init
  OBVIOUS
<1>1. tok.bal \in [Address -> Nat]
  BY InitTyped, WidthAssumption DEF Typed, TypeOK, Storage, Held
<1>2. held = 0 /\ state = "Active"
  BY DEF Init, E!Init
<1>. QED  BY <1>1, <1>2 DEF E!Kept!Init

(* What a movement of the asset that is not the escrow's is in custody.    *)
LEMMA OtherMoves ==
    ASSUME TypeOK, UNCHANGED escrow, NEW from \in Address, NEW to \in Address, NEW n \in Int,
           from # EscrowVault, tok' \in transfer(tok, from, to, n)
    PROVE  E!Kept!Next
<1>1. n \in E!Held /\ E!Kept!Move("asset", from, to, n)
  BY TransferIsMove
<1>2. held' = held /\ state' = state
  BY DEF escrow
<1>3. E!Kept!Pay("asset", from, to, n)
  BY <1>1, <1>2 DEF E!Kept!Pay
<1>. QED  BY <1>1, <1>3 DEF E!Kept!Next

LEMMA NextRefines == Typed /\ [Next]_vars => [E!Kept!Next]_(E!Kept!vars)
<1>. SUFFICES ASSUME Typed, [Next]_vars PROVE [E!Kept!Next]_(E!Kept!vars)
  OBVIOUS
<1>1. /\ TypeOK /\ held \in Nat /\ held \in Int
      /\ Person \subseteq Address
      /\ {EscrowVault, VestingVault, AirdropVault} \subseteq Address \ Person
      /\ EscrowVault # VestingVault /\ EscrowVault # AirdropVault
      /\ {Depositor, Beneficiary} \subseteq Person /\ EscrowBeneficiary \in Address
      /\ Amounts \subseteq Int
      /\ V!claimable \subseteq Int
  BY PartiesAssumption, AmountsAssumption, WidthAssumption, ClaimableType
     DEF Typed, TypeOK, E!TypeOK, E!Held
<1>2. ASSUME NEW p \in Person, NEW n \in Amounts, E!Deposit(p, n)
      PROVE  E!Kept!Next
  <2>1. /\ n > 0 /\ p = Depositor /\ state = "Active" /\ state' = state
        /\ held' = held + n
        /\ tok' \in transfer(tok, Depositor, EscrowVault, n)
    BY <1>2, SameTransfer DEF E!Deposit
  <2>2. /\ n \in E!Held /\ E!Kept!Move("asset", Depositor, EscrowVault, n)
        /\ Depositor \in Address /\ Depositor # EscrowVault /\ n \in Int
    BY <1>1, <2>1, TransferIsMove
  <2>3. held' # 0
    BY <1>1, <2>1, <2>2
  <2>. DEFINE parties == {Depositor, EscrowBeneficiary}
  <2>4. CASE held = 0
    <3>1. held' = n
      BY <2>1, <2>2, <2>4
    <3>2. E!Kept!Open("asset", "escrow", Depositor, n, parties)
      BY <2>1, <2>2, <2>3, <2>4, <3>1 DEF E!Kept!Open
    <3>. QED  BY <1>1, <2>2, <3>2 DEF E!Kept!Next
  <2>5. CASE held # 0
    <3>1. E!Kept!Raise("asset", "escrow", Depositor, n)
      BY <2>1, <2>2, <2>3, <2>5 DEF E!Kept!Raise
    <3>. QED  BY <2>2, <3>1 DEF E!Kept!Next
  <2>. QED  BY <2>4, <2>5
<1>3. ASSUME NEW p \in Person, E!Release(p) \/ E!Refund(p)
      PROVE  E!Kept!Next
  <2>1. PICK to \in {Depositor, EscrowBeneficiary}, outcome \in {"Released", "Refunded"} :
            E!PayOut(to, outcome)
    BY <1>3 DEF E!Release, E!Refund
  <2>2. /\ to \in Address /\ held > 0 /\ state = "Active" /\ held' = 0 /\ state' # "Active"
        /\ tok' \in transfer(tok, EscrowVault, to, held)
    BY <1>1, <2>1, SameTransfer DEF E!PayOut
  <2>3. E!Kept!Move("asset", EscrowVault, to, held)
    BY <1>1, <2>2, TransferIsMove
  <2>4. held # 0
    BY <1>1, <2>2
  <2>5. E!Kept!Settle("asset", "escrow", to)
    BY <2>1, <2>2, <2>3, <2>4 DEF E!Kept!Settle
  <2>. QED  BY <2>2, <2>5 DEF E!Kept!Next
<1>4. CASE EscrowStep
  BY <1>2, <1>3, <1>4 DEF EscrowStep, E!Next
<1>5. CASE UNCHANGED escrow
  <2>1. CASE UNCHANGED tok
    BY <1>5, <2>1 DEF escrow, E!Kept!vars
  <2>2. CASE EscrowStep
    BY <1>4, <2>2
  <2>. QED  BY <1>1, <1>5, <2>1, <2>2, OtherMoves, Movements
<1>. QED  BY <1>4, <1>5, Frames

(* The escrow implements custody next to any other contracts on the asset: *)
(* what was deposited is paid once, whole, to one of the two parties, and  *)
(* the contract's funds move for no other reason (escrow lib.rs:99-171).   *)
THEOREM EscrowImplementsCustody == Spec => ImplementsCustody
<1>1. Init => Typed /\ E!Kept!Init
  BY InitTyped, InitRefines
<1>2. Typed /\ [Next]_vars => Typed' /\ [E!Kept!Next]_(E!Kept!vars)
  BY NextTyped, NextRefines
<1>. QED  BY <1>1, <1>2, PTL DEF Spec, ImplementsCustody, E!ImplementsCustody, E!Kept!Spec

-----------------------------------------------------------------------------
(* The arbiter's choice *)

Covered ==
    /\ Typed
    /\ Total(tok.bal) = Total(Endowment)
    /\ held <= tok.bal[EscrowVault]
    /\ held > 0 => state = "Active"

LEMMA InitCovered == Init => Covered
<1>. SUFFICES ASSUME Init PROVE Covered
  OBVIOUS
<1>1. tok.bal = Endowment
  BY DEF Init, EmptyStorage
<1>2. held = 0 /\ tok.bal[EscrowVault] \in Nat
  BY <1>1, EndowmentAssumption, PartiesAssumption, WidthAssumption DEF Init, E!Init, Held
<1>. QED  BY <1>1, <1>2, InitTyped DEF Covered

LEMMA NextCovered == Covered /\ [Next]_vars => Covered'
<1>. SUFFICES ASSUME Covered, [Next]_vars PROVE Covered'
  OBVIOUS
<1>1. /\ Typed /\ Typed' /\ TypeOK /\ tok \in Storage /\ held \in Nat /\ held \in Int
      /\ tok.bal[EscrowVault] \in Nat /\ EscrowVault \in Address /\ EscrowVault \notin Person
      /\ VestingVault \in Address /\ VestingVault # EscrowVault
      /\ AirdropVault \in Address /\ AirdropVault # EscrowVault
      /\ Person \subseteq Address /\ Beneficiary \in Address /\ Depositor \in Person
      /\ Amounts \subseteq Int /\ V!claimable \subseteq Int
  BY NextTyped, PartiesAssumption, AmountsAssumption, WidthAssumption, ClaimableType
     DEF Covered, Typed, TypeOK, E!TypeOK, E!Held, Storage, Held
<1>2. ASSUME NEW from \in Address, NEW to \in Address, NEW n \in Int, tok' \in transfer(tok, from, to, n)
      PROVE  /\ Total(tok'.bal) = Total(tok.bal)
             /\ from # EscrowVault => tok'.bal[EscrowVault] >= tok.bal[EscrowVault]
             /\ n \in Nat
  <2>1. /\ n \in Nat
        /\ tok' \in Storage
        /\ tok'.allow = tok.allow
        /\ n <= tok.bal[from]
        /\ Total(tok'.bal) = Total(tok.bal)
    BY <1>1, <1>2, TransferOutcome
  <2>2. /\ n \in Nat /\ n <= tok.bal[from] /\ n <= MaxI128
        /\ tok' \in Storage
        /\ \A a \in Address : tok.bal[a] \in Nat /\ tok'.bal[a] \in Nat
        /\ \A a \in Address : a # from => tok'.bal[a] >= tok.bal[a]
        /\ \A a \in Address : a = from => tok'.bal[a] >= tok.bal[a] - n
    BY <1>1, <1>2, TransferMoves
  <2>. QED  BY <1>1, <2>1, <2>2
<1>3. tok'.bal[EscrowVault] \in Nat
  BY <1>1, WidthAssumption DEF Typed, TypeOK, Storage, Held
<1>4. ASSUME NEW p \in Person, NEW n \in Amounts, E!Deposit(p, n) PROVE Covered'
  <2>1. /\ n > 0 /\ p = Depositor /\ state = "Active" /\ state' = state
        /\ held' = held + n
        /\ tok' \in transfer(tok, Depositor, EscrowVault, n)
    BY <1>4, SameTransfer DEF E!Deposit
  <2>2. n \in Int /\ Depositor \in Address /\ Depositor # EscrowVault
    BY <1>1
  <2>3. /\ Depositor = EscrowVault => tok'.bal = tok.bal
        /\ Depositor # EscrowVault =>
               tok'.bal = [tok.bal EXCEPT ![Depositor] = @ - n, ![EscrowVault] = @ + n]
    BY <1>1, <2>1, <2>2, TransferBalances
  <2>4. tok'.bal[EscrowVault] = tok.bal[EscrowVault] + n
    BY <1>1, <2>2, <2>3 DEF Storage
  <2>5. Total(tok'.bal) = Total(tok.bal)
    BY <1>1, <1>2, <2>1, <2>2
  <2>. QED  BY <1>1, <2>1, <2>2, <2>4, <2>5 DEF Covered
<1>5. ASSUME NEW p \in Person, E!Release(p) \/ E!Refund(p) PROVE Covered'
  <2>1. PICK to \in Address : tok' \in transfer(tok, EscrowVault, to, held) /\ held' = 0
    BY <1>1, <1>5, SameTransfer, PartiesAssumption DEF E!Release, E!Refund, E!PayOut
  <2>2. Total(tok'.bal) = Total(tok.bal)
    BY <1>1, <1>2, <2>1
  <2>. QED  BY <1>1, <1>3, <2>1, <2>2 DEF Covered
<1>6. CASE EscrowStep
  BY <1>4, <1>5, <1>6 DEF EscrowStep, E!Next
<1>7. CASE UNCHANGED escrow /\ ~EscrowStep
  <2>1. held' = held /\ state' = state
    BY <1>7 DEF escrow
  <2>2. UNCHANGED tok \/ \E from \in Address, to \in Address, n \in Int :
                             from # EscrowVault /\ tok' \in transfer(tok, from, to, n)
    BY <1>1, <1>7, Movements
  <2>3. Total(tok'.bal) = Total(tok.bal) /\ tok'.bal[EscrowVault] >= tok.bal[EscrowVault]
    BY <1>1, <1>2, <2>2
  <2>. QED  BY <1>1, <1>3, <2>1, <2>3 DEF Covered
<1>. QED  BY <1>6, <1>7, Frames

(* As long as the endowments together fit i128 (no contract here mints the *)
(* asset), both payouts of the escrow go through when anything is held: what*)
(* the vault holds covers the deal whatever the other contracts did, and   *)
(* no party can be made too rich to be paid (escrow lib.rs:123-171).       *)
THEOREM ArbiterIsFree ==
    ASSUME Total(Endowment) <= MaxI128
    PROVE  Spec => []BothOutcomesPossible
<1>1. Covered => BothOutcomesPossible
  <2>. SUFFICES ASSUME Covered, held > 0
                PROVE  /\ state = "Active"
                       /\ E!transfer(tok, EscrowVault, EscrowBeneficiary, held) # E!Panic
                       /\ E!transfer(tok, EscrowVault, Depositor, held) # E!Panic
    BY DEF BothOutcomesPossible, E!BothOutcomesPossible
  <2>1. /\ tok \in Storage /\ held \in Nat /\ held <= tok.bal[EscrowVault]
        /\ Total(tok.bal) <= MaxI128
        /\ EscrowVault \in Address /\ EscrowBeneficiary \in Address /\ Depositor \in Address
    BY PartiesAssumption, WidthAssumption DEF Covered, Typed, TypeOK, E!TypeOK, E!Held
  <2>2. /\ transfer(tok, EscrowVault, EscrowBeneficiary, held) # Panic
        /\ transfer(tok, EscrowVault, Depositor, held) # Panic
    BY <2>1, AffordableGoesThrough
  <2>. QED  BY <2>2, SameTransfer DEF Covered, Panic, E!Panic
<1>. QED  BY <1>1, InitCovered, NextCovered, PTL DEF Spec

(* Nobody on the list is locked out: the odd one out included, everyone the*)
(* current root commits to has a proof of fewer siblings than the list has *)
(* entries, and is paid by it while the contract has the funds and the     *)
(* index is unused.  ProofLength is the model's own bound on proofs, so it *)
(* must admit these; and no claimant is too rich to be paid (merkle-airdrop*)
(* lib.rs:164-183).                                                        *)
THEOREM ListedIsPaid ==
    ASSUME Total(Endowment) <= MaxI128, ProofLength \in Nat,
           \A list \in Lists : Len(list) <= ProofLength + 1
    PROVE  Spec => []ListedCanClaim
<1>1. Covered => ListedCanClaim
  <2>. SUFFICES ASSUME Covered, NEW list \in Lists, NEW k \in DOMAIN list,
                       A!Commitment(list) = root,
                       list[k].amount \in 1..tok.bal[AirdropVault]
                PROVE  \E proof \in A!Proofs :
                           /\ A!verify_proof(A!leaf_hash(list[k].index, list[k].claimant,
                                                         list[k].amount), proof, root)
                           /\ A!transfer(tok, AirdropVault, list[k].claimant,
                                         list[k].amount) # A!Panic
    BY DEF ListedCanClaim, A!ListedCanClaim
  <2>1. /\ Len(list) \in Nat \ {0} /\ DOMAIN list = 1..Len(list)
        /\ list[k].claimant \in Address
    BY ListFacts
  <2>2. PICK n \in Nat : \E proof \in [1..n -> A!KnownHashes] :
            n < Len(list) /\ A!verify_proof(Leaves(list)[k], proof, A!Commitment(list))
    BY <2>1, ReachesRoot
  <2>3. PICK proof \in [1..n -> A!KnownHashes] :
            n < Len(list) /\ A!verify_proof(Leaves(list)[k], proof, A!Commitment(list))
    BY <2>2
  <2>4. n \in 0..ProofLength
    BY <2>1, <2>3
  <2>5. proof \in A!Proofs
    <3>. DEFINE Of(i) == [1..i -> A!KnownHashes]
    <3>1. A!Proofs = UNION {Of(i) : i \in 0..ProofLength}
      BY DEF A!Proofs
    <3>2. proof \in Of(n)
      OBVIOUS
    <3>. HIDE DEF Of
    <3>. QED  BY <2>4, <3>1, <3>2
  <2>6. Leaves(list)[k] = A!leaf_hash(list[k].index, list[k].claimant, list[k].amount)
    BY DEF Leaves
  <2>7. transfer(tok, AirdropVault, list[k].claimant, list[k].amount) # Panic
    <3>1. /\ tok \in Storage /\ AirdropVault \in Address
          /\ tok.bal[AirdropVault] \in Nat /\ Total(tok.bal) <= MaxI128
      BY PartiesAssumption, WidthAssumption DEF Covered, Typed, TypeOK, Storage, Held
    <3>2. list[k].amount \in Nat /\ list[k].amount <= tok.bal[AirdropVault]
      BY <3>1
    <3>. QED  BY <2>1, <3>1, <3>2, AffordableGoesThrough
  <2>. QED  BY <2>3, <2>5, <2>6, <2>7, SameTransfer DEF Panic, A!Panic
<1>. QED  BY <1>1, InitCovered, NextCovered, PTL DEF Spec

=============================================================================
