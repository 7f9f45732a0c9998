------------------------ MODULE AllowanceManagerProofs ------------------------
(***************************************************************************)
(* What the delegated spending manager guarantees for every set of owners, *)
(* spenders, amounts and host limits.                                      *)
(***************************************************************************)
EXTENDS AllowanceManager, Sep41Proofs

(* Exposure is inductive once the storage is known to be well typed, and   *)
(* the storage stays well typed only if entries outlive their expiration.  *)
IInv == TypeOK /\ Lasting(tok) /\ ExposureWithinPolicy

LEMMA InitIInv == Init => IInv
<1>. SUFFICES ASSUME Init PROVE IInv
  OBVIOUS
<1>1. /\ tok.bal = Endowment
      /\ tok.allow = [p \in Pair |-> NoEntry]
      /\ tok = [bal |-> Endowment, allow |-> [p \in Pair |-> NoEntry]]
  BY DEF Init, EmptyStorage
<1>2. NoEntry \in Entry /\ 0 \in Held
  BY WidthAssumption DEF NoEntry, Entry, Held
<1>3. tok \in Storage
  BY <1>1, <1>2, EndowmentAssumption DEF Storage
<1>4. Lasting(tok)
  BY <1>1 DEF Lasting, NoEntry
<1>5. TypeOK
  BY <1>2, <1>3, SeqAssumption DEF Init, TypeOK
<1>6. ExposureWithinPolicy
  <2>1. SUFFICES ASSUME NEW owner \in Address
                 PROVE  tok.allow[<<owner, Manager>>].amount <= policy[<<owner, Manager>>]
    BY ManagerAssumption DEF ExposureWithinPolicy
  <2>2. <<owner, Manager>> \in Pair
    BY ManagerAssumption DEF Pair
  <2>. QED  BY <1>1, <2>2 DEF Init, NoEntry
<1>. QED  BY <1>4, <1>5, <1>6 DEF IInv

(* A policy change: the policy and the token's allowance are set to the    *)
(* same amount.                                                            *)
LEMMA SyncStep ==
    ASSUME IInv, NEW p \in Pair, NEW n \in Held, NEW x \in Nat,
           policy' = [policy EXCEPT ![p] = n],
           tok' \in sync_token_allowance(p[1], n, x),
           UNCHANGED seq
    PROVE  IInv' /\ tok'.bal = tok.bal
<1>. DEFINE m == <<p[1], Manager>>
<1>1. /\ tok \in Storage /\ Lasting(tok)
      /\ policy \in [Pair -> Held]
      /\ seq \in Nat \ {0} /\ seq \in 1..MaxSeq
  BY SeqAssumption DEF IInv, TypeOK
<1>2. p[1] \in Address /\ p[2] \in Address /\ p = <<p[1], p[2]>> /\ m \in Pair
  BY ManagerAssumption DEF Pair
<1>3. tok' \in write_allowance(tok, seq, m, n, x)
  BY WidthAssumption DEF sync_token_allowance, approve, check_nonnegative_amount, Panic, Held
<1>4. /\ tok' \in Storage
      /\ Lasting(tok')
      /\ tok'.bal = tok.bal
      /\ n > 0 => x >= seq
      /\ tok'.allow[m].amount = n
      /\ tok'.allow[m].expiration = x
      /\ \A q \in Pair : q # m => tok'.allow[q] = tok.allow[q]
  BY <1>1, <1>2, <1>3, WriteAllowanceOutcome
<1>5. TypeOK'
  BY <1>1, <1>4 DEF TypeOK
<1>6. ASSUME NEW owner \in Address \ DirectOwners
      PROVE  \E spender \in Address :
                 tok'.allow[<<owner, Manager>>].amount <= policy'[<<owner, spender>>]
  <2>1. CASE owner = p[1]
    <3>1. policy'[<<owner, p[2]>>] = n
      BY <1>1, <1>2, <2>1
    <3>. QED  BY <1>2, <1>4, <2>1, <3>1, WidthAssumption DEF Held
  <2>2. CASE owner # p[1]
    <3>1. PICK spender \in Address :
              tok.allow[<<owner, Manager>>].amount <= policy[<<owner, spender>>]
      BY DEF IInv, ExposureWithinPolicy
    <3>2. /\ <<owner, Manager>> \in Pair /\ <<owner, Manager>> # m
          /\ <<owner, spender>> \in Pair /\ <<owner, spender>> # p
      BY <1>2, <2>2, ManagerAssumption DEF Pair
    <3>3. /\ tok'.allow[<<owner, Manager>>] = tok.allow[<<owner, Manager>>]
          /\ policy'[<<owner, spender>>] = policy[<<owner, spender>>]
      BY <1>1, <1>4, <3>2
    <3>. QED  BY <3>1, <3>3
  <2>. QED  BY <2>1, <2>2
<1>. QED  BY <1>4, <1>5, <1>6 DEF IInv, ExposureWithinPolicy

(* A pull: the policy of one spender and the token's allowance fall by the *)
(* same amount, or nothing is pulled at all.                               *)
LEMMA PullStep ==
    ASSUME IInv, NEW p \in Pair, NEW to \in Address, NEW n \in Int, TransferFrom(p, to, n)
    PROVE  IInv'
<1>. DEFINE m == <<p[1], Manager>>
<1>1. /\ tok \in Storage /\ Lasting(tok)
      /\ policy \in [Pair -> Held]
      /\ seq \in Nat \ {0} /\ seq \in 1..MaxSeq
  BY SeqAssumption DEF IInv, TypeOK
<1>2. p[1] \in Address /\ p[2] \in Address /\ p = <<p[1], p[2]>> /\ m \in Pair
  BY ManagerAssumption DEF Pair
<1>3. /\ n >= 0 /\ policy[p] >= n
      /\ policy' = [policy EXCEPT ![p] = @ - n]
      /\ tok' \in transfer_from(tok, seq, Manager, p[1], to, n)
      /\ seq' = seq
  BY DEF TransferFrom, Debit
<1>4. /\ n \in Nat
      /\ tok' \in Storage
      /\ Lasting(tok')
      /\ \E u \in spend_allowance(tok, seq, <<p[1], Manager>>, n) :
             u \in Storage /\ u.bal = tok.bal /\ tok'.allow = u.allow /\ tok' \in transfer(u, p[1], to, n)
  BY <1>1, <1>2, <1>3, ManagerAssumption, TransferFromOutcome
<1>5. PICK u \in spend_allowance(tok, seq, m, n) : tok'.allow = u.allow
  BY <1>4
<1>6. /\ u \in Storage
      /\ Lasting(u)
      /\ u.bal = tok.bal
      /\ n = 0 => u = tok
      /\ n > 0 => /\ tok.allow[m].expiration >= seq
                  /\ n <= tok.allow[m].amount
                  /\ u.allow[m].amount = tok.allow[m].amount - n
                  /\ u.allow[m].expiration = tok.allow[m].expiration
                  /\ \A q \in Pair : q # m => u.allow[q] = tok.allow[q]
  BY <1>1, <1>2, <1>4, <1>5, SpendAllowanceOutcome
<1>7. policy[p] \in Nat /\ policy[p] - n \in Held
  BY <1>1, <1>3, <1>4, WidthAssumption DEF Held
<1>8. TypeOK'
  BY <1>1, <1>3, <1>4, <1>7 DEF TypeOK
<1>9. ASSUME NEW owner \in Address \ DirectOwners
      PROVE  \E spender \in Address :
                 tok'.allow[<<owner, Manager>>].amount <= policy'[<<owner, spender>>]
  <2>. DEFINE k == <<owner, Manager>>
  <2>1. PICK spender \in Address : tok.allow[k].amount <= policy[<<owner, spender>>]
    BY DEF IInv, ExposureWithinPolicy
  <2>. DEFINE q == <<owner, spender>>
  <2>2. k \in Pair /\ q \in Pair
    BY ManagerAssumption DEF Pair
  <2>3. tok.allow[k].amount \in Nat /\ policy[q] \in Nat
    <3>1. tok.allow[k] \in Entry /\ policy[q] \in Held
      BY <1>1, <2>2 DEF Storage
    <3>. QED  BY <3>1, WidthAssumption DEF Entry, Held
  <2>4. policy'[q] = IF q = p THEN policy[q] - n ELSE policy[q]
    BY <1>1, <1>3, <2>2
  <2>5. tok'.allow[k].amount = IF k = m THEN tok.allow[k].amount - n ELSE tok.allow[k].amount
    <3>1. CASE n = 0
      BY <1>5, <1>6, <2>3, <3>1
    <3>2. CASE n > 0
      BY <1>5, <1>6, <2>2, <3>2
    <3>. QED  BY <1>4, <3>1, <3>2
  <2>6. q = p => k = m
    BY <1>2
  <2>7. tok'.allow[k].amount <= policy'[q]
    BY <1>4, <2>1, <2>3, <2>4, <2>5, <2>6
  <2>. QED  BY <2>7
<1>. QED  BY <1>4, <1>8, <1>9 DEF IInv, ExposureWithinPolicy

(* The three policy changes are each a SyncStep.                           *)
LEMMA PolicyStep ==
    ASSUME IInv, NEW p \in Policies, NEW n \in Amounts, NEW x \in Expirations,
           Approve(p, n, x) \/ IncreaseAllowance(p, n, x) \/ DecreaseAllowance(p, n, x)
    PROVE  IInv' /\ tok'.bal = tok.bal
<1>1. /\ p \in Pair /\ x \in Nat /\ n \in Int /\ n <= MaxI128
      /\ policy[p] \in Nat /\ policy[p] <= MaxI128
  BY PoliciesAssumption, AmountsAssumption, WidthAssumption DEF IInv, TypeOK, Held
<1>2. CASE Approve(p, n, x)
  <2>1. n \in Held
    BY <1>1, <1>2, WidthAssumption DEF Approve, Held
  <2>. QED  BY <1>1, <1>2, <2>1, SyncStep DEF Approve, SetPolicy
<1>3. CASE IncreaseAllowance(p, n, x)
  <2>1. policy[p] + n \in Held
    BY <1>1, <1>3, WidthAssumption DEF IncreaseAllowance, Held
  <2>. QED  BY <1>1, <1>3, <2>1, SyncStep DEF IncreaseAllowance, SetPolicy
<1>4. CASE DecreaseAllowance(p, n, x)
  <2>1. policy[p] - n \in Held
    BY <1>1, <1>4, WidthAssumption DEF DecreaseAllowance, Held
  <2>. QED  BY <1>1, <1>4, <2>1, SyncStep DEF DecreaseAllowance, SetPolicy
<1>. QED  BY <1>2, <1>3, <1>4

(* A transfer outside the manager changes no allowance.                    *)
LEMMA TokenTransferStep ==
    ASSUME IInv, NEW from \in Address, NEW to \in Address, NEW n \in Amounts,
           TokenTransfer(from, to, n)
    PROVE  IInv'
<1>1. /\ tok \in Storage
      /\ n \in Int
      /\ tok' \in transfer(tok, from, to, n)
      /\ UNCHANGED <<policy, seq>>
  BY AmountsAssumption, WidthAssumption DEF IInv, TypeOK, TokenTransfer
<1>2. /\ n \in Nat
      /\ tok' \in Storage
      /\ tok'.allow = tok.allow
      /\ n <= tok.bal[from]
      /\ Total(tok'.bal) = Total(tok.bal)
  BY <1>1, TransferOutcome
<1>3. Lasting(tok')
  BY <1>2 DEF IInv, Lasting
<1>. QED  BY <1>1, <1>2, <1>3 DEF IInv, TypeOK, ExposureWithinPolicy

(* An approval outside the manager concerns only the owner that made it.   *)
LEMMA TokenApproveStep ==
    ASSUME IInv, NEW owner \in DirectOwners, NEW n \in Amounts, NEW x \in Expirations,
           TokenApprove(owner, n, x)
    PROVE  IInv' /\ tok'.bal = tok.bal
<1>. DEFINE m == <<owner, Manager>>
<1>1. /\ tok \in Storage /\ Lasting(tok)
      /\ seq \in Nat \ {0}
      /\ owner \in Address /\ m \in Pair /\ x \in Nat
      /\ UNCHANGED <<policy, seq>>
  BY ManagerAssumption, PoliciesAssumption, SeqAssumption DEF IInv, TypeOK, TokenApprove, Pair
<1>2. n \in Held /\ tok' \in write_allowance(tok, seq, m, n, x)
  BY AmountsAssumption, WidthAssumption
     DEF TokenApprove, approve, check_nonnegative_amount, Panic, Held
<1>3. /\ tok' \in Storage
      /\ Lasting(tok')
      /\ tok'.bal = tok.bal
      /\ n > 0 => x >= seq
      /\ tok'.allow[m].amount = n
      /\ tok'.allow[m].expiration = x
      /\ \A q \in Pair : q # m => tok'.allow[q] = tok.allow[q]
  BY <1>1, <1>2, WriteAllowanceOutcome
<1>4. \A other \in Address \ DirectOwners :
          tok'.allow[<<other, Manager>>] = tok.allow[<<other, Manager>>]
  BY <1>3, ManagerAssumption DEF Pair
<1>. QED  BY <1>1, <1>3, <1>4 DEF IInv, TypeOK, ExposureWithinPolicy

LEMMA NextIInv == IInv /\ [Next]_vars => IInv'
<1>. SUFFICES ASSUME IInv, [Next]_vars PROVE IInv'
  OBVIOUS
<1>1. ASSUME NEW p \in Policies, NEW n \in Amounts, NEW x \in Expirations,
             Approve(p, n, x) \/ IncreaseAllowance(p, n, x) \/ DecreaseAllowance(p, n, x)
      PROVE  IInv'
  BY <1>1, PolicyStep
<1>2. ASSUME NEW p \in Policies, NEW to \in Address, NEW n \in Amounts, TransferFrom(p, to, n)
      PROVE  IInv'
  <2>1. p \in Pair /\ n \in Int
    BY PoliciesAssumption, AmountsAssumption, WidthAssumption
  <2>. QED  BY <1>2, <2>1, PullStep
<1>3. ASSUME NEW from \in Address \ {Manager}, NEW to \in Address, NEW n \in Amounts,
             TokenTransfer(from, to, n)
      PROVE  IInv'
  BY <1>3, TokenTransferStep
<1>4. ASSUME NEW owner \in DirectOwners, NEW n \in Amounts, NEW x \in Expirations,
             TokenApprove(owner, n, x)
      PROVE  IInv'
  BY <1>4, TokenApproveStep
<1>5. CASE CloseLedger
  BY <1>5, SeqAssumption DEF CloseLedger, IInv, TypeOK, ExposureWithinPolicy
<1>6. CASE UNCHANGED vars
  BY <1>6 DEF vars, IInv, TypeOK, ExposureWithinPolicy
<1>. QED  BY <1>1, <1>2, <1>3, <1>4, <1>5, <1>6 DEF Next

(* Policies stay within i128 and the token's storage well typed.           *)
THEOREM TypeCorrect == Spec => []TypeOK
<1>1. IInv => TypeOK
  BY DEF IInv
<1>. QED  BY <1>1, InitIInv, NextIInv, PTL DEF Spec

(* The manager is never allowed more of an owner's tokens than what one of *)
(* the owner's spenders may still spend, in whatever order the owner's     *)
(* policies overwrite one another.                                         *)
THEOREM ExposureBounded == Spec => []ExposureWithinPolicy
<1>1. IInv => ExposureWithinPolicy
  BY DEF IInv
<1>. QED  BY <1>1, InitIInv, NextIInv, PTL DEF Spec

-----------------------------------------------------------------------------
(* Losses *)

Debited(owner) ==
    LET loss == tok.bal[owner] - tok'.bal[owner] IN
    loss > 0 =>
        \/ \E to \in Address : TokenTransfer(owner, to, loss)
        \/ \E spender \in Address :
               policy' = [policy EXCEPT ![<<owner, spender>>] = @ - loss]

(* What a transfer takes from an address, it takes from the payer.         *)
LEMMA PayerLoses ==
    ASSUME NEW t \in Storage, NEW from \in Address, NEW to \in Address, NEW n \in Int,
           NEW v \in transfer(t, from, to, n), NEW a \in Address, t.bal[a] - v.bal[a] > 0
    PROVE  a = from /\ t.bal[a] - v.bal[a] = n
<1>1. /\ n \in Nat
      /\ v \in Storage
      /\ v.allow = t.allow
      /\ n <= t.bal[from]
      /\ Total(v.bal) = Total(t.bal)
  BY TransferOutcome
<1>2. /\ from = to => v.bal = t.bal
      /\ from # to => v.bal = [t.bal EXCEPT ![from] = @ - n, ![to] = @ + n]
  BY TransferBalances
<1>3. /\ t.bal \in [Address -> Held]
      /\ t.bal[a] \in Nat /\ t.bal[from] \in Nat /\ t.bal[to] \in Nat
  BY WidthAssumption DEF Storage, Held
<1>4. from # to
  BY <1>2, <1>3
<1>5. CASE a = from
  <2>1. v.bal[a] = t.bal[a] - n
    BY <1>2, <1>3, <1>4, <1>5
  <2>. QED  BY <1>1, <1>3, <1>5, <2>1
<1>6. CASE a # from
  <2>1. v.bal[a] = t.bal[a] \/ v.bal[a] = t.bal[a] + n
    BY <1>2, <1>3, <1>4, <1>6
  <2>. QED  BY <1>1, <1>3, <2>1
<1>. QED  BY <1>5, <1>6

LEMMA NextDebits == IInv /\ [Next]_vars => \A owner \in Address : Debited(owner)
<1>. SUFFICES ASSUME IInv, [Next]_vars, NEW owner \in Address
              PROVE  Debited(owner)
  OBVIOUS
<1>0. /\ tok \in Storage /\ Lasting(tok)
      /\ seq \in Nat \ {0}
      /\ tok.bal[owner] \in Nat
  BY SeqAssumption, WidthAssumption DEF IInv, TypeOK, Storage, Held
<1>. DEFINE loss == tok.bal[owner] - tok'.bal[owner]
<1>1. ASSUME tok'.bal = tok.bal PROVE Debited(owner)
  BY <1>0, <1>1 DEF Debited
<1>2. ASSUME NEW p \in Policies, NEW n \in Amounts, NEW x \in Expirations,
             Approve(p, n, x) \/ IncreaseAllowance(p, n, x) \/ DecreaseAllowance(p, n, x)
      PROVE  Debited(owner)
  BY <1>1, <1>2, PolicyStep
<1>3. ASSUME NEW p \in Policies, NEW to \in Address, NEW n \in Amounts, TransferFrom(p, to, n)
      PROVE  Debited(owner)
  <2>1. /\ p[1] \in Address /\ p[2] \in Address /\ p = <<p[1], p[2]>> /\ n \in Int
        /\ tok' \in transfer_from(tok, seq, Manager, p[1], to, n)
        /\ policy' = [policy EXCEPT ![p] = @ - n]
    BY <1>3, PoliciesAssumption, AmountsAssumption, WidthAssumption DEF TransferFrom, Debit, Pair
  <2>2. /\ n \in Nat
        /\ tok' \in Storage
        /\ Lasting(tok')
        /\ \E u \in spend_allowance(tok, seq, <<p[1], Manager>>, n) :
               u \in Storage /\ u.bal = tok.bal /\ tok'.allow = u.allow /\ tok' \in transfer(u, p[1], to, n)
    BY <1>0, <2>1, ManagerAssumption, TransferFromOutcome
  <2>3. PICK u \in Storage : u.bal = tok.bal /\ tok' \in transfer(u, p[1], to, n)
    BY <2>2
  <2>4. ASSUME loss > 0
        PROVE  owner = p[1] /\ loss = n
    <3>1. u.bal[owner] - tok'.bal[owner] > 0
      BY <2>3, <2>4
    <3>2. owner = p[1] /\ u.bal[owner] - tok'.bal[owner] = n
      BY <2>1, <2>3, <3>1, PayerLoses
    <3>. QED  BY <2>3, <3>2
  <2>. QED  BY <2>1, <2>4 DEF Debited
<1>4. ASSUME NEW from \in Address \ {Manager}, NEW to \in Address, NEW n \in Amounts,
             TokenTransfer(from, to, n)
      PROVE  Debited(owner)
  <2>1. n \in Int /\ tok' \in transfer(tok, from, to, n)
    BY <1>4, AmountsAssumption, WidthAssumption DEF TokenTransfer
  <2>2. ASSUME loss > 0
        PROVE  owner = from /\ loss = n
    BY <1>0, <2>1, <2>2, PayerLoses
  <2>. QED  BY <1>4, <2>2 DEF Debited
<1>5. ASSUME NEW o \in DirectOwners, NEW n \in Amounts, NEW x \in Expirations,
             TokenApprove(o, n, x)
      PROVE  Debited(owner)
  BY <1>1, <1>5, TokenApproveStep
<1>6. CASE CloseLedger
  BY <1>1, <1>6 DEF CloseLedger
<1>7. CASE UNCHANGED vars
  BY <1>1, <1>7 DEF vars
<1>. QED  BY <1>2, <1>3, <1>4, <1>5, <1>6, <1>7 DEF Next

(* No owner ever loses a unit that was not its own transfer or debited to  *)
(* the policy of a spender it named.                                       *)
THEOREM LossesDebited == Spec => LossIsDebited
<1>1. IInv /\ [Next]_vars => \A owner \in Address : Debited(owner)
  BY NextDebits
<1>2. (\A owner \in Address : Debited(owner))
        => [ \A owner \in Address :
               LET loss == tok.bal[owner] - tok'.bal[owner] IN
               loss > 0 =>
                 \/ \E to \in Address : TokenTransfer(owner, to, loss)
                 \/ \E spender \in Address :
                      policy' = [policy EXCEPT ![<<owner, spender>>] = @ - loss] ]_vars
  BY DEF Debited
<1>. QED  BY <1>1, <1>2, InitIInv, NextIInv, PTL DEF Spec, LossIsDebited

=============================================================================
