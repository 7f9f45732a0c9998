------------------------- MODULE TokenAndBalanceProofs -------------------------
(***************************************************************************)
(* The token keeps its invariants and implements the abstract asset, and   *)
(* the claimable balances implement the abstract custody of it, for every  *)
(* set of addresses and amounts and every host limit.  The two contracts   *)
(* share nothing but the token's operations; only their proofs are side by *)
(* side: the token's first, then the claimable balances'.                  *)
(***************************************************************************)
EXTENDS Token, ClaimableBalance, Sep41Proofs

-----------------------------------------------------------------------------
(* The token *)

IInv == TypeOK /\ TtlCoversExpiration

-----------------------------------------------------------------------------
(* The invariant *)

LEMMA InitIInv == Init => IInv
<1>. SUFFICES ASSUME Init PROVE IInv
  OBVIOUS
<1>1. NoEntry \in Entry
  BY WidthAssumption DEF NoEntry, Entry, Held
<1>2. EmptyStorage \in Storage
  BY <1>1, WidthAssumption DEF EmptyStorage, Storage, Held
<1>3. Lasting(EmptyStorage)
  BY DEF Lasting, EmptyStorage, NoEntry
<1>. QED  BY <1>2, <1>3, SeqAssumption DEF Init, IInv, TypeOK, TtlCoversExpiration

(* The invariant only constrains the storage once admin and seq are typed. *)
LEMMA StorageStep ==
    ASSUME IInv, UNCHANGED <<admin, seq>>, tok' \in Storage, Lasting(tok')
    PROVE  IInv'
BY DEF IInv, TypeOK, TtlCoversExpiration

LEMMA NextIInv == IInv /\ [Next]_vars => IInv'
<1>. SUFFICES ASSUME IInv, [Next]_vars PROVE IInv'
  OBVIOUS
<1>1. /\ tok \in Storage /\ Lasting(tok)
      /\ admin \in Address
      /\ seq \in Nat \ {0} /\ seq \in 1..MaxSeq
  BY SeqAssumption DEF IInv, TypeOK, TtlCoversExpiration
<1>2. ASSUME NEW to \in Address, NEW n \in Amounts, Mint(to, n)
      PROVE  IInv'
  <2>1. n \in Nat /\ tok' \in receive_balance(tok, to, n)
    BY <1>2, AmountsAssumption, WidthAssumption DEF Mint, mint, check_nonnegative_amount, Panic
  <2>2. /\ tok' \in Storage
        /\ tok'.allow = tok.allow
        /\ tok'.bal = [tok.bal EXCEPT ![to] = @ + n]
        /\ Total(tok'.bal) = Total(tok.bal) + n
    BY <1>1, <2>1, ReceiveOutcome
  <2>3. Lasting(tok')
    BY <1>1, <2>2 DEF Lasting
  <2>. QED  BY <1>2, <2>2, <2>3, StorageStep DEF Mint
<1>3. ASSUME NEW new \in Address, SetAdmin(new)
      PROVE  IInv'
  BY <1>1, <1>3 DEF SetAdmin, IInv, TypeOK, TtlCoversExpiration
<1>4. ASSUME NEW p \in Grants, NEW n \in Amounts, NEW x \in Expirations,
             Approve(p[1], p[2], n, x)
      PROVE  IInv'
  <2>1. p \in Pair /\ <<p[1], p[2]>> = p
    BY GrantsAssumption DEF Pair
  <2>2. /\ n \in Held
        /\ x \in Nat
        /\ tok' \in write_allowance(tok, seq, p, n, x)
    BY <1>4, <2>1, AmountsAssumption, GrantsAssumption, WidthAssumption
       DEF Approve, approve, check_nonnegative_amount, Panic, Held
  <2>3. tok' \in Storage /\ Lasting(tok')
    BY <1>1, <2>1, <2>2, WriteAllowanceOutcome
  <2>. QED  BY <1>4, <2>3, StorageStep DEF Approve
<1>5. ASSUME NEW from \in Address, NEW to \in Address, NEW n \in Amounts,
             Transfer(from, to, n)
      PROVE  IInv'
  <2>1. n \in Int /\ tok' \in transfer(tok, from, to, n)
    BY <1>5, AmountsAssumption, WidthAssumption DEF Transfer
  <2>2. tok' \in Storage /\ tok'.allow = tok.allow
    BY <1>1, <2>1, TransferOutcome
  <2>3. Lasting(tok')
    BY <1>1, <2>2 DEF Lasting
  <2>. QED  BY <1>5, <2>2, <2>3, StorageStep DEF Transfer
<1>6. ASSUME NEW spender \in Address, NEW from \in Address, NEW to \in Address,
             NEW n \in Amounts, TransferFrom(spender, from, to, n)
      PROVE  IInv'
  <2>1. n \in Int /\ tok' \in transfer_from(tok, seq, spender, from, to, n)
    BY <1>6, AmountsAssumption, WidthAssumption DEF TransferFrom
  <2>2. tok' \in Storage /\ Lasting(tok')
    BY <1>1, <2>1, TransferFromOutcome
  <2>. QED  BY <1>6, <2>2, StorageStep DEF TransferFrom
<1>7. ASSUME NEW from \in Address, NEW n \in Amounts, Burn(from, n)
      PROVE  IInv'
  <2>1. n \in Nat /\ tok' \in spend_balance(tok, from, n)
    BY <1>7, AmountsAssumption, WidthAssumption DEF Burn, burn, check_nonnegative_amount, Panic
  <2>2. /\ tok' \in Storage
        /\ tok'.allow = tok.allow
        /\ n <= tok.bal[from]
        /\ tok'.bal = [tok.bal EXCEPT ![from] = @ - n]
        /\ Total(tok'.bal) = Total(tok.bal) - n
    BY <1>1, <2>1, SpendOutcome
  <2>3. Lasting(tok')
    BY <1>1, <2>2 DEF Lasting
  <2>. QED  BY <1>7, <2>2, <2>3, StorageStep DEF Burn
<1>8. ASSUME NEW spender \in Address, NEW from \in Address, NEW n \in Amounts,
             BurnFrom(spender, from, n)
      PROVE  IInv'
  <2>1. n \in Int /\ tok' \in burn_from(tok, seq, spender, from, n)
    BY <1>8, AmountsAssumption, WidthAssumption DEF BurnFrom
  <2>2. tok' \in Storage /\ Lasting(tok')
    BY <1>1, <2>1, BurnFromOutcome
  <2>. QED  BY <1>8, <2>2, StorageStep DEF BurnFrom
<1>9. CASE CloseLedger
  BY <1>1, <1>9, SeqAssumption DEF CloseLedger, IInv, TypeOK, TtlCoversExpiration
<1>10. CASE UNCHANGED vars
  BY <1>10 DEF vars, IInv, TypeOK, TtlCoversExpiration
<1>. QED
  BY <1>2, <1>3, <1>4, <1>5, <1>6, <1>7, <1>8, <1>9, <1>10 DEF Next

(* The storage stays well typed: no balance goes below zero or wraps.      *)
THEOREM TypeCorrect == Spec => []TypeOK
<1>1. IInv => TypeOK
  BY DEF IInv
<1>. QED  BY <1>1, InitIInv, NextIInv, PTL DEF Spec

(* No approval, spend or re-approval ever leaves an allowance whose entry  *)
(* the host would drop before the expiration the holder was promised.      *)
THEOREM AllowancesLast == Spec => []TtlCoversExpiration
<1>1. IInv => TtlCoversExpiration
  BY DEF IInv
<1>. QED  BY <1>1, InitIInv, NextIInv, PTL DEF Spec

-----------------------------------------------------------------------------
(* The refinement *)

grantOf == [p \in Pair |-> tok.allow[p].amount]
untilOf == [p \in Pair |-> tok.allow[p].expiration]

LEMMA InitRefines == Init => Promise!Init
<1>. SUFFICES ASSUME Init PROVE Promise!Init
  OBVIOUS
<1>1. tok.bal = [a \in Address |-> 0] /\ Total(tok.bal) = 0
  BY TotalZero DEF Init, EmptyStorage
<1>2. /\ [p \in Pair |-> tok.allow[p].amount] = [p \in Pair |-> 0]
      /\ [p \in Pair |-> tok.allow[p].expiration] = [p \in Pair |-> 0]
  BY DEF Init, EmptyStorage, NoEntry
<1>. QED  BY <1>1, <1>2 DEF Init, Promise!Init, Promise!Pairs, Pair

(* Spending an allowance is a draw on the grant.                           *)
LEMMA SpendIsDraw ==
    ASSUME NEW t \in Storage, Lasting(t), seq \in Nat \ {0}, NEW p \in Pair, NEW n \in Nat,
           NEW u \in spend_allowance(t, seq, p, n),
           tok = t, tok' \in Storage, tok'.allow = u.allow
    PROVE  Promise!Draw(p, n)
<1>1. /\ u \in Storage
      /\ Lasting(u)
      /\ u.bal = t.bal
      /\ n = 0 => u = t
      /\ n > 0 => /\ t.allow[p].expiration >= seq
                  /\ n <= t.allow[p].amount
                  /\ u.allow[p].amount = t.allow[p].amount - n
                  /\ u.allow[p].expiration = t.allow[p].expiration
                  /\ \A q \in Pair : q # p => u.allow[q] = t.allow[q]
  BY SpendAllowanceOutcome
<1>2. t.allow[p] \in Entry
  BY DEF Storage
<1>3. t.allow[p].amount \in Nat /\ t.allow[p].expiration \in Nat
  BY <1>2, WidthAssumption DEF Entry, Held
<1>4. CASE n = 0
  BY <1>1, <1>3, <1>4 DEF Promise!Draw, Promise!Drawable
<1>5. CASE n > 0
  <2>1. n <= Promise!Drawable(p)
    BY <1>1, <1>3, <1>5 DEF Promise!Drawable
  <2>2. grantOf' = [grantOf EXCEPT ![p] = @ - n]
    BY <1>1, <1>5 DEF grantOf
  <2>3. untilOf' = untilOf
    BY <1>1, <1>5 DEF untilOf
  <2>. QED  BY <1>5, <2>1, <2>2, <2>3 DEF Promise!Draw, grantOf, untilOf
<1>. QED  BY <1>4, <1>5

LEMMA NextRefines == IInv /\ [Next]_vars => [Promise!Next]_Promise!vars
<1>. SUFFICES ASSUME IInv, [Next]_vars PROVE [Promise!Next]_Promise!vars
  OBVIOUS
<1>. DEFINE Quantity == {n \in Amounts : n >= 0}
<1>1. /\ tok \in Storage /\ Lasting(tok)
      /\ admin \in Address
      /\ seq \in Nat \ {0} /\ seq \in 1..MaxSeq
      /\ tok.bal \in [Address -> Held]
  BY SeqAssumption DEF IInv, TypeOK, TtlCoversExpiration, Storage
<1>2. ASSUME NEW to \in Address, NEW n \in Amounts, Mint(to, n)
      PROVE  Promise!Next
  <2>1. n \in Nat /\ n \in Quantity /\ tok' \in receive_balance(tok, to, n)
    BY <1>2, AmountsAssumption, WidthAssumption DEF Mint, mint, check_nonnegative_amount, Panic
  <2>2. /\ tok' \in Storage
        /\ tok'.allow = tok.allow
        /\ tok'.bal = [tok.bal EXCEPT ![to] = @ + n]
        /\ Total(tok'.bal) = Total(tok.bal) + n
    BY <1>1, <2>1, ReceiveOutcome
  <2>3. Promise!Issue(to, n)
    BY <1>2, <2>2 DEF Mint, Promise!Issue
  <2>. QED  BY <2>1, <2>3 DEF Promise!Next
<1>3. ASSUME NEW new \in Address, SetAdmin(new)
      PROVE  UNCHANGED Promise!vars
  BY <1>3 DEF SetAdmin, Promise!vars
<1>4. ASSUME NEW p \in Grants, NEW n \in Amounts, NEW x \in Expirations,
             Approve(p[1], p[2], n, x)
      PROVE  Promise!Next
  <2>1. p \in Pair /\ <<p[1], p[2]>> = p
    BY GrantsAssumption DEF Pair
  <2>2. /\ n \in Held
        /\ n \in Quantity
        /\ x \in Nat
        /\ tok' \in write_allowance(tok, seq, p, n, x)
    BY <1>4, <2>1, AmountsAssumption, GrantsAssumption, WidthAssumption
       DEF Approve, approve, check_nonnegative_amount, Panic, Held
  <2>3. /\ tok' \in Storage
        /\ Lasting(tok')
        /\ tok'.bal = tok.bal
        /\ n > 0 => x >= seq
        /\ tok'.allow[p].amount = n
        /\ tok'.allow[p].expiration = x
        /\ \A q \in Pair : q # p => tok'.allow[q] = tok.allow[q]
    BY <1>1, <2>1, <2>2, WriteAllowanceOutcome
  <2>4. /\ grantOf' = [grantOf EXCEPT ![p] = n]
        /\ untilOf' = [untilOf EXCEPT ![p] = x]
    BY <2>1, <2>3 DEF grantOf, untilOf
  <2>5. Promise!Grant(p, n, x)
    BY <1>4, <2>3, <2>4 DEF Approve, Promise!Grant, grantOf, untilOf
  <2>. QED  BY <2>1, <2>2, <2>5 DEF Promise!Next, Promise!Pairs, Pair
<1>5. ASSUME NEW from \in Address, NEW to \in Address, NEW n \in Amounts,
             Transfer(from, to, n)
      PROVE  Promise!Next
  <2>1. n \in Int /\ tok' \in transfer(tok, from, to, n)
    BY <1>5, AmountsAssumption, WidthAssumption DEF Transfer
  <2>2. /\ n \in Nat
        /\ tok' \in Storage
        /\ tok'.allow = tok.allow
        /\ n <= tok.bal[from]
        /\ Total(tok'.bal) = Total(tok.bal)
    BY <1>1, <2>1, TransferOutcome
  <2>3. /\ from = to => tok'.bal = tok.bal
        /\ from # to => tok'.bal = [tok.bal EXCEPT ![from] = @ - n, ![to] = @ + n]
    BY <1>1, <2>1, TransferBalances
  <2>4. Promise!Pay(from, to, n)
    BY <1>5, <2>2, <2>3 DEF Transfer, Promise!Pay, Promise!Moved
  <2>. QED  BY <2>2, <2>4 DEF Promise!Next
<1>6. ASSUME NEW spender \in Address, NEW from \in Address, NEW to \in Address,
             NEW n \in Amounts, TransferFrom(spender, from, to, n)
      PROVE  Promise!Next
  <2>. DEFINE p == <<from, spender>>
  <2>1. n \in Int /\ tok' \in transfer_from(tok, seq, spender, from, to, n) /\ p \in Pair
    BY <1>6, AmountsAssumption, WidthAssumption DEF TransferFrom, Pair
  <2>2. /\ n \in Nat
        /\ tok' \in Storage
        /\ Lasting(tok')
        /\ \E u \in spend_allowance(tok, seq, <<from, spender>>, n) :
               u \in Storage /\ u.bal = tok.bal /\ tok'.allow = u.allow /\ tok' \in transfer(u, from, to, n)
    BY <1>1, <2>1, TransferFromOutcome
  <2>3. PICK u \in spend_allowance(tok, seq, p, n) :
            u \in Storage /\ u.bal = tok.bal /\ tok'.allow = u.allow /\ tok' \in transfer(u, from, to, n)
    BY <2>2
  <2>4. /\ n \in Nat
        /\ tok' \in Storage
        /\ tok'.allow = u.allow
        /\ n <= u.bal[from]
        /\ Total(tok'.bal) = Total(u.bal)
    BY <2>1, <2>3, TransferOutcome
  <2>5. /\ from = to => tok'.bal = u.bal
        /\ from # to => tok'.bal = [u.bal EXCEPT ![from] = @ - n, ![to] = @ + n]
    BY <2>1, <2>3, TransferBalances
  <2>6. Promise!Draw(p, n)
    BY <1>1, <2>1, <2>2, <2>3, SpendIsDraw
  <2>7. Promise!PayFromGrant(spender, from, to, n)
    BY <1>6, <2>3, <2>4, <2>5, <2>6 DEF TransferFrom, Promise!PayFromGrant, Promise!Moved
  <2>. QED  BY <2>2, <2>7 DEF Promise!Next
<1>7. ASSUME NEW from \in Address, NEW n \in Amounts, Burn(from, n)
      PROVE  Promise!Next
  <2>1. n \in Nat /\ n \in Quantity /\ tok' \in spend_balance(tok, from, n)
    BY <1>7, AmountsAssumption, WidthAssumption DEF Burn, burn, check_nonnegative_amount, Panic
  <2>2. /\ tok' \in Storage
        /\ tok'.allow = tok.allow
        /\ n <= tok.bal[from]
        /\ tok'.bal = [tok.bal EXCEPT ![from] = @ - n]
        /\ Total(tok'.bal) = Total(tok.bal) - n
    BY <1>1, <2>1, SpendOutcome
  <2>3. Promise!Destroy(from, n)
    BY <1>7, <2>2 DEF Burn, Promise!Destroy
  <2>. QED  BY <2>1, <2>3 DEF Promise!Next
<1>8. ASSUME NEW spender \in Address, NEW from \in Address, NEW n \in Amounts,
             BurnFrom(spender, from, n)
      PROVE  Promise!Next
  <2>. DEFINE p == <<from, spender>>
  <2>1. n \in Int /\ tok' \in burn_from(tok, seq, spender, from, n) /\ p \in Pair
    BY <1>8, AmountsAssumption, WidthAssumption DEF BurnFrom, Pair
  <2>2. /\ n \in Nat
        /\ tok' \in Storage
        /\ Lasting(tok')
        /\ \E u \in spend_allowance(tok, seq, <<from, spender>>, n) :
               u \in Storage /\ u.bal = tok.bal /\ tok'.allow = u.allow /\ tok' \in spend_balance(u, from, n)
    BY <1>1, <2>1, BurnFromOutcome
  <2>3. PICK u \in spend_allowance(tok, seq, p, n) :
            u \in Storage /\ u.bal = tok.bal /\ tok'.allow = u.allow /\ tok' \in spend_balance(u, from, n)
    BY <2>2
  <2>4. /\ tok' \in Storage
        /\ tok'.allow = u.allow
        /\ n <= u.bal[from]
        /\ tok'.bal = [u.bal EXCEPT ![from] = @ - n]
        /\ Total(tok'.bal) = Total(u.bal) - n
    BY <2>2, <2>3, SpendOutcome
  <2>5. Promise!Draw(p, n)
    BY <1>1, <2>1, <2>2, <2>3, SpendIsDraw
  <2>6. Promise!DestroyFromGrant(spender, from, n)
    BY <1>8, <2>3, <2>4, <2>5 DEF BurnFrom, Promise!DestroyFromGrant
  <2>. QED  BY <2>2, <2>6 DEF Promise!Next
<1>9. CASE CloseLedger
  BY <1>9 DEF CloseLedger, Promise!Next, Promise!Tick
<1>10. CASE UNCHANGED vars
  BY <1>10 DEF vars, Promise!vars
<1>. QED
  BY <1>2, <1>3, <1>4, <1>5, <1>6, <1>7, <1>8, <1>9, <1>10 DEF Next

(* The token implements the abstract asset: nothing that TTLs, host limits *)
(* or storage entries do is visible to a holder, and only minting and      *)
(* burning change the supply.                                              *)
THEOREM TokenImplementsAsset == Spec => ImplementsAsset
<1>1. Init => Promise!Init
  BY InitRefines
<1>2. IInv /\ [Next]_vars => [Promise!Next]_Promise!vars
  BY NextRefines
<1>. QED  BY <1>1, <1>2, InitIInv, NextIInv, PTL DEF Spec, ImplementsAsset, Promise!Spec

-----------------------------------------------------------------------------
(* The claimable balances *)

(* A deposit writes the funder's allowance and spends it in one call, so   *)
(* its entries have to last; that the supply is constant decides whether a *)
(* payee has room for what it is paid.                                     *)
VaultIInv ==
    /\ ClaimableTypeOK
    /\ Lasting(asset)
    /\ Total(asset.bal) = Total(Endowment)

LEMMA VaultFacts ==
    ASSUME VaultIInv
    PROVE  /\ asset \in Storage /\ Lasting(asset) /\ asset.bal \in [Address -> Held]
           /\ balances \in Seq(Balance) /\ DOMAIN balances = 1..Len(balances)
           /\ Len(balances) \in Nat /\ Len(balances) <= MaxBalances
           /\ now \in 1..MaxTime /\ now \in Nat \ {0} /\ Vault \in Address
BY PartiesAssumption, BoundsAssumption DEF VaultIInv, ClaimableTypeOK, Storage

LEMMA BalanceFacts ==
    ASSUME VaultIInv, NEW id \in DOMAIN balances
    PROVE  /\ balances[id] \in Balance
           /\ balances[id].funder \in Address /\ balances[id].funder # Vault
           /\ balances[id].claimant \in Address
           /\ balances[id].amount \in Nat \ {0} /\ balances[id].amount \in Held
           /\ balances[id].claimed \in BOOLEAN /\ balances[id].cancelled \in BOOLEAN
<1>1. balances[id] \in Balance
  BY VaultFacts
<1>. QED  BY <1>1, WidthAssumption DEF Balance, Person, Held

LEMMA VaultInit == ClaimableInit => VaultIInv
<1>. SUFFICES ASSUME ClaimableInit PROVE VaultIInv
  OBVIOUS
<1>1. NoEntry \in Entry /\ NoEntry.amount = 0
  BY WidthAssumption DEF NoEntry, Entry, Held
<1>2. asset = [bal |-> Endowment, allow |-> [q \in Pair |-> NoEntry]]
  BY DEF ClaimableInit, EmptyStorage
<1>3. asset \in Storage /\ Lasting(asset)
  BY <1>1, <1>2, EndowmentAssumption DEF Storage, Lasting
<1>4. ClaimableTypeOK
  BY <1>3, BoundsAssumption DEF ClaimableInit, ClaimableTypeOK
<1>. QED  BY <1>2, <1>3, <1>4 DEF VaultIInv

(* A transfer leaves a well-typed storage with lasting entries.            *)
LEMMA VaultTransfer ==
    ASSUME VaultIInv, NEW from \in Address, NEW to \in Address, NEW n \in Int,
           NEW t \in transfer(asset, from, to, n)
    PROVE  /\ n \in Nat /\ n <= asset.bal[from]
           /\ t \in Storage /\ Lasting(t)
           /\ Total(t.bal) = Total(asset.bal)
           /\ from = to => t.bal = asset.bal
           /\ from # to => t.bal = [asset.bal EXCEPT ![from] = @ - n, ![to] = @ + n]
<1>1. asset \in Storage /\ Lasting(asset)
  BY VaultFacts
<1>2. /\ n \in Nat
      /\ t \in Storage
      /\ t.allow = asset.allow
      /\ n <= asset.bal[from]
      /\ Total(t.bal) = Total(asset.bal)
  BY <1>1, TransferOutcome
<1>3. /\ from = to => t.bal = asset.bal
      /\ from # to => t.bal = [asset.bal EXCEPT ![from] = @ - n, ![to] = @ + n]
  BY <1>1, TransferBalances
<1>. QED  BY <1>1, <1>2, <1>3 DEF Lasting

(* What a deposit pulls goes from the funder to the contract.              *)
LEMMA PulledOutcome ==
    ASSUME VaultIInv, NEW funder \in Person, NEW n \in DepositAmounts, n > 0, NEW x \in Int,
           check_expiration(x), NEW t \in Pulled(funder, n, x)
    PROVE  /\ n \in 1..MaxI128 /\ n <= asset.bal[funder]
           /\ t \in Storage /\ Lasting(t)
           /\ Total(t.bal) = Total(asset.bal)
           /\ t.bal = [asset.bal EXCEPT ![funder] = @ - n, ![Vault] = @ + n]
<1>1. /\ asset \in Storage /\ Lasting(asset) /\ asset.bal \in [Address -> Held]
      /\ balances \in Seq(Balance) /\ DOMAIN balances = 1..Len(balances)
      /\ Len(balances) \in Nat /\ Len(balances) <= MaxBalances
      /\ now \in 1..MaxTime /\ now \in Nat \ {0} /\ Vault \in Address
  BY VaultFacts
<1>2. /\ funder \in Address /\ funder # Vault /\ <<funder, Vault>> \in Pair
      /\ n \in 1..MaxI128 /\ n \in Held /\ n \in Int /\ x \in Nat
  BY <1>1, DepositsAssumption, WidthAssumption DEF Person, Pair, Held, check_expiration
<1>3. PICK u \in approve(asset, now, funder, Vault, n, x) :
          t \in transfer_from(u, now, Vault, funder, Vault, n)
  BY DEF Pulled
<1>4. PICK p : p = <<funder, Vault>> /\ p \in Pair
  BY <1>2
<1>5. u \in write_allowance(asset, now, p, n, x)
  BY <1>2, <1>3, <1>4 DEF approve, check_nonnegative_amount
<1>6. /\ u \in Storage
      /\ Lasting(u)
      /\ u.bal = asset.bal
      /\ n > 0 => x >= now
      /\ u.allow[p].amount = n
      /\ u.allow[p].expiration = x
      /\ \A q \in Pair : q # p => u.allow[q] = asset.allow[q]
  BY <1>1, <1>2, <1>4, <1>5, WriteAllowanceOutcome
<1>7. /\ n \in Nat
      /\ t \in Storage
      /\ Lasting(t)
      /\ \E v \in spend_allowance(u, now, <<funder, Vault>>, n) :
             v \in Storage /\ v.bal = u.bal /\ t.allow = v.allow /\ t \in transfer(v, funder, Vault, n)
  BY <1>1, <1>2, <1>3, <1>6, TransferFromOutcome
<1>8. PICK v \in spend_allowance(u, now, <<funder, Vault>>, n) :
          v \in Storage /\ v.bal = u.bal /\ t.allow = v.allow /\ t \in transfer(v, funder, Vault, n)
  BY <1>7
<1>9. /\ n \in Nat
      /\ t \in Storage
      /\ t.allow = v.allow
      /\ n <= v.bal[funder]
      /\ Total(t.bal) = Total(v.bal)
  BY <1>1, <1>2, <1>8, TransferOutcome
<1>10. /\ funder = Vault => t.bal = v.bal
       /\ funder # Vault => t.bal = [v.bal EXCEPT ![funder] = @ - n, ![Vault] = @ + n]
  BY <1>1, <1>2, <1>8, TransferBalances
<1>. QED  BY <1>2, <1>6, <1>7, <1>8, <1>9, <1>10

-----------------------------------------------------------------------------
(* The refinement *)

LEMMA BalanceIsMove ==
    ASSUME VaultIInv, NEW from \in Address, NEW to \in Address, NEW n \in Nat,
           n <= asset.bal[from],
           from = to => asset'.bal = asset.bal,
           from # to => asset'.bal = [asset.bal EXCEPT ![from] = @ - n, ![to] = @ + n]
    PROVE  Kept!Move("asset", from, to, n)
<1>1. /\ DOMAIN wealthOfAsset = {"asset"} /\ wealthOfAsset["asset"] = asset.bal
      /\ wealthOfAsset' = [a \in {"asset"} |-> asset'.bal]
      /\ asset.bal \in [Address -> Held]
  BY VaultFacts DEF wealthOfAsset
<1>2. CASE from = to
  BY <1>1, <1>2 DEF Kept!Move, wealthOfAsset
<1>3. CASE from # to
  <2>1. wealthOfAsset' = [wealthOfAsset EXCEPT !["asset"] = asset'.bal]
    BY <1>1
  <2>2. wealthOfAsset' = [wealthOfAsset EXCEPT
            !["asset"] = [wealthOfAsset["asset"] EXCEPT ![from] = @ - n, ![to] = @ + n]]
    BY <1>1, <1>3, <2>1
  <2>3. wealthOfAsset'
            = [wealthOfAsset EXCEPT !["asset"][from] = @ - n, !["asset"][to] = @ + n]
    BY <1>1, <1>3, <2>2
  <2>. QED  BY <1>1, <1>3, <2>3 DEF Kept!Move
<1>. QED  BY <1>2, <1>3

Deals == <<owedOnBalances, payeesOfBalance, phaseOfBalance>>

LEMMA DealsFrame == UNCHANGED balances => UNCHANGED Deals
BY DEF Deals, owedOnBalances, payeesOfBalance, phaseOfBalance, OwedOn, PayeesOf, PhaseOf,
       Exists, Settled

(* A balance is settled by either flag; nothing else of it changes.        *)
LEMMA DealSettles ==
    ASSUME VaultIInv, NEW id \in DOMAIN balances, ~Settled(id),
           NEW c \in Balance, c.claimed \/ c.cancelled, c.amount = balances[id].amount,
           c.funder = balances[id].funder, c.claimant = balances[id].claimant,
           balances' = [balances EXCEPT ![id] = c]
    PROVE  /\ balances' \in Seq(Balance) /\ Len(balances') = Len(balances)
           /\ id \in DealOf /\ phaseOfBalance[id] = "open"
           /\ owedOnBalances["asset"][id] = balances[id].amount
           /\ payeesOfBalance[id] = {balances[id].claimant, balances[id].funder}
           /\ owedOnBalances' = [owedOnBalances EXCEPT !["asset"][id] = 0]
           /\ payeesOfBalance' = payeesOfBalance
           /\ phaseOfBalance' = [phaseOfBalance EXCEPT ![id] = "settled"]
<1>1. /\ asset \in Storage /\ Lasting(asset) /\ asset.bal \in [Address -> Held]
      /\ balances \in Seq(Balance) /\ DOMAIN balances = 1..Len(balances)
      /\ Len(balances) \in Nat /\ Len(balances) <= MaxBalances
      /\ now \in 1..MaxTime /\ now \in Nat \ {0} /\ Vault \in Address
  BY VaultFacts
<1>2. id \in DealOf /\ Exists(id)
  BY <1>1, BoundsAssumption DEF DealOf, Exists
<1>3. /\ balances' \in Seq(Balance) /\ Len(balances') = Len(balances)
      /\ DOMAIN balances' = DOMAIN balances
      /\ balances'[id] = c
      /\ \A e \in DOMAIN balances : e # id => balances'[e] = balances[e]
  BY <1>1
<1>4. /\ \A e \in DealOf : Exists(e)' <=> Exists(e)
      /\ \A e \in DealOf : Exists(e) /\ e # id => balances'[e] = balances[e]
  BY <1>3 DEF Exists
<1>5. owedOnBalances' = [owedOnBalances EXCEPT !["asset"][id] = 0]
  <2>1. \A e \in DealOf : OwedOn(e)' = IF e = id THEN 0 ELSE OwedOn(e)
    BY <1>2, <1>3, <1>4 DEF OwedOn, Settled
  <2>. QED  BY <1>2, <2>1 DEF owedOnBalances
<1>6. payeesOfBalance' = payeesOfBalance
  <2>1. \A e \in DealOf : PayeesOf(e)' = PayeesOf(e)
    BY <1>2, <1>3, <1>4 DEF PayeesOf
  <2>. QED  BY <2>1 DEF payeesOfBalance
<1>7. phaseOfBalance' = [phaseOfBalance EXCEPT ![id] = "settled"] /\ phaseOfBalance[id] = "open"
  <2>1. \A e \in DealOf : PhaseOf(e)' = IF e = id THEN "settled" ELSE PhaseOf(e)
    BY <1>2, <1>3, <1>4 DEF PhaseOf, Settled
  <2>. QED  BY <1>2, <2>1 DEF phaseOfBalance, PhaseOf
<1>8. /\ owedOnBalances["asset"][id] = balances[id].amount
      /\ payeesOfBalance[id] = {balances[id].claimant, balances[id].funder}
  BY <1>2 DEF owedOnBalances, OwedOn, payeesOfBalance, PayeesOf
<1>. QED  BY <1>2, <1>3, <1>5, <1>6, <1>7, <1>8

(* A new balance is the deal that follows the others.                      *)
LEMMA DealOpens ==
    ASSUME VaultIInv, Len(balances) < MaxBalances, NEW b \in Balance,
           ~b.claimed, ~b.cancelled, balances' = Append(balances, b)
    PROVE  /\ balances' \in Seq(Balance) /\ Len(balances') <= MaxBalances
           /\ \E d \in DealOf :
                 /\ phaseOfBalance[d] = "unused"
                 /\ owedOnBalances' = [owedOnBalances EXCEPT !["asset"][d] = b.amount]
                 /\ payeesOfBalance' = [payeesOfBalance EXCEPT ![d] = {b.claimant, b.funder}]
                 /\ phaseOfBalance' = [phaseOfBalance EXCEPT ![d] = "open"]
<1>1. /\ balances \in Seq(Balance) /\ DOMAIN balances = 1..Len(balances)
      /\ Len(balances) \in Nat
  BY VaultFacts
<1>2. PICK d : d = Len(balances) + 1
  OBVIOUS
<1>3. /\ balances' \in Seq(Balance) /\ Len(balances') <= MaxBalances
      /\ DOMAIN balances' = 1..(Len(balances) + 1)
      /\ balances'[d] = b
      /\ \A e \in DOMAIN balances : balances'[e] = balances[e]
  BY <1>1, <1>2, BoundsAssumption
<1>4. /\ d \in DealOf /\ ~Exists(d)
      /\ \A e \in DealOf : Exists(e)' <=> (Exists(e) \/ e = d)
      /\ \A e \in DealOf : Exists(e) => balances'[e] = balances[e]
  BY <1>1, <1>2, <1>3, BoundsAssumption DEF Exists, DealOf
<1>5. owedOnBalances' = [owedOnBalances EXCEPT !["asset"][d] = b.amount]
  <2>1. \A e \in DealOf : OwedOn(e)' = IF e = d THEN b.amount ELSE OwedOn(e)
    BY <1>3, <1>4 DEF OwedOn, Settled
  <2>. QED  BY <1>4, <2>1 DEF owedOnBalances
<1>6. payeesOfBalance' = [payeesOfBalance EXCEPT ![d] = {b.claimant, b.funder}]
  <2>1. \A e \in DealOf : PayeesOf(e)' = IF e = d THEN {b.claimant, b.funder} ELSE PayeesOf(e)
    BY <1>3, <1>4 DEF PayeesOf
  <2>. QED  BY <1>4, <2>1 DEF payeesOfBalance
<1>7. phaseOfBalance' = [phaseOfBalance EXCEPT ![d] = "open"] /\ phaseOfBalance[d] = "unused"
  <2>1. \A e \in DealOf : PhaseOf(e)' = IF e = d THEN "open" ELSE PhaseOf(e)
    BY <1>3, <1>4 DEF PhaseOf, Settled
  <2>. QED  BY <1>4, <2>1 DEF phaseOfBalance, PhaseOf
<1>. QED  BY <1>3, <1>4, <1>5, <1>6, <1>7

(* A payout of a balance, by a claim or by a cancellation: whole, once, to *)
(* one of the two it can go to.                                            *)
LEMMA PayoutStep ==
    ASSUME VaultIInv, NEW id \in DOMAIN balances, ~Settled(id),
           NEW c \in Balance, c.claimed \/ c.cancelled, c.amount = balances[id].amount,
           c.funder = balances[id].funder, c.claimant = balances[id].claimant,
           balances' = [balances EXCEPT ![id] = c],
           NEW to \in {balances[id].claimant, balances[id].funder},
           asset' \in transfer(asset, Vault, to, balances[id].amount), now' = now
    PROVE  VaultIInv' /\ Kept!Next
<1>1. PICK n : n = balances[id].amount /\ n \in Nat /\ n \in Int
  BY BalanceFacts
<1>2. /\ to \in Address /\ Vault \in Address /\ asset' \in transfer(asset, Vault, to, n)
      /\ now \in 1..MaxTime /\ Len(balances) <= MaxBalances
  BY <1>1, BalanceFacts, VaultFacts
<1>3. /\ n \in Nat /\ n <= asset.bal[Vault]
      /\ asset' \in Storage /\ Lasting(asset')
      /\ Total(asset'.bal) = Total(asset.bal)
      /\ Vault = to => asset'.bal = asset.bal
      /\ Vault # to => asset'.bal = [asset.bal EXCEPT ![Vault] = @ - n, ![to] = @ + n]
  BY <1>1, <1>2, VaultTransfer
<1>4. /\ balances' \in Seq(Balance) /\ Len(balances') = Len(balances)
      /\ id \in DealOf /\ phaseOfBalance[id] = "open"
      /\ owedOnBalances["asset"][id] = balances[id].amount
      /\ payeesOfBalance[id] = {balances[id].claimant, balances[id].funder}
      /\ owedOnBalances' = [owedOnBalances EXCEPT !["asset"][id] = 0]
      /\ payeesOfBalance' = payeesOfBalance
      /\ phaseOfBalance' = [phaseOfBalance EXCEPT ![id] = "settled"]
  BY DealSettles
<1>5. VaultIInv'
  BY <1>2, <1>3, <1>4 DEF VaultIInv, ClaimableTypeOK
<1>6. Kept!Move("asset", Vault, to, n)
  BY <1>2, <1>3, BalanceIsMove
<1>7. Kept!Settle("asset", id, to)
  BY <1>1, <1>4, <1>6 DEF Kept!Settle
<1>. QED  BY <1>2, <1>4, <1>5, <1>7 DEF Kept!Next

LEMMA GiftStep ==
    ASSUME VaultIInv, NEW from \in Person, NEW to \in Address, NEW n \in DepositAmounts,
           TokenTransfer(from, to, n)
    PROVE  VaultIInv' /\ Kept!Next
<1>1. /\ from \in Address /\ from # Vault /\ n \in Int /\ n <= MaxI128
      /\ asset' \in transfer(asset, from, to, n) /\ balances' = balances /\ now' = now
  BY DepositsAssumption, WidthAssumption DEF Person, TokenTransfer
<1>2. /\ n \in Nat /\ n <= asset.bal[from]
      /\ asset' \in Storage /\ Lasting(asset')
      /\ Total(asset'.bal) = Total(asset.bal)
      /\ from = to => asset'.bal = asset.bal
      /\ from # to => asset'.bal = [asset.bal EXCEPT ![from] = @ - n, ![to] = @ + n]
  BY <1>1, VaultTransfer
<1>3. VaultIInv'
  BY <1>1, <1>2 DEF VaultIInv, ClaimableTypeOK
<1>4. Kept!Move("asset", from, to, n)
  BY <1>1, <1>2, BalanceIsMove
<1>5. n \in Held
  BY <1>1, <1>2, WidthAssumption DEF Held
<1>6. UNCHANGED Deals
  BY <1>1, DealsFrame
<1>7. Kept!Pay("asset", from, to, n)
  BY <1>1, <1>4, <1>6 DEF Kept!Pay, Deals
<1>. QED  BY <1>1, <1>3, <1>5, <1>7 DEF Kept!Next

LEMMA DepositStep ==
    ASSUME VaultIInv, Len(balances) < MaxBalances, NEW funder \in Person,
           NEW claimant \in Address, NEW n \in DepositAmounts, NEW delay \in Delays,
           NEW expiry \in Option(Expiries), NEW x \in Int,
           Deposit(funder, claimant, n, delay, expiry, x)
    PROVE  VaultIInv' /\ Kept!Next
<1>1. n > 0 /\ check_expiration(x) /\ asset' \in Pulled(funder, n, x) /\ now' = now
  BY DEF Deposit
<1>2. PICK b : /\ b = [funder |-> funder, claimant |-> claimant, amount |-> n,
                       unlock_time |-> now + delay, expiry |-> expiry,
                       claimed |-> FALSE, cancelled |-> FALSE]
               /\ balances' = Append(balances, b)
  BY DEF Deposit
<1>3. /\ n \in 1..MaxI128 /\ n <= asset.bal[funder]
      /\ asset' \in Storage /\ Lasting(asset')
      /\ Total(asset'.bal) = Total(asset.bal)
      /\ asset'.bal = [asset.bal EXCEPT ![funder] = @ - n, ![Vault] = @ + n]
  BY <1>1, PulledOutcome
<1>4. /\ funder \in Address /\ funder # Vault /\ Vault \in Address /\ n \in Nat /\ n \in Held
      /\ now \in 1..MaxTime /\ now \in Nat
  BY <1>3, VaultFacts, WidthAssumption DEF Person, Held
<1>5. b \in Balance
  <2>1. now + delay \in Nat /\ expiry \in SUBSET Expiries
    BY <1>4, TimesAssumption DEF Option
  <2>. QED  BY <1>2, <1>3, <2>1 DEF Balance
<1>6. /\ balances' \in Seq(Balance) /\ Len(balances') <= MaxBalances
      /\ \E d \in DealOf :
            /\ phaseOfBalance[d] = "unused"
            /\ owedOnBalances' = [owedOnBalances EXCEPT !["asset"][d] = b.amount]
            /\ payeesOfBalance' = [payeesOfBalance EXCEPT ![d] = {b.claimant, b.funder}]
            /\ phaseOfBalance' = [phaseOfBalance EXCEPT ![d] = "open"]
  BY <1>2, <1>5, DealOpens
<1>7. PICK d \in DealOf :
          /\ phaseOfBalance[d] = "unused"
          /\ owedOnBalances' = [owedOnBalances EXCEPT !["asset"][d] = n]
          /\ payeesOfBalance' = [payeesOfBalance EXCEPT ![d] = {claimant, funder}]
          /\ phaseOfBalance' = [phaseOfBalance EXCEPT ![d] = "open"]
  BY <1>2, <1>6
<1>8. VaultIInv'
  BY <1>1, <1>3, <1>4, <1>6 DEF VaultIInv, ClaimableTypeOK
<1>9. Kept!Move("asset", funder, Vault, n)
  BY <1>3, <1>4, BalanceIsMove
<1>10. Kept!Open("asset", d, funder, n, {claimant, funder})
  BY <1>4, <1>7, <1>9 DEF Kept!Open
<1>11. {claimant, funder} \in SUBSET Address
  BY <1>4
<1>. QED  BY <1>4, <1>8, <1>10, <1>11 DEF Kept!Next

LEMMA ClaimStep ==
    ASSUME VaultIInv, NEW id \in DOMAIN balances, NEW p \in Person, Claim(id, p)
    PROVE  VaultIInv' /\ Kept!Next
<1>1. PICK b : b = balances[id] /\ b \in Balance
  BY BalanceFacts
<1>2. /\ p = b.claimant /\ asset' \in Claimed(b) /\ now' = now
      /\ balances' = [balances EXCEPT ![id].claimed = TRUE]
  BY <1>1 DEF Claim
<1>3. ~b.claimed /\ ~b.cancelled /\ asset' \in transfer(asset, Vault, b.claimant, b.amount)
  BY <1>2 DEF Claimed, Panic
<1>4. PICK c : c = [b EXCEPT !.claimed = TRUE]
  OBVIOUS
<1>5. /\ c \in Balance /\ (c.claimed \/ c.cancelled)
      /\ c.amount = b.amount /\ c.funder = b.funder /\ c.claimant = b.claimant
  BY <1>1, <1>4 DEF Balance
<1>6. balances' = [balances EXCEPT ![id] = c]
  BY <1>1, <1>2, <1>4, VaultFacts
<1>7. ~Settled(id)
  BY <1>1, <1>3 DEF Settled
<1>8. PICK to : to = b.claimant
  OBVIOUS
<1>9. /\ ~Settled(id) /\ c \in Balance /\ (c.claimed \/ c.cancelled)
      /\ c.amount = balances[id].amount /\ c.funder = balances[id].funder
      /\ c.claimant = balances[id].claimant
      /\ balances' = [balances EXCEPT ![id] = c]
      /\ to \in {balances[id].claimant, balances[id].funder}
      /\ asset' \in transfer(asset, Vault, to, balances[id].amount) /\ now' = now
  BY <1>1, <1>2, <1>3, <1>5, <1>6, <1>7, <1>8
<1>. QED  BY <1>9, PayoutStep

LEMMA CancelBalanceStep ==
    ASSUME VaultIInv, NEW id \in DOMAIN balances, Cancel(id)
    PROVE  VaultIInv' /\ Kept!Next
<1>1. PICK b : b = balances[id] /\ b \in Balance
  BY BalanceFacts
<1>2. /\ ~b.claimed /\ ~b.cancelled
      /\ asset' \in transfer(asset, Vault, b.funder, b.amount) /\ now' = now
      /\ balances' = [balances EXCEPT ![id].cancelled = TRUE]
  BY <1>1 DEF Cancel, Cancellable
<1>3. PICK c : c = [b EXCEPT !.cancelled = TRUE]
  OBVIOUS
<1>4. /\ c \in Balance /\ (c.claimed \/ c.cancelled)
      /\ c.amount = b.amount /\ c.funder = b.funder /\ c.claimant = b.claimant
  BY <1>1, <1>3 DEF Balance
<1>5. balances' = [balances EXCEPT ![id] = c]
  BY <1>1, <1>2, <1>3, VaultFacts
<1>6. ~Settled(id)
  BY <1>1, <1>2 DEF Settled
<1>7. PICK to : to = b.funder
  OBVIOUS
<1>8. /\ ~Settled(id) /\ c \in Balance /\ (c.claimed \/ c.cancelled)
      /\ c.amount = balances[id].amount /\ c.funder = balances[id].funder
      /\ c.claimant = balances[id].claimant
      /\ balances' = [balances EXCEPT ![id] = c]
      /\ to \in {balances[id].claimant, balances[id].funder}
      /\ asset' \in transfer(asset, Vault, to, balances[id].amount) /\ now' = now
  BY <1>1, <1>2, <1>4, <1>5, <1>6, <1>7
<1>. QED  BY <1>8, PayoutStep

LEMMA VaultIdle ==
    ASSUME VaultIInv, asset' = asset, balances' = balances, now' \in 1..MaxTime
    PROVE  VaultIInv' /\ UNCHANGED Kept!vars
<1>1. VaultIInv'
  BY DEF VaultIInv, ClaimableTypeOK
<1>2. UNCHANGED Deals /\ wealthOfAsset' = wealthOfAsset
  BY DealsFrame DEF wealthOfAsset
<1>. QED  BY <1>1, <1>2 DEF Kept!vars, Deals

LEMMA VaultNext ==
    ASSUME VaultIInv, [ClaimableNext]_claimableVars
    PROVE  VaultIInv' /\ [Kept!Next]_Kept!vars
<1>1. CASE \E from \in Person, to \in Address, n \in DepositAmounts : TokenTransfer(from, to, n)
  BY <1>1, GiftStep
<1>2. CASE /\ Len(balances) < MaxBalances
           /\ \E funder \in Person, claimant \in Address, n \in DepositAmounts, delay \in Delays,
                 expiry \in Option(Expiries), ahead \in Horizons :
                  Deposit(funder, claimant, n, delay, expiry, now + ahead)
  <2>1. PICK funder \in Person, claimant \in Address, n \in DepositAmounts, delay \in Delays,
             expiry \in Option(Expiries), ahead \in Horizons :
                 Deposit(funder, claimant, n, delay, expiry, now + ahead)
    BY <1>2
  <2>2. now + ahead \in Int
    BY VaultFacts, TimesAssumption
  <2>. QED  BY <1>2, <2>1, <2>2, DepositStep
<1>3. CASE \E id \in DOMAIN balances, p \in Person : Claim(id, p)
  BY <1>3, ClaimStep
<1>4. CASE \E id \in DOMAIN balances : Cancel(id)
  BY <1>4, CancelBalanceStep
<1>5. CASE LedgerCloses
  BY <1>5, VaultFacts, BoundsAssumption, VaultIdle DEF LedgerCloses
<1>6. CASE UNCHANGED claimableVars
  BY <1>6, VaultFacts, VaultIdle DEF claimableVars
<1>. QED  BY <1>1, <1>2, <1>3, <1>4, <1>5, <1>6 DEF ClaimableNext

LEMMA VaultInvariance == ClaimableSpec => []VaultIInv
<1>1. VaultIInv /\ [ClaimableNext]_claimableVars => VaultIInv'
  BY VaultNext
<1>. QED  BY <1>1, VaultInit, PTL DEF ClaimableSpec

(* Storages and balances stay well typed: what a balance promises is       *)
(* always a positive amount the token can hold (lib.rs:88-128).            *)
THEOREM BalancesTyped == ClaimableSpec => []ClaimableTypeOK
<1>1. VaultIInv => ClaimableTypeOK
  BY DEF VaultIInv
<1>. QED  BY <1>1, VaultInvariance, PTL

(* The contract implements custody, for every number of balances and       *)
(* every window: each is paid once, whole, to its claimant or back to its  *)
(* funder, and the contract's funds move for no other reason.              *)
THEOREM BalancesImplementCustody == ClaimableSpec => ImplementsCustody
<1>1. ClaimableInit => Kept!Init
  <2>. SUFFICES ASSUME ClaimableInit PROVE Kept!Init
    OBVIOUS
  <2>1. wealthOfAsset \in [{"asset"} -> [Address -> Nat]]
    BY VaultInit, VaultFacts, WidthAssumption DEF wealthOfAsset, Held
  <2>2. \A d \in DealOf : ~Exists(d)
    BY DEF ClaimableInit, Exists
  <2>. QED  BY <2>1, <2>2 DEF Kept!Init, owedOnBalances, OwedOn, payeesOfBalance, PayeesOf,
                              phaseOfBalance, PhaseOf
<1>2. VaultIInv /\ [ClaimableNext]_claimableVars => [Kept!Next]_Kept!vars
  BY VaultNext
<1>. QED  BY <1>1, <1>2, VaultInvariance, PTL DEF ClaimableSpec, ImplementsCustody, Kept!Spec

-----------------------------------------------------------------------------
(* What custody proves of its keeper, for the claimable balances.          *)

KeptProofs == INSTANCE CustodyProofs WITH
    Holder   <- Address,
    Keeper   <- Vault,
    Asset    <- {"asset"},
    Deal     <- DealOf,
    Quantity <- Held,
    wealth   <- wealthOfAsset,
    owed     <- owedOnBalances,
    payees   <- payeesOfBalance,
    phase    <- phaseOfBalance

LEMMA CustodyBacked == Kept!Spec => []KeptProofs!Backed
<1>1. Vault \in Address
  BY PartiesAssumption
<1>2. KeptProofs!IsFiniteSet(DealOf)
  <2>1. IsFiniteSet(DealOf)
    BY BoundsAssumption, FS_Interval DEF DealOf
  <2>. QED  BY <2>1 DEF IsFiniteSet, KeptProofs!IsFiniteSet
<1>3. Held \subseteq Nat
  BY WidthAssumption DEF Held
<1>4. Kept!Init => KeptProofs!Init
  BY DEF Kept!Init, KeptProofs!Init
<1>5. [Kept!Next]_Kept!vars => [KeptProofs!Next]_KeptProofs!vars
  BY DEF Kept!Next, KeptProofs!Next, Kept!vars, KeptProofs!vars,
         Kept!Pay, KeptProofs!Pay, Kept!Open, KeptProofs!Open, Kept!Raise, KeptProofs!Raise,
         Kept!Settle, KeptProofs!Settle, Kept!Move, KeptProofs!Move
<1>6. /\ KeptProofs!IsFiniteSet(Address)
      /\ MaxI128 \in Nat
      /\ MinTempTtl \in Nat \ {0} /\ MaxEntryTtl \in Nat \ {0}
  BY AddressAssumption, WidthAssumption, TtlAssumption DEF IsFiniteSet, KeptProofs!IsFiniteSet
<1>7. KeptProofs!Spec => []KeptProofs!Backed
  BY <1>1, <1>2, <1>3, <1>6, KeptProofs!HoldingsBacked
     DEF KeptProofs!WellGiven
<1>. QED  BY <1>4, <1>5, <1>7, PTL DEF Kept!Spec, KeptProofs!Spec

(* The contract holds what all balances together still promise.            *)
HoldingsCoverBalances == Total([d \in DealOf |-> OwedOn(d)]) <= asset.bal[Vault]

(* No balance is paid from another's, for any number of balances           *)
(* (lib.rs:130-178).                                                       *)
THEOREM BalancesCovered == ClaimableSpec => []HoldingsCoverBalances
<1>1. KeptProofs!Backed => HoldingsCoverBalances
  <2>1. KeptProofs!Total(owedOnBalances["asset"]) = Total(owedOnBalances["asset"])
    BY DEF Total, KeptProofs!Total, Units, KeptProofs!Units, UnitsOf, KeptProofs!UnitsOf,
           Cardinality, KeptProofs!Cardinality
  <2>. QED  BY <2>1 DEF KeptProofs!Backed, HoldingsCoverBalances, owedOnBalances, wealthOfAsset
<1>. QED  BY <1>1, BalancesImplementCustody, CustodyBacked, PTL DEF ImplementsCustody

(* Where the holdings cover the balances and the supply fits the width,    *)
(* what is not settled can be paid to anybody.                             *)
LEMMA UnsettledIsPayable ==
    ASSUME VaultIInv, HoldingsCoverBalances, Total(Endowment) <= MaxI128,
           NEW id \in DOMAIN balances, ~Settled(id), NEW to \in Address
    PROVE  transfer(asset, Vault, to, balances[id].amount) # Panic
<1>1. PICK n : n = balances[id].amount /\ n \in Nat
  BY BalanceFacts
<1>. DEFINE f == [d \in DealOf |-> OwedOn(d)]
<1>2. id \in DealOf /\ IsFiniteSet(DealOf)
  BY VaultFacts, BoundsAssumption, FS_Interval DEF DealOf
<1>3. f \in [DealOf -> Nat] /\ f[id] = n
  <2>1. \A d \in DealOf : OwedOn(d) \in Nat
    BY BalanceFacts DEF OwedOn, Exists
  <2>2. OwedOn(id) = n
    BY <1>1 DEF OwedOn, Exists
  <2>. QED  BY <1>2, <2>1, <2>2
<1>4. n <= Total(f) /\ Total(f) \in Nat /\ Total(f) <= asset.bal[Vault]
  <2>1. Total(f) <= asset.bal[Vault]
    BY DEF HoldingsCoverBalances
  <2>. HIDE DEF f
  <2>. QED  BY <1>2, <1>3, <2>1, TotalAtLeast, TotalType
<1>5. asset \in Storage /\ Vault \in Address /\ asset.bal[Vault] \in Nat
  BY VaultFacts, WidthAssumption DEF Held
<1>6. n <= asset.bal[Vault] /\ Total(asset.bal) <= MaxI128
  BY <1>1, <1>4, <1>5 DEF VaultIInv
<1>7. transfer(asset, Vault, to, n) # Panic
  BY <1>1, <1>5, <1>6, AffordableGoesThrough
<1>. QED  BY <1>1, <1>7

(* Nothing is beyond recovery: the admin can send back whatever is not     *)
(* settled, expired or not, whatever was claimed and cancelled before, if  *)
(* the asset's supply fits i128 (lib.rs:159-178).                          *)
THEOREM BalancesRecoverable ==
    ASSUME Total(Endowment) <= MaxI128
    PROVE  ClaimableSpec => []AlwaysRecoverable
<1>1. VaultIInv /\ HoldingsCoverBalances => AlwaysRecoverable
  <2>. SUFFICES ASSUME VaultIInv, HoldingsCoverBalances, NEW id \in DOMAIN balances,
                       ~balances[id].claimed, ~balances[id].cancelled
                PROVE  transfer(asset, Vault, balances[id].funder, balances[id].amount) # Panic
    BY DEF AlwaysRecoverable, Cancellable
  <2>1. ~Settled(id) /\ balances[id].funder \in Address
    BY BalanceFacts DEF Settled
  <2>. QED  BY <2>1, UnsettledIsPayable
<1>. QED  BY <1>1, VaultInvariance, BalancesCovered, PTL

(* What is_claimable announces is what a claim does: the payment behind it *)
(* always goes through, if the asset's supply fits i128 (lib.rs:130-157,   *)
(* 189-204).                                                               *)
THEOREM ViewsTruthful ==
    ASSUME Total(Endowment) <= MaxI128
    PROVE  ClaimableSpec => []ViewIsTruthful
<1>1. VaultIInv /\ HoldingsCoverBalances => ViewIsTruthful
  <2>. SUFFICES ASSUME VaultIInv, HoldingsCoverBalances, NEW id \in DOMAIN balances
                PROVE  is_claimable(balances[id]) <=> Claimed(balances[id]) # Panic
    BY DEF ViewIsTruthful
  <2>1. CASE is_claimable(balances[id])
    <3>1. ~Settled(id) /\ balances[id].claimant \in Address
      BY <2>1, BalanceFacts DEF Settled, is_claimable
    <3>2. transfer(asset, Vault, balances[id].claimant, balances[id].amount) # Panic
      BY <3>1, UnsettledIsPayable
    <3>. QED  BY <2>1, <3>2 DEF is_claimable, Claimed
  <2>2. CASE ~is_claimable(balances[id])
    BY <2>2 DEF is_claimable, Claimed
  <2>. QED  BY <2>1, <2>2
<1>. QED  BY <1>1, VaultInvariance, BalancesCovered, PTL

=============================================================================
