---------------------------- MODULE TimelockProofs ----------------------------
(***************************************************************************)
(* The timelock is well typed and keeps the promises of custody, for every *)
(* number of locks, assets and parties.                                    *)
(***************************************************************************)
EXTENDS Timelock, Sep41Proofs

(* Amounts a transfer accepts are amounts a lock can record.               *)
LEMMA TransferAmount ==
    ASSUME NEW t \in Storage, NEW from \in Address, NEW to \in Address, NEW n \in Amounts,
           NEW u \in transfer(t, from, to, n)
    PROVE  /\ n \in Held
           /\ u \in Storage
           /\ n <= t.bal[from]
           /\ from = to => u.bal = t.bal
           /\ from # to => u.bal = [t.bal EXCEPT ![from] = @ - n, ![to] = @ + n]
<1>1. n \in Int /\ n <= MaxI128
  BY AmountsAssumption, WidthAssumption
<1>2. /\ n \in Nat
      /\ u \in Storage
      /\ u.allow = t.allow
      /\ n <= t.bal[from]
      /\ Total(u.bal) = Total(t.bal)
  BY <1>1, TransferOutcome
<1>3. /\ from = to => u.bal = t.bal
      /\ from # to => u.bal = [t.bal EXCEPT ![from] = @ - n, ![to] = @ + n]
  BY <1>1, TransferBalances
<1>. QED  BY <1>1, <1>2, <1>3, WidthAssumption DEF Held

LEMMA InitType == Init => TypeOK
<1>. SUFFICES ASSUME Init PROVE TypeOK
  OBVIOUS
<1>1. EmptyStorage \in Storage
  BY WidthAssumption DEF EmptyStorage, Storage, NoEntry, Entry, Held
<1>2. \A a \in Asset : [EmptyStorage EXCEPT !.bal = Endowment[a]] \in Storage
  BY <1>1, EndowmentAssumption DEF Storage
<1>. QED  BY <1>2, BoundsAssumption DEF Init, TypeOK

LEMMA NextType == TypeOK /\ [Next]_vars => TypeOK'
<1>. SUFFICES ASSUME TypeOK, [Next]_vars PROVE TypeOK'
  OBVIOUS
<1>0. /\ Lockbox \in Address
      /\ \A a \in Asset : toks[a] \in Storage
  BY LockboxAssumption DEF TypeOK
<1>1. ASSUME NEW a \in Asset, NEW from \in Person, NEW to \in Address, NEW n \in Amounts,
             TokenTransfer(a, from, to, n)
      PROVE  TypeOK'
  <2>1. PICK t \in transfer(toks[a], from, to, n) : toks' = [toks EXCEPT ![a] = t]
    BY <1>1 DEF TokenTransfer
  <2>2. t \in Storage
    BY <1>0, <2>1, TransferAmount DEF Person
  <2>. QED  BY <1>1, <2>1, <2>2 DEF TokenTransfer, TypeOK
<1>2. ASSUME Len(locks) < MaxLocks,
             NEW owner \in Person, NEW a \in Asset, NEW n \in Amounts,
             NEW beneficiary \in Address, NEW unlock_time \in UnlockTimes,
             CreateLock(owner, a, n, beneficiary, unlock_time)
      PROVE  TypeOK'
  <2>. DEFINE l == [owner |-> owner, asset |-> a, amount |-> n,
                    beneficiary |-> beneficiary, unlock_time |-> unlock_time,
                    released |-> FALSE]
  <2>1. PICK t \in transfer(toks[a], owner, Lockbox, n) : toks' = [toks EXCEPT ![a] = t]
    BY <1>2 DEF CreateLock
  <2>2. n \in Held /\ t \in Storage
    BY <1>0, <2>1, TransferAmount DEF Person
  <2>3. l \in Lock
    BY <2>2, TimesAssumption DEF Lock
  <2>4. locks' = Append(locks, l)
    BY <1>2 DEF CreateLock
  <2>5. locks' \in Seq(Lock) /\ Len(locks') <= MaxLocks
    BY <1>2, <2>3, <2>4, BoundsAssumption DEF TypeOK
  <2>. QED  BY <1>2, <2>1, <2>2, <2>5 DEF CreateLock, TypeOK
<1>3. ASSUME NEW id \in DOMAIN locks, NEW p \in Person, Release(id, p)
      PROVE  TypeOK'
  <2>. DEFINE l == locks[id]
  <2>0. locks[id] \in Lock
    BY DEF TypeOK
  <2>1. l \in Lock /\ l.asset \in Asset /\ l.beneficiary = p
    BY <1>3, <2>0 DEF Lock, Release
  <2>2. PICK t \in transfer(toks[l.asset], Lockbox, p, l.amount) :
            toks' = [toks EXCEPT ![l.asset] = t]
    BY <1>3 DEF Release
  <2>3. l.amount \in Int
    BY <2>1, WidthAssumption DEF Lock, Held
  <2>4. /\ l.amount \in Nat
        /\ t \in Storage
        /\ t.allow = toks[l.asset].allow
        /\ l.amount <= toks[l.asset].bal[Lockbox]
        /\ Total(t.bal) = Total(toks[l.asset].bal)
    BY <1>0, <2>1, <2>2, <2>3, TransferOutcome DEF Person
  <2>5. Released(l) \in Lock
    BY <2>1 DEF Released, Lock
  <2>6. locks' \in Seq(Lock) /\ Len(locks') = Len(locks)
    BY <1>3, <2>5 DEF Release, TypeOK
  <2>. QED  BY <1>3, <2>1, <2>2, <2>4, <2>6 DEF Release, TypeOK
<1>4. CASE CloseLedger
  BY <1>4, BoundsAssumption DEF CloseLedger, TypeOK
<1>5. CASE UNCHANGED vars
  BY <1>5 DEF vars, TypeOK
<1>. QED  BY <1>1, <1>2, <1>3, <1>4, <1>5 DEF Next

(* Storages and locks stay well typed: what a lock promises is always an   *)
(* amount the token can pay (lib.rs:27-49).                                *)
THEOREM TypeCorrect == Spec => []TypeOK
BY InitType, NextType, PTL DEF Spec

-----------------------------------------------------------------------------
(* The refinement *)

LEMMA InitRefines == Init => Kept!Init
<1>. SUFFICES ASSUME Init PROVE Kept!Init
  OBVIOUS
<1>1. wealthOfAll \in [Asset -> [Address -> Nat]]
  <2>1. \A a \in Asset : toks[a].bal \in [Address -> Held]
    BY InitType DEF TypeOK, Storage
  <2>. QED  BY <2>1, WidthAssumption DEF wealthOfAll, Held
<1>2. \A d \in DealIds : ~Exists(d)
  BY DEF Init, Exists
<1>. QED  BY <1>1, <1>2 DEF Kept!Init, owedOnLocks, OwedTo, payeesOfLock, phaseOfLock, PhaseOf

(* A transfer of the asset is a move of the abstract custody.              *)
LEMMA TransferIsMove ==
    ASSUME TypeOK, NEW a \in Asset, NEW from \in Address, NEW to \in Address, NEW n \in Held,
           NEW t \in transfer(toks[a], from, to, n), toks' = [toks EXCEPT ![a] = t]
    PROVE  Kept!Move(a, from, to, n)
<1>1. toks[a] \in Storage /\ n \in Int
  BY WidthAssumption DEF TypeOK, Held
<1>2. /\ n \in Nat
      /\ t \in Storage
      /\ t.allow = toks[a].allow
      /\ n <= toks[a].bal[from]
      /\ Total(t.bal) = Total(toks[a].bal)
  BY <1>1, TransferOutcome
<1>3. /\ from = to => t.bal = toks[a].bal
      /\ from # to => t.bal = [toks[a].bal EXCEPT ![from] = @ - n, ![to] = @ + n]
  BY <1>1, TransferBalances
<1>4. toks'[a] = t /\ \A b \in Asset : b # a => toks'[b] = toks[b]
  BY DEF TypeOK
<1>5. wealthOfAll' = [wealthOfAll EXCEPT ![a] = t.bal]
  <2>1. \A b \in Asset : toks'[b].bal = IF b = a THEN t.bal ELSE toks[b].bal
    BY <1>4
  <2>. QED  BY <2>1 DEF wealthOfAll
<1>6. wealthOfAll[a] = toks[a].bal /\ wealthOfAll[a] \in [Address -> Held]
  BY <1>1 DEF wealthOfAll, Storage
<1>7. CASE from = to
  BY <1>2, <1>3, <1>5, <1>6, <1>7 DEF Kept!Move, wealthOfAll
<1>8. CASE from # to
  <2>1. DOMAIN wealthOfAll = Asset
    BY DEF wealthOfAll
  <2>2. wealthOfAll'
          = [wealthOfAll EXCEPT ![a] = [wealthOfAll[a] EXCEPT ![from] = @ - n, ![to] = @ + n]]
    BY <1>3, <1>5, <1>6, <1>8
  <2>3. wealthOfAll' = [wealthOfAll EXCEPT ![a][from] = @ - n, ![a][to] = @ + n]
    BY <1>6, <1>8, <2>1, <2>2
  <2>. QED  BY <1>2, <1>6, <1>8, <2>3 DEF Kept!Move
<1>. QED  BY <1>7, <1>8

LEMMA NextRefines == TypeOK /\ [Next]_vars => [Kept!Next]_Kept!vars
<1>. SUFFICES ASSUME TypeOK, [Next]_vars PROVE [Kept!Next]_Kept!vars
  OBVIOUS
<1>0. /\ Lockbox \in Address
      /\ locks \in Seq(Lock)
      /\ \A a \in Asset : toks[a] \in Storage
  BY LockboxAssumption DEF TypeOK
<1>. DEFINE Deals == <<owedOnLocks, payeesOfLock, phaseOfLock>>
<1>1. ASSUME UNCHANGED locks PROVE UNCHANGED Deals
  BY <1>1 DEF owedOnLocks, OwedTo, payeesOfLock, phaseOfLock, PhaseOf, Exists
<1>2. ASSUME NEW a \in Asset, NEW from \in Person, NEW to \in Address, NEW n \in Amounts,
             TokenTransfer(a, from, to, n)
      PROVE  Kept!Next
  <2>1. PICK t \in transfer(toks[a], from, to, n) : toks' = [toks EXCEPT ![a] = t]
    BY <1>2 DEF TokenTransfer
  <2>2. n \in Held /\ from \in Address /\ from # Lockbox
    BY <1>0, <2>1, TransferAmount DEF Person
  <2>3. Kept!Move(a, from, to, n)
    BY <2>1, <2>2, TransferIsMove
  <2>4. UNCHANGED Deals
    BY <1>1, <1>2 DEF TokenTransfer
  <2>5. Kept!Pay(a, from, to, n)
    BY <2>2, <2>3, <2>4 DEF Kept!Pay
  <2>. QED  BY <2>2, <2>5 DEF Kept!Next
<1>3. ASSUME Len(locks) < MaxLocks,
             NEW owner \in Person, NEW a \in Asset, NEW n \in Amounts,
             NEW beneficiary \in Address, NEW unlock_time \in UnlockTimes,
             CreateLock(owner, a, n, beneficiary, unlock_time)
      PROVE  Kept!Next
  <2>. DEFINE l == [owner |-> owner, asset |-> a, amount |-> n,
                    beneficiary |-> beneficiary, unlock_time |-> unlock_time,
                    released |-> FALSE]
              d == Len(locks) + 1
  <2>1. PICK t \in transfer(toks[a], owner, Lockbox, n) : toks' = [toks EXCEPT ![a] = t]
    BY <1>3 DEF CreateLock
  <2>2. n \in Held /\ owner \in Address /\ owner # Lockbox
    BY <1>0, <2>1, TransferAmount DEF Person
  <2>3. Kept!Move(a, owner, Lockbox, n)
    BY <1>0, <2>1, <2>2, TransferIsMove
  <2>4. d \in DealIds
    BY <1>0, <1>3, BoundsAssumption DEF DealIds
  <2>5. /\ ~Exists(d)
        /\ \A e \in DealIds : Exists(e)' <=> (Exists(e) \/ e = d)
        /\ \A e \in DealIds : Exists(e) => locks'[e] = locks[e]
        /\ locks'[d].asset = a /\ locks'[d].amount = n
        /\ locks'[d].beneficiary = beneficiary /\ ~locks'[d].released
    <3>1. locks' = Append(locks, l)
      BY <1>3 DEF CreateLock
    <3>2. /\ DOMAIN locks = 1..Len(locks) /\ DOMAIN locks' = 1..(Len(locks) + 1)
          /\ Len(locks) \in Nat
      BY <1>0, <3>1
    <3>3. locks'[d] = l /\ \A e \in 1..Len(locks) : locks'[e] = locks[e]
      BY <1>0, <3>1
    <3>. QED  BY <3>2, <3>3 DEF Exists, DealIds
  <2>. HIDE DEF d
  <2>6. owedOnLocks' = [owedOnLocks EXCEPT ![a][d] = n]
    <3>1. \A b \in Asset, e \in DealIds :
              OwedTo(b, e)' = IF b = a /\ e = d THEN n ELSE OwedTo(b, e)
      BY <2>5 DEF OwedTo
    <3>. QED  BY <2>4, <3>1 DEF owedOnLocks
  <2>7. payeesOfLock' = [payeesOfLock EXCEPT ![d] = {beneficiary}]
    <3>1. \A e \in DealIds :
              (IF Exists(e) THEN {locks[e].beneficiary} ELSE {})'
                = IF e = d THEN {beneficiary}
                  ELSE IF Exists(e) THEN {locks[e].beneficiary} ELSE {}
      BY <2>5
    <3>. QED  BY <2>4, <3>1 DEF payeesOfLock
  <2>8. phaseOfLock' = [phaseOfLock EXCEPT ![d] = "open"] /\ phaseOfLock[d] = "unused"
    <3>1. \A e \in DealIds : PhaseOf(e)' = IF e = d THEN "open" ELSE PhaseOf(e)
      BY <2>5 DEF PhaseOf
    <3>. QED  BY <2>4, <2>5, <3>1 DEF phaseOfLock, PhaseOf
  <2>9. Kept!Open(a, d, owner, n, {beneficiary})
    BY <2>2, <2>3, <2>6, <2>7, <2>8 DEF Kept!Open
  <2>10. {beneficiary} \in SUBSET Address
    OBVIOUS
  <2>. QED  BY <2>2, <2>4, <2>9, <2>10 DEF Kept!Next
<1>4. ASSUME NEW id \in DOMAIN locks, NEW p \in Person, Release(id, p)
      PROVE  Kept!Next
  <2>. DEFINE l == locks[id]
              a == locks[id].asset
  <2>0. locks[id] \in Lock
    BY <1>0
  <2>1. /\ l \in Lock /\ a \in Asset /\ l.beneficiary = p /\ ~l.released
        /\ l.amount \in Held /\ p \in Address
    BY <1>4, <2>0 DEF Lock, Release, Releasable, Person
  <2>2. PICK t \in transfer(toks[a], Lockbox, p, l.amount) : toks' = [toks EXCEPT ![a] = t]
    BY <1>4 DEF Release
  <2>3. Kept!Move(a, Lockbox, p, l.amount)
    BY <1>0, <2>1, <2>2, TransferIsMove
  <2>4. id \in DealIds /\ Exists(id)
    BY <1>0, BoundsAssumption DEF DealIds, TypeOK, Exists
  <2>5. /\ \A e \in DealIds : Exists(e)' <=> Exists(e)
        /\ \A e \in DealIds : Exists(e) /\ e # id => locks'[e] = locks[e]
        /\ locks'[id] = [l EXCEPT !.released = TRUE]
    BY <1>0, <1>4 DEF Release, Released, Exists
  <2>6. /\ locks'[id].released /\ locks'[id].asset = a
        /\ locks'[id].beneficiary = l.beneficiary
    BY <2>1, <2>5 DEF Lock
  <2>7. owedOnLocks' = [owedOnLocks EXCEPT ![a][id] = 0]
    <3>1. \A b \in Asset, e \in DealIds :
              OwedTo(b, e)' = IF b = a /\ e = id THEN 0 ELSE OwedTo(b, e)
      BY <2>4, <2>5, <2>6 DEF OwedTo
    <3>. QED  BY <2>1, <2>4, <3>1 DEF owedOnLocks
  <2>8. owedOnLocks[a][id] = l.amount /\ \A b \in Asset \ {a} : owedOnLocks[b][id] = 0
    BY <2>1, <2>4 DEF owedOnLocks, OwedTo
  <2>9. payeesOfLock' = payeesOfLock /\ p \in payeesOfLock[id]
    BY <2>1, <2>4, <2>5, <2>6 DEF payeesOfLock
  <2>10. phaseOfLock' = [phaseOfLock EXCEPT ![id] = "settled"] /\ phaseOfLock[id] = "open"
    BY <2>1, <2>4, <2>5, <2>6 DEF phaseOfLock, PhaseOf
  <2>11. Kept!Settle(a, id, p)
    BY <2>3, <2>7, <2>8, <2>9, <2>10 DEF Kept!Settle
  <2>. QED  BY <2>1, <2>4, <2>11 DEF Kept!Next
<1>5. CASE CloseLedger
  <2>1. UNCHANGED wealthOfAll
    BY <1>5 DEF CloseLedger, wealthOfAll
  <2>. QED  BY <1>1, <1>5, <2>1 DEF CloseLedger, Kept!vars
<1>6. CASE UNCHANGED vars
  <2>1. UNCHANGED wealthOfAll
    BY <1>6 DEF vars, wealthOfAll
  <2>. QED  BY <1>1, <1>6, <2>1 DEF vars, Kept!vars
<1>. QED  BY <1>2, <1>3, <1>4, <1>5, <1>6 DEF Next

(* The timelock implements custody: each lock is paid once, whole, to its  *)
(* beneficiary, and the contract's funds move for no other reason.         *)
THEOREM TimelockImplementsCustody == Spec => ImplementsCustody
<1>1. Init => Kept!Init
  BY InitRefines
<1>2. TypeOK /\ [Next]_vars => [Kept!Next]_Kept!vars
  BY NextRefines
<1>. QED  BY <1>1, <1>2, InitType, NextType, PTL DEF Spec, ImplementsCustody, Kept!Spec

-----------------------------------------------------------------------------
(* What custody proves of its keeper, for the timelock's locks.            *)

KeptProofs == INSTANCE CustodyProofs WITH
    Holder   <- Address,
    Keeper   <- Lockbox,
    Deal     <- DealIds,
    Quantity <- Held,
    wealth   <- wealthOfAll,
    owed     <- owedOnLocks,
    payees   <- payeesOfLock,
    phase    <- phaseOfLock

LEMMA CustodyBacked == Kept!Spec => []KeptProofs!Backed
<1>1. Lockbox \in Address
  BY LockboxAssumption
<1>2. KeptProofs!IsFiniteSet(DealIds)
  <2>1. IsFiniteSet(DealIds)
    BY BoundsAssumption, FS_Interval DEF DealIds
  <2>. QED  BY <2>1 DEF IsFiniteSet, KeptProofs!IsFiniteSet
<1>3. Held \subseteq Nat
  BY WidthAssumption DEF Held
<1>4. Kept!Init => KeptProofs!Init
  BY DEF Kept!Init, KeptProofs!Init
<1>5. [Kept!Next]_Kept!vars => [KeptProofs!Next]_KeptProofs!vars
  BY DEF Kept!Next, KeptProofs!Next, Kept!vars, KeptProofs!vars,
         Kept!Pay, KeptProofs!Pay, Kept!Open, KeptProofs!Open, Kept!Raise, KeptProofs!Raise,
         Kept!Settle, KeptProofs!Settle, Kept!Move, KeptProofs!Move
<1>6. /\ KeptProofs!IsFiniteSet(Address)
      /\ MaxI128 \in Nat
      /\ MinTempTtl \in Nat \ {0} /\ MaxEntryTtl \in Nat \ {0}
  BY AddressAssumption, WidthAssumption, TtlAssumption DEF IsFiniteSet, KeptProofs!IsFiniteSet
<1>7. KeptProofs!Spec => []KeptProofs!Backed
  BY <1>1, <1>2, <1>3, <1>6, KeptProofs!HoldingsBacked
     DEF KeptProofs!WellGiven
<1>. QED  BY <1>4, <1>5, <1>7, PTL DEF Kept!Spec, KeptProofs!Spec

(* A lock is marked as released only when its time has come.               *)
NoneIsEarly == \A id \in DOMAIN locks : locks[id].released => is_unlocked(locks[id])

LEMMA InitNotEarly == Init => NoneIsEarly
BY DEF Init, NoneIsEarly

LEMMA NextNotEarly == TypeOK /\ NoneIsEarly /\ [Next]_vars => NoneIsEarly'
<1>. SUFFICES ASSUME TypeOK, NoneIsEarly, [Next]_vars PROVE NoneIsEarly'
  OBVIOUS
<1>1. /\ locks \in Seq(Lock) /\ now \in Int
      /\ \A id \in DOMAIN locks : locks[id] \in Lock /\ locks[id].unlock_time \in Int
  <2>1. locks \in Seq(Lock) /\ now \in Int
    BY BoundsAssumption DEF TypeOK
  <2>2. \A id \in DOMAIN locks : locks[id] \in Lock
    BY <2>1
  <2>. QED  BY <2>1, <2>2 DEF Lock
<1>2. CASE UNCHANGED <<locks, now>>
  BY <1>2 DEF NoneIsEarly, is_unlocked
<1>3. CASE CloseLedger
  BY <1>1, <1>3 DEF CloseLedger, NoneIsEarly, is_unlocked
<1>4. ASSUME NEW owner \in Person, NEW asset \in Asset, NEW n \in Amounts,
             NEW beneficiary \in Address, NEW unlock_time \in UnlockTimes,
             CreateLock(owner, asset, n, beneficiary, unlock_time)
      PROVE  NoneIsEarly'
  <2>1. PICK l : locks' = Append(locks, l) /\ ~l.released /\ now' = now
    BY <1>4 DEF CreateLock
  <2>2. /\ DOMAIN locks' = 1..(Len(locks) + 1) /\ DOMAIN locks = 1..Len(locks)
        /\ Len(locks) \in Nat
        /\ locks'[Len(locks) + 1] = l
        /\ \A id \in DOMAIN locks : locks'[id] = locks[id]
    BY <1>1, <2>1
  <2>3. \A id \in DOMAIN locks' : id \in DOMAIN locks \/ id = Len(locks) + 1
    BY <2>2
  <2>. QED  BY <2>1, <2>2, <2>3 DEF NoneIsEarly, is_unlocked
<1>5. ASSUME NEW id \in DOMAIN locks, NEW p \in Person, Release(id, p)
      PROVE  NoneIsEarly'
  <2>1. /\ now' = now /\ is_unlocked(locks[id])
        /\ locks' = [locks EXCEPT ![id] = [locks[id] EXCEPT !.released = TRUE]]
    BY <1>5 DEF Release, Releasable, Released
  <2>2. \A i \in DOMAIN locks : locks'[i].unlock_time = locks[i].unlock_time
    BY <1>1, <2>1 DEF Lock
  <2>. QED  BY <1>1, <2>1, <2>2 DEF NoneIsEarly, is_unlocked
<1>6. ASSUME NEW asset \in Asset, NEW from \in Person, NEW to \in Address, NEW n \in Amounts,
             TokenTransfer(asset, from, to, n)
      PROVE  NoneIsEarly'
  BY <1>2, <1>6 DEF TokenTransfer
<1>. QED  BY <1>2, <1>3, <1>4, <1>5, <1>6 DEF Next, vars

(* So what is due on a lock is what custody is owed on it. *)
LEMMA DueIsOwed ==
    ASSUME NoneIsEarly
    PROVE  \A a \in Asset, d \in DealIds : DueOn(a, d) = OwedTo(a, d)
BY DEF NoneIsEarly, DueOn, OwedTo, Exists

(* No lock of an asset is ever paid before its time, or from another's     *)
(* funds: the contract holds at least what all of them together require    *)
(* (lib.rs:56-69).                                                         *)
THEOREM LocksCovered == Spec => []HoldingsCoverLocks
<1>1. KeptProofs!Backed /\ NoneIsEarly => HoldingsCoverLocks
  <2>1. \A a \in Asset : KeptProofs!Total(owedOnLocks[a]) = Total(owedOnLocks[a])
    BY DEF Total, KeptProofs!Total, Units, KeptProofs!Units, UnitsOf, KeptProofs!UnitsOf,
           Cardinality, KeptProofs!Cardinality
  <2>2. NoneIsEarly => \A a \in Asset : [d \in DealIds |-> DueOn(a, d)] = owedOnLocks[a]
    BY DueIsOwed DEF owedOnLocks
  <2>. QED  BY <2>1, <2>2 DEF KeptProofs!Backed, HoldingsCoverLocks, wealthOfAll
<1>. QED
  BY <1>1, InitNotEarly, NextNotEarly, TypeCorrect, TimelockImplementsCustody, CustodyBacked, PTL
     DEF ImplementsCustody, Spec

-----------------------------------------------------------------------------
(* No lock is stuck *)

SuppliesKept == \A a \in Asset : Total(toks[a].bal) = Total(Endowment[a])

LEMMA InitSupplies == Init => SuppliesKept
<1>. SUFFICES ASSUME Init PROVE SuppliesKept
  OBVIOUS
<1>1. EmptyStorage \in Storage
  BY WidthAssumption DEF EmptyStorage, Storage, NoEntry, Entry, Held
<1>. QED  BY <1>1 DEF Init, SuppliesKept, Storage

LEMMA NextSupplies == TypeOK /\ SuppliesKept /\ [Next]_vars => SuppliesKept'
<1>. SUFFICES ASSUME TypeOK, SuppliesKept, [Next]_vars PROVE SuppliesKept'
  OBVIOUS
<1>0. /\ Lockbox \in Address
      /\ locks \in Seq(Lock)
      /\ \A a \in Asset : toks[a] \in Storage
  BY LockboxAssumption DEF TypeOK
<1>1. ASSUME NEW a \in Asset, NEW t, Total(t.bal) = Total(toks[a].bal),
             toks' = [toks EXCEPT ![a] = t]
      PROVE  SuppliesKept'
  <2>1. \A b \in Asset : toks'[b] = IF b = a THEN t ELSE toks[b]
    BY <1>1 DEF TypeOK
  <2>. QED  BY <1>1, <2>1 DEF SuppliesKept
<1>2. ASSUME NEW a \in Asset, NEW from \in Person, NEW to \in Address, NEW n \in Amounts,
             NEW t \in transfer(toks[a], from, to, n), toks' = [toks EXCEPT ![a] = t]
      PROVE  SuppliesKept'
  <2>1. from \in Address /\ toks[a] \in Storage
    BY <1>0 DEF Person
  <2>2. n \in Int
    BY <1>2, AmountsAssumption
  <2>3. /\ n \in Nat
        /\ t \in Storage
        /\ t.allow = toks[a].allow
        /\ n <= toks[a].bal[from]
        /\ Total(t.bal) = Total(toks[a].bal)
    BY <1>2, <2>1, <2>2, TransferOutcome
  <2>. QED  BY <1>1, <1>2, <2>3
<1>3. ASSUME NEW id \in DOMAIN locks, NEW p \in Person, Release(id, p)
      PROVE  SuppliesKept'
  <2>. DEFINE l == locks[id]
  <2>0. locks[id] \in Lock
    BY <1>0
  <2>1. l.asset \in Asset /\ l.amount \in Int /\ p \in Address
    BY <2>0, WidthAssumption DEF Lock, Held, Person
  <2>2. PICK t \in transfer(toks[l.asset], Lockbox, p, l.amount) :
            toks' = [toks EXCEPT ![l.asset] = t]
    BY <1>3 DEF Release
  <2>3. /\ l.amount \in Nat
        /\ t \in Storage
        /\ t.allow = toks[l.asset].allow
        /\ l.amount <= toks[l.asset].bal[Lockbox]
        /\ Total(t.bal) = Total(toks[l.asset].bal)
    BY <1>0, <2>1, <2>2, TransferOutcome
  <2>. QED  BY <1>1, <2>1, <2>2, <2>3
<1>4. ASSUME toks' = toks  PROVE SuppliesKept'
  BY <1>4 DEF SuppliesKept
<1>5. ASSUME NEW a \in Asset, NEW from \in Person, NEW to \in Address, NEW n \in Amounts,
             TokenTransfer(a, from, to, n)
      PROVE  SuppliesKept'
  BY <1>2, <1>5 DEF TokenTransfer
<1>6. ASSUME NEW owner \in Person, NEW a \in Asset, NEW n \in Amounts,
             NEW beneficiary \in Address, NEW unlock_time \in UnlockTimes,
             CreateLock(owner, a, n, beneficiary, unlock_time)
      PROVE  SuppliesKept'
  BY <1>0, <1>2, <1>6 DEF CreateLock
<1>7. CASE CloseLedger \/ UNCHANGED vars
  BY <1>4, <1>7 DEF CloseLedger, vars
<1>. QED  BY <1>3, <1>5, <1>6, <1>7 DEF Next

(* When its time has come a lock can be paid, whoever its beneficiary is.  *)
NoneIsStuck ==
    \A id \in DOMAIN locks :
        LET l == locks[id] IN
        Releasable(l) => transfer(toks[l.asset], Lockbox, l.beneficiary, l.amount) # Panic

LEMMA CoveredIsPayable ==
    ASSUME \A a \in Asset : Total(Endowment[a]) <= MaxI128,
           TypeOK, SuppliesKept, HoldingsCoverLocks
    PROVE  NoneIsStuck
<1>. SUFFICES ASSUME NEW id \in DOMAIN locks, Releasable(locks[id])
              PROVE  transfer(toks[locks[id].asset], Lockbox, locks[id].beneficiary,
                              locks[id].amount) # Panic
  BY DEF NoneIsStuck
<1>. DEFINE l == locks[id]
            a == locks[id].asset
            owed == [d \in DealIds |-> DueOn(a, d)]
<1>1. l \in Lock /\ id \in DealIds /\ Exists(id) /\ ~l.released
  BY BoundsAssumption DEF TypeOK, DealIds, Exists, Releasable
<1>2. a \in Asset /\ l.amount \in Nat /\ l.beneficiary \in Address /\ Lockbox \in Address
  BY <1>1, WidthAssumption, LockboxAssumption DEF Lock, Held
<1>3. \A d \in DealIds : DueOn(a, d) \in Nat
  <2>1. TAKE d \in DealIds
  <2>2. Exists(d) => locks[d].amount \in Nat
    <3>1. Exists(d) => locks[d] \in Lock
      BY DEF TypeOK, Exists
    <3>. QED  BY <3>1, WidthAssumption DEF Lock, Held
  <2>. QED  BY <2>2 DEF DueOn
<1>4. IsFiniteSet(DealIds)
  BY BoundsAssumption, FS_Interval DEF DealIds
<1>5. owed \in [DealIds -> Nat] /\ owed[id] = l.amount
  BY <1>1, <1>3 DEF DueOn
<1>6. Total(owed) <= toks[a].bal[Lockbox]
  BY <1>2 DEF HoldingsCoverLocks
<1>7. toks[a] \in Storage /\ Total(toks[a].bal) <= MaxI128
  BY <1>2 DEF TypeOK, SuppliesKept
<1>8. toks[a].bal[Lockbox] \in Nat
  BY <1>2, <1>7, WidthAssumption DEF Storage, Held
<1>. HIDE DEF owed
<1>9. owed[id] <= Total(owed) /\ Total(owed) \in Nat
  BY <1>1, <1>4, <1>5, TotalAtLeast, TotalType
<1>10. l.amount <= toks[a].bal[Lockbox]
  BY <1>2, <1>5, <1>6, <1>8, <1>9
<1>. QED  BY <1>2, <1>7, <1>10, AffordableGoesThrough

(* No lock keeps funds that its beneficiary cannot get out: once its time  *)
(* has come the release goes through, whatever the other locks were paid,  *)
(* if the supply of each asset fits i128 (lib.rs:56-69).                   *)
THEOREM NothingStuck ==
    ASSUME \A a \in Asset : Total(Endowment[a]) <= MaxI128
    PROVE  Spec => []NoneIsStuck
<1>1. TypeOK /\ SuppliesKept /\ HoldingsCoverLocks => NoneIsStuck
  BY CoveredIsPayable
<1>. QED  BY <1>1, InitSupplies, NextSupplies, TypeCorrect, LocksCovered, PTL DEF Spec

=============================================================================
