---------------------------- MODULE CustodyProofs ----------------------------
(***************************************************************************)
(* Whatever number of deals share the keeper's holdings, the holdings cover*)
(* what is owed to the open ones.  Every contract shown to implement       *)
(* Custody inherits this.                                                  *)
(***************************************************************************)
EXTENDS Custody, Sep41Proofs

IInv == TypeOK /\ Backed

(* What a move does to the keeper's holdings, seen from either side.       *)
LEMMA MoveOutcome ==
    ASSUME WellGiven, TypeOK,
           NEW a \in Asset, NEW from \in Holder, NEW to \in Holder, NEW n \in Nat,
           Move(a, from, to, n)
    PROVE  /\ wealth' \in [Asset -> [Holder -> Nat]]
           /\ \A b \in Asset : b # a => wealth'[b] = wealth[b]
           /\ from # Keeper => wealth'[a][Keeper] = wealth[a][Keeper]
                                                    + (IF to = Keeper THEN n ELSE 0)
           /\ wealth'[a][Keeper] >= wealth[a][Keeper] - (IF from = Keeper THEN n ELSE 0)
<1>1. /\ wealth \in [Asset -> [Holder -> Nat]]
      /\ wealth[a] \in [Holder -> Nat]
      /\ wealth[a][from] \in Nat /\ wealth[a][to] \in Nat /\ wealth[a][Keeper] \in Nat
      /\ n <= wealth[a][from]
  BY DEF WellGiven, TypeOK, Move
<1>2. CASE from = to
  <2>1. wealth' = wealth
    BY <1>2 DEF Move
  <2>2. from # Keeper => to # Keeper
    BY <1>2
  <2>. QED  BY <1>1, <2>1, <2>2
<1>3. CASE from # to
  <2>. DEFINE w == [wealth[a] EXCEPT ![from] = @ - n, ![to] = @ + n]
  <2>1. wealth' = [wealth EXCEPT ![a] = w]
    BY <1>1, <1>3 DEF Move
  <2>2. /\ w \in [Holder -> Nat]
        /\ w[from] = wealth[a][from] - n
        /\ w[to] = wealth[a][to] + n
        /\ \A h \in Holder \ {from, to} : w[h] = wealth[a][h]
    BY <1>1, <1>3
  <2>. HIDE DEF w
  <2>3. /\ wealth' \in [Asset -> [Holder -> Nat]]
        /\ wealth'[a] = w
        /\ \A b \in Asset : b # a => wealth'[b] = wealth[b]
    BY <1>1, <2>1, <2>2
  <2>4. Keeper \in Holder
    BY DEF WellGiven
  <2>. QED  BY <1>1, <1>3, <2>2, <2>3, <2>4
<1>. QED  BY <1>2, <1>3

(* Changing what one deal is owed moves the asset's obligations by as much.*)
LEMMA OwedUpdate ==
    ASSUME WellGiven, TypeOK, NEW a \in Asset, NEW d \in Deal, NEW n \in Nat,
           owed' = [owed EXCEPT ![a][d] = n]
    PROVE  /\ owed' \in [Asset -> [Deal -> Nat]]
           /\ owed'[a][d] = n
           /\ \A b \in Asset, e \in Deal : (b # a \/ e # d) => owed'[b][e] = owed[b][e]
           /\ \A b \in Asset : b # a => Total(owed'[b]) = Total(owed[b])
           /\ Total(owed'[a]) = Total(owed[a]) - owed[a][d] + n
           /\ \A b \in Asset : Total(owed[b]) \in Nat
<1>1. owed \in [Asset -> [Deal -> Nat]] /\ owed[a] \in [Deal -> Nat]
  BY DEF TypeOK
<1>. DEFINE o == [owed[a] EXCEPT ![d] = n]
<1>2. owed' = [owed EXCEPT ![a] = o]
  BY <1>1
<1>3. o \in [Deal -> Nat] /\ o[d] = n /\ \A e \in Deal : e # d => o[e] = owed[a][e]
  BY <1>1
<1>4. Total(o) = Total(owed[a]) - owed[a][d] + n
  BY <1>1, TotalUpdate DEF WellGiven
<1>. HIDE DEF o
<1>5. owed'[a] = o /\ \A b \in Asset : b # a => owed'[b] = owed[b]
  BY <1>1, <1>2
<1>6. owed' \in [Asset -> [Deal -> Nat]]
  BY <1>1, <1>2, <1>3
<1>7. \A b \in Asset : Total(owed[b]) \in Nat
  BY <1>1, TotalType DEF WellGiven
<1>. QED  BY <1>1, <1>3, <1>4, <1>5, <1>6, <1>7

LEMMA Initially == WellGiven /\ Init => IInv
<1>. SUFFICES ASSUME WellGiven, Init PROVE IInv
  OBVIOUS
<1>1. TypeOK
  BY DEF Init, TypeOK
<1>2. \A a \in Asset, d \in Deal : owed[a][d] = 0
  BY DEF Init
<1>3. \A a \in Asset : Total(owed[a]) = 0 /\ wealth[a][Keeper] \in Nat
  <2>1. TAKE a \in Asset
  <2>2. owed[a] = [d \in Deal |-> 0]
    BY DEF Init
  <2>3. Total([d \in Deal |-> 0]) = 0
    BY TotalZero
  <2>. QED  BY <1>1, <2>2, <2>3 DEF WellGiven, TypeOK
<1>. QED  BY <1>1, <1>2, <1>3 DEF IInv, Backed

LEMMA Inductive == WellGiven /\ IInv /\ [Next]_vars => IInv'
<1>. SUFFICES ASSUME WellGiven, IInv, [Next]_vars PROVE IInv'
  OBVIOUS
<1>. USE DEF IInv
<1>0. \A a \in Asset : wealth[a][Keeper] \in Nat /\ Total(owed[a]) \in Nat
  BY TotalType DEF WellGiven, TypeOK
<1>1. ASSUME NEW a \in Asset, NEW from \in Holder, NEW to \in Holder, NEW n \in Quantity,
             Pay(a, from, to, n)
      PROVE  IInv'
  <2>1. n \in Nat
    BY DEF WellGiven
  <2>2. /\ wealth' \in [Asset -> [Holder -> Nat]]
        /\ \A b \in Asset : b # a => wealth'[b] = wealth[b]
        /\ from # Keeper => wealth'[a][Keeper] = wealth[a][Keeper]
                                                 + (IF to = Keeper THEN n ELSE 0)
        /\ wealth'[a][Keeper] >= wealth[a][Keeper] - (IF from = Keeper THEN n ELSE 0)
    BY <1>1, <2>1, MoveOutcome DEF Pay
  <2>3. \A b \in Asset : wealth'[b][Keeper] >= wealth[b][Keeper]
    BY <1>0, <1>1, <2>1, <2>2 DEF Pay
  <2>4. \A b \in Asset : wealth'[b][Keeper] \in Nat
    BY <2>2 DEF WellGiven
  <2>. QED  BY <1>0, <1>1, <2>2, <2>3, <2>4 DEF Pay, TypeOK, Backed
<1>2. ASSUME NEW a \in Asset, NEW d \in Deal, NEW from \in Holder, NEW n \in Quantity,
             NEW ps \in SUBSET Holder, Open(a, d, from, n, ps)
      PROVE  IInv'
  <2>1. n \in Nat
    BY DEF WellGiven
  <2>2. /\ wealth' \in [Asset -> [Holder -> Nat]]
        /\ \A b \in Asset : b # a => wealth'[b] = wealth[b]
        /\ from # Keeper => wealth'[a][Keeper] = wealth[a][Keeper]
                                                 + (IF Keeper = Keeper THEN n ELSE 0)
        /\ wealth'[a][Keeper] >= wealth[a][Keeper] - (IF from = Keeper THEN n ELSE 0)
    BY <1>2, <2>1, MoveOutcome DEF WellGiven, Open
  <2>3. /\ owed' \in [Asset -> [Deal -> Nat]]
        /\ owed'[a][d] = n
        /\ \A b \in Asset, e \in Deal : (b # a \/ e # d) => owed'[b][e] = owed[b][e]
        /\ \A b \in Asset : b # a => Total(owed'[b]) = Total(owed[b])
        /\ Total(owed'[a]) = Total(owed[a]) - owed[a][d] + n
        /\ \A b \in Asset : Total(owed[b]) \in Nat
    BY <1>2, <2>1, OwedUpdate DEF Open
  <2>4. TypeOK'
    BY <1>2, <2>2, <2>3 DEF Open, TypeOK
  <2>5. \A b \in Asset, e \in Deal : phase'[e] # "open" => owed'[b][e] = 0
    BY <1>2, <2>3 DEF Open, TypeOK, Backed
  <2>6. \A b \in Asset : Total(owed'[b]) <= wealth'[b][Keeper]
    <3>1. owed[a][d] = 0
      BY <1>2 DEF Open, Backed
    <3>2. from # Keeper
      BY <1>2 DEF Open
    <3>3. Total(owed'[a]) <= wealth'[a][Keeper]
      BY <1>0, <2>1, <2>2, <2>3, <3>1, <3>2 DEF Backed
    <3>. QED  BY <2>2, <2>3, <3>3 DEF Backed
  <2>. QED  BY <2>4, <2>5, <2>6 DEF Backed
<1>3. ASSUME NEW a \in Asset, NEW d \in Deal, NEW from \in Holder, NEW n \in Quantity,
             Raise(a, d, from, n)
      PROVE  IInv'
  <2>1. n \in Nat /\ owed[a][d] \in Nat /\ owed[a][d] + n \in Nat
    BY DEF WellGiven, TypeOK
  <2>2. /\ wealth' \in [Asset -> [Holder -> Nat]]
        /\ \A b \in Asset : b # a => wealth'[b] = wealth[b]
        /\ from # Keeper => wealth'[a][Keeper] = wealth[a][Keeper]
                                                 + (IF Keeper = Keeper THEN n ELSE 0)
        /\ wealth'[a][Keeper] >= wealth[a][Keeper] - (IF from = Keeper THEN n ELSE 0)
    BY <1>3, <2>1, MoveOutcome DEF WellGiven, Raise
  <2>3. owed' = [owed EXCEPT ![a][d] = owed[a][d] + n]
    BY <1>3 DEF Raise, TypeOK
  <2>4. /\ owed' \in [Asset -> [Deal -> Nat]]
        /\ owed'[a][d] = owed[a][d] + n
        /\ \A b \in Asset, e \in Deal : (b # a \/ e # d) => owed'[b][e] = owed[b][e]
        /\ \A b \in Asset : b # a => Total(owed'[b]) = Total(owed[b])
        /\ Total(owed'[a]) = Total(owed[a]) - owed[a][d] + (owed[a][d] + n)
        /\ \A b \in Asset : Total(owed[b]) \in Nat
    BY <2>1, <2>3, OwedUpdate
  <2>5. TypeOK'
    BY <1>3, <2>2, <2>4 DEF Raise, TypeOK
  <2>6. \A b \in Asset, e \in Deal : phase'[e] # "open" => owed'[b][e] = 0
    BY <1>3, <2>4 DEF Raise, Backed
  <2>7. \A b \in Asset : Total(owed'[b]) <= wealth'[b][Keeper]
    <3>1. from # Keeper
      BY <1>3 DEF Raise
    <3>2. Total(owed'[a]) <= wealth'[a][Keeper]
      BY <1>0, <2>1, <2>2, <2>4, <3>1 DEF Backed
    <3>. QED  BY <2>2, <2>4, <3>2 DEF Backed
  <2>. QED  BY <2>5, <2>6, <2>7 DEF Backed
<1>4. ASSUME NEW a \in Asset, NEW d \in Deal, NEW to \in Holder, Settle(a, d, to)
      PROVE  IInv'
  <2>1. owed[a][d] \in Nat
    BY DEF TypeOK
  <2>2. /\ wealth' \in [Asset -> [Holder -> Nat]]
        /\ \A b \in Asset : b # a => wealth'[b] = wealth[b]
        /\ Keeper # Keeper => wealth'[a][Keeper] = wealth[a][Keeper]
                                               + (IF to = Keeper THEN owed[a][d] ELSE 0)
        /\ wealth'[a][Keeper] >= wealth[a][Keeper]
                                 - (IF Keeper = Keeper THEN owed[a][d] ELSE 0)
    BY <1>4, <2>1, MoveOutcome DEF WellGiven, Settle
  <2>3. /\ owed' \in [Asset -> [Deal -> Nat]]
        /\ owed'[a][d] = 0
        /\ \A b \in Asset, e \in Deal : (b # a \/ e # d) => owed'[b][e] = owed[b][e]
        /\ \A b \in Asset : b # a => Total(owed'[b]) = Total(owed[b])
        /\ Total(owed'[a]) = Total(owed[a]) - owed[a][d] + 0
        /\ \A b \in Asset : Total(owed[b]) \in Nat
    BY <1>4, OwedUpdate DEF Settle
  <2>4. TypeOK'
    BY <1>4, <2>2, <2>3 DEF Settle, TypeOK
  <2>5. \A b \in Asset, e \in Deal : phase'[e] # "open" => owed'[b][e] = 0
    BY <1>4, <2>3 DEF Settle, TypeOK, Backed
  <2>6. \A b \in Asset : Total(owed'[b]) <= wealth'[b][Keeper]
    <3>1. wealth'[a][Keeper] \in Nat
      BY <2>2 DEF WellGiven
    <3>2. Total(owed'[a]) <= wealth'[a][Keeper]
      BY <1>0, <2>1, <2>2, <2>3, <3>1 DEF Backed
    <3>. QED  BY <2>2, <2>3, <3>2 DEF Backed
  <2>. QED  BY <2>4, <2>5, <2>6 DEF Backed
<1>5. ASSUME UNCHANGED vars PROVE IInv'
  BY <1>5 DEF vars, TypeOK, Backed
<1>. QED  BY <1>1, <1>2, <1>3, <1>4, <1>5 DEF Next

(* A keeper always holds at least what its open deals are owed together,   *)
(* whichever of them are settled first (for instance timelock/src/lib.rs:65*)
(* and claimable-balance/src/lib.rs:152).                                  *)
THEOREM HoldingsBacked == ASSUME WellGiven PROVE Spec => []Backed
<1>1. IInv => Backed
  BY DEF IInv
<1>. QED  BY <1>1, Initially, Inductive, PTL DEF Spec

=============================================================================
