----------------------------- MODULE Sep41Proofs -----------------------------
(***************************************************************************)
(* What each token operation can leave behind, for every storage it can    *)
(* run on, and what Total computes, for every finite domain: it is a       *)
(* natural, it is zero for the zero function, it is at least each of its   *)
(* terms, and an update at one point changes it by the difference at that  *)
(* point.  The contracts built on the token cite these facts.              *)
(***************************************************************************)
EXTENDS Sep41, FunctionTheorems, FiniteSetTheorems, TLAPS

(* What Total computes, for every finite domain. *)

(* The units of one holder are finitely many, and as many as it holds.     *)
LEMMA UnitsOfCardinality ==
    ASSUME NEW D, NEW f \in [D -> Nat], NEW x \in D
    PROVE  /\ IsFiniteSet(UnitsOf(f, x))
           /\ Cardinality(UnitsOf(f, x)) = f[x]
<1>1. f[x] \in Nat
  OBVIOUS
<1>2. IsFiniteSet({x}) /\ Cardinality({x}) = 1
  BY FS_Singleton
<1>3. IsFiniteSet(1..f[x]) /\ Cardinality(1..f[x]) = f[x]
  BY <1>1, FS_Interval
<1>4. /\ IsFiniteSet({x} \X (1..f[x]))
      /\ Cardinality({x} \X (1..f[x])) = Cardinality({x}) * Cardinality(1..f[x])
  BY <1>2, <1>3, FS_Product
<1>. QED  BY <1>1, <1>2, <1>3, <1>4 DEF UnitsOf

(* A finite domain has finitely many units, so its total is a natural.     *)
LEMMA TotalType ==
    ASSUME NEW D, IsFiniteSet(D), NEW f \in [D -> Nat]
    PROVE  /\ IsFiniteSet(Units(f))
           /\ Total(f) \in Nat
<1>. DEFINE S == {UnitsOf(f, x) : x \in D}
            g == [x \in D |-> UnitsOf(f, x)]
<1>1. g \in Surjection(D, S)
  BY DEF Surjection
<1>2. IsFiniteSet(S)
  BY <1>1, FS_Surjection
<1>3. \A T \in S : IsFiniteSet(T)
  BY UnitsOfCardinality
<1>4. IsFiniteSet(UNION S)
  BY <1>2, <1>3, FS_UNION
<1>5. Units(f) = UNION S
  BY DEF Units
<1>. QED  BY <1>4, <1>5, FS_CardinalityType DEF Total

(* Nobody holds anything: the total is zero.                               *)
LEMMA TotalZero ==
    ASSUME NEW D
    PROVE  Total([x \in D |-> 0]) = 0
<1>. DEFINE z == [x \in D |-> 0]
<1>1. Units(z) = {}
  BY DEF Units, UnitsOf
<1>. QED  BY <1>1, FS_EmptySet DEF Total

(* One holder's units are among all units.                                 *)
LEMMA TotalAtLeast ==
    ASSUME NEW D, IsFiniteSet(D), NEW f \in [D -> Nat], NEW x \in D
    PROVE  f[x] <= Total(f)
<1>1. UnitsOf(f, x) \subseteq Units(f)
  BY DEF Units
<1>2. Cardinality(UnitsOf(f, x)) <= Cardinality(Units(f))
  BY <1>1, TotalType, FS_Subset
<1>. QED  BY <1>2, UnitsOfCardinality DEF Total

(* Changing what one holder has changes the total by as much.              *)
LEMMA TotalUpdate ==
    ASSUME NEW D, IsFiniteSet(D), NEW f \in [D -> Nat], NEW x \in D, NEW n \in Nat
    PROVE  Total([f EXCEPT ![x] = n]) = Total(f) - f[x] + n
<1>. DEFINE g == [f EXCEPT ![x] = n]
            rest == Units(f) \ UnitsOf(f, x)
<1>1. g \in [D -> Nat] /\ g[x] = n
  OBVIOUS
<1>2. /\ IsFiniteSet(Units(f)) /\ Total(f) \in Nat
      /\ IsFiniteSet(UnitsOf(f, x)) /\ Cardinality(UnitsOf(f, x)) = f[x]
      /\ IsFiniteSet(UnitsOf(g, x)) /\ Cardinality(UnitsOf(g, x)) = n
  <2>1. IsFiniteSet(UnitsOf(g, x)) /\ Cardinality(UnitsOf(g, x)) = g[x]
    BY <1>1, UnitsOfCardinality
  <2>. QED  BY <2>1, <1>1, TotalType, UnitsOfCardinality
<1>3. /\ IsFiniteSet(rest)
      /\ Cardinality(rest) = Total(f) - f[x]
  <2>1. Units(f) \cap UnitsOf(f, x) = UnitsOf(f, x)
    BY DEF Units
  <2>2. /\ IsFiniteSet(rest)
        /\ Cardinality(rest)
             = Cardinality(Units(f)) - Cardinality(Units(f) \cap UnitsOf(f, x))
    BY <1>2, FS_Difference
  <2>. QED  BY <2>1, <2>2, <1>2 DEF Total
<1>4. Units(g) = rest \cup UnitsOf(g, x)
  <2>1. DOMAIN g = D /\ DOMAIN f = D
    OBVIOUS
  <2>2. \A y \in D : y # x => UnitsOf(g, y) = UnitsOf(f, y)
    BY DEF UnitsOf
  <2>3. \A y \in D : \A u \in UnitsOf(f, y) : y # x => u \notin UnitsOf(f, x)
    BY DEF UnitsOf
  <2>4. ASSUME NEW u
        PROVE  u \in Units(g) <=> u \in rest \/ u \in UnitsOf(g, x)
    <3>1. u \in Units(g) <=> \E y \in D : u \in UnitsOf(g, y)
      BY <2>1 DEF Units
    <3>2. u \in Units(f) <=> \E y \in D : u \in UnitsOf(f, y)
      BY <2>1 DEF Units
    <3>. QED  BY <3>1, <3>2, <2>2, <2>3
  <2>. QED  BY <2>4, Zenon
<1>5. rest \cap UnitsOf(g, x) = {}
  <2>1. SUFFICES ASSUME NEW u \in rest, u \in UnitsOf(g, x)
                 PROVE  FALSE
    OBVIOUS
  <2>2. PICK y \in D : u \in UnitsOf(f, y)
    BY DEF Units
  <2>3. y = x
    BY <2>1, <2>2 DEF UnitsOf
  <2>. QED  BY <2>1, <2>2, <2>3
<1>6. Cardinality(rest \cup UnitsOf(g, x))
        = Cardinality(rest) + Cardinality(UnitsOf(g, x)) - Cardinality(rest \cap UnitsOf(g, x))
  BY <1>2, <1>3, FS_Union
<1>7. Cardinality(rest \cap UnitsOf(g, x)) = 0
  BY <1>5, FS_EmptySet
<1>8. Total(g) = Cardinality(rest) + Cardinality(UnitsOf(g, x))
                   - Cardinality(rest \cap UnitsOf(g, x))
  BY <1>4, <1>6 DEF Total
<1>9. f[x] \in Nat
  OBVIOUS
<1>. QED  BY <1>2, <1>3, <1>7, <1>8, <1>9

(* Two functions that differ at one point at most.                         *)
LEMMA TotalChange ==
    ASSUME NEW D, IsFiniteSet(D), NEW f \in [D -> Nat], NEW g \in [D -> Nat], NEW x \in D,
           \A y \in D : y # x => g[y] = f[y]
    PROVE  /\ Total(f) \in Nat /\ Total(g) \in Nat
           /\ Total(g) = Total(f) - f[x] + g[x]
<1>1. PICK n \in Nat : n = g[x]
  OBVIOUS
<1>. DEFINE h == [f EXCEPT ![x] = n]
<1>2. Total(h) = Total(f) - f[x] + n
  BY TotalUpdate
<1>3. h \in [D -> Nat] /\ \A y \in D : h[y] = g[y]
  BY <1>1
<1>. HIDE DEF h
<1>4. g = h
  BY <1>3
<1>. QED  BY <1>1, <1>2, <1>4, TotalType

(* Holders that have nothing add nothing.                                  *)
LEMMA TotalExtend ==
    ASSUME NEW f, NEW g, DOMAIN f \subseteq DOMAIN g,
           \A y \in DOMAIN f : g[y] = f[y],
           \A y \in DOMAIN g : y \notin DOMAIN f => g[y] = 0
    PROVE  Total(g) = Total(f)
<1>. DEFINE D == DOMAIN f
            E == DOMAIN g
<1>1. \A y \in E : y \notin D => UnitsOf(g, y) = {}
  BY DEF UnitsOf
<1>2. \A y \in D : UnitsOf(g, y) = UnitsOf(f, y)
  BY DEF UnitsOf
<1>3. ASSUME NEW u PROVE u \in Units(g) <=> u \in Units(f)
  <2>1. u \in Units(g) <=> \E y \in E : u \in UnitsOf(g, y)
    BY DEF Units
  <2>2. u \in Units(f) <=> \E y \in D : u \in UnitsOf(f, y)
    BY DEF Units
  <2>. QED  BY <2>1, <2>2, <1>1, <1>2
<1>4. Units(g) = Units(f)
  BY <1>3, Zenon
<1>. QED  BY <1>4 DEF Total

(* The units of a function, one by one.                                    *)
LEMMA UnitsMember ==
    ASSUME NEW D, NEW f \in [D -> Nat]
    PROVE  \A u : u \in Units(f) <=> u \in D \X Nat /\ u[2] \in 1..f[u[1]]
<1>. SUFFICES ASSUME NEW u
              PROVE  u \in Units(f) <=> u \in D \X Nat /\ u[2] \in 1..f[u[1]]
  OBVIOUS
<1>1. u \in Units(f) <=> \E x \in D : u \in {x} \X (1..f[x])
  BY DEF Units, UnitsOf
<1>2. \A x \in D : 1..f[x] \subseteq Nat
  OBVIOUS
<1>. QED  BY <1>1, <1>2

(* A function that is nowhere less has no less in total.                   *)
LEMMA TotalMonotone ==
    ASSUME NEW D, IsFiniteSet(D), NEW f \in [D -> Nat], NEW g \in [D -> Nat],
           \A x \in D : f[x] <= g[x]
    PROVE  Total(f) <= Total(g)
<1>1. Units(f) \subseteq Units(g)
  <2>1. SUFFICES ASSUME NEW u, u \in Units(f) PROVE u \in Units(g)
    OBVIOUS
  <2>2. u \in D \X Nat /\ u[2] \in 1..f[u[1]]
    BY <2>1, UnitsMember
  <2>3. u[1] \in D /\ f[u[1]] \in Nat /\ g[u[1]] \in Nat /\ f[u[1]] <= g[u[1]]
    BY <2>2
  <2>4. u[2] \in 1..g[u[1]]
    BY <2>2, <2>3
  <2>. QED  BY <2>2, <2>4, UnitsMember
<1>. QED  BY <1>1, TotalType, FS_Subset DEF Total

(* The total of a sum is the sum of the totals.                            *)
LEMMA TotalSum ==
    ASSUME NEW D, IsFiniteSet(D), NEW f \in [D -> Nat], NEW g \in [D -> Nat]
    PROVE  Total([x \in D |-> f[x] + g[x]]) = Total(f) + Total(g)
<1>. DEFINE h == [x \in D |-> f[x] + g[x]]
            rest == Units(h) \ Units(f)
            F == [u \in Units(g) |-> <<u[1], f[u[1]] + u[2]>>]
<1>1. h \in [D -> Nat] /\ \A x \in D : h[x] = f[x] + g[x] /\ f[x] \in Nat /\ g[x] \in Nat
  OBVIOUS
<1>. HIDE DEF h
<1>2. /\ \A u : u \in Units(f) <=> u \in D \X Nat /\ u[2] \in 1..f[u[1]]
      /\ \A u : u \in Units(g) <=> u \in D \X Nat /\ u[2] \in 1..g[u[1]]
      /\ \A u : u \in Units(h) <=> u \in D \X Nat /\ u[2] \in 1..h[u[1]]
  BY <1>1, UnitsMember
<1>3. \A u : u \in rest <=> u \in D \X Nat /\ u[2] \in (f[u[1]] + 1) .. (f[u[1]] + g[u[1]])
  BY <1>1, <1>2
<1>. HIDE DEF rest
<1>4. F \in Bijection(Units(g), rest)
  <2>1. ASSUME NEW u \in Units(g)
        PROVE  F[u] \in rest
    <3>1. u \in D \X Nat /\ u[1] \in D /\ u[2] \in 1..g[u[1]]
      BY <1>2
    <3>2. f[u[1]] \in Nat /\ g[u[1]] \in Nat
      BY <3>1
    <3>3. /\ f[u[1]] + u[2] \in Nat
          /\ f[u[1]] + u[2] \in (f[u[1]] + 1) .. (f[u[1]] + g[u[1]])
      BY <3>1, <3>2
    <3>4. <<u[1], f[u[1]] + u[2]>> \in rest
      BY <1>3, <3>1, <3>3
    <3>. QED  BY <3>4
  <2>2. ASSUME NEW u \in Units(g), NEW v \in Units(g), F[u] = F[v]
        PROVE  u = v
    <3>1. /\ u \in D \X Nat /\ u[1] \in D /\ u[2] \in Nat
          /\ v \in D \X Nat /\ v[1] \in D /\ v[2] \in Nat
      BY <1>2
    <3>2. u[1] = v[1] /\ f[u[1]] + u[2] = f[v[1]] + v[2]
      BY <2>2
    <3>3. f[u[1]] \in Nat
      BY <3>1
    <3>. QED  BY <3>1, <3>2, <3>3
  <2>3. ASSUME NEW w \in rest
        PROVE  \E u \in Units(g) : F[u] = w
    <3>1. w \in D \X Nat /\ w[1] \in D /\ w[2] \in (f[w[1]] + 1) .. (f[w[1]] + g[w[1]])
      BY <1>3
    <3>2. f[w[1]] \in Nat /\ g[w[1]] \in Nat
      BY <3>1
    <3>. DEFINE u == <<w[1], w[2] - f[w[1]]>>
    <3>3. w[2] - f[w[1]] \in Nat /\ w[2] - f[w[1]] \in 1..g[w[1]]
      BY <3>1, <3>2
    <3>4. u \in Units(g)
      BY <1>2, <3>1, <3>3
    <3>5. F[u] = <<w[1], f[w[1]] + (w[2] - f[w[1]])>>
      BY <3>4
    <3>6. f[w[1]] + (w[2] - f[w[1]]) = w[2]
      BY <3>1, <3>2
    <3>. QED  BY <3>1, <3>4, <3>5, <3>6
  <2>4. F \in [Units(g) -> rest]
    BY <2>1
  <2>. QED  BY <2>2, <2>3, <2>4 DEF Bijection, Injection, Surjection, IsInjective
<1>5. /\ IsFiniteSet(Units(f)) /\ IsFiniteSet(Units(g)) /\ IsFiniteSet(Units(h))
      /\ Total(f) \in Nat /\ Total(g) \in Nat /\ Total(h) \in Nat
  BY <1>1, TotalType
<1>6. Cardinality(rest) = Cardinality(Units(g))
  BY <1>4, <1>5, FS_Bijection DEF ExistsBijection
<1>7. Units(h) \cap Units(f) = Units(f)
  <2>1. SUFFICES ASSUME NEW u, u \in Units(f) PROVE u \in Units(h)
    OBVIOUS
  <2>2. u \in D \X Nat /\ u[1] \in D /\ u[2] \in 1..f[u[1]]
    BY <1>2, <2>1
  <2>3. f[u[1]] \in Nat /\ g[u[1]] \in Nat /\ h[u[1]] = f[u[1]] + g[u[1]]
    BY <1>1, <2>2
  <2>4. u[2] \in 1..h[u[1]]
    BY <2>2, <2>3
  <2>. QED  BY <1>2, <2>2, <2>4
<1>8. Cardinality(rest) = Cardinality(Units(h)) - Cardinality(Units(h) \cap Units(f))
  BY <1>5, FS_Difference DEF rest
<1>9. Cardinality(Units(g)) = Cardinality(Units(h)) - Cardinality(Units(f))
  BY <1>6, <1>7, <1>8
<1>10. Total(g) = Total(h) - Total(f)
  BY <1>9 DEF Total
<1>11. Total(h) = Total(f) + Total(g)
  BY <1>5, <1>10
<1>. QED  BY <1>11 DEF h

(* Division rounds down.                                                   *)
LEMMA DivBounds ==
    ASSUME NEW a \in Nat, NEW c \in Nat \ {0}
    PROVE  /\ a \div c \in Nat
           /\ c * (a \div c) <= a
           /\ a < c * (a \div c) + c
OBVIOUS

(* Multiplying every term multiplies the total.                            *)
LEMMA TotalScale ==
    ASSUME NEW D, IsFiniteSet(D), NEW f \in [D -> Nat], NEW c \in Nat
    PROVE  Total([x \in D |-> c * f[x]]) = c * Total(f)
<1>. DEFINE h == [x \in D |-> c * f[x]]
            F == [w \in Units(f) \X (1..c) |-> <<w[1][1], c * (w[1][2] - 1) + w[2]>>]
<1>1. h \in [D -> Nat] /\ \A x \in D : h[x] = c * f[x] /\ f[x] \in Nat
  OBVIOUS
<1>2. Total(f) \in Nat /\ IsFiniteSet(Units(f))
  BY TotalType
<1>3. CASE c = 0
  <2>1. h = [x \in D |-> 0]
    BY <1>1, <1>3
  <2>. QED  BY <1>2, <1>3, <2>1, TotalZero
<1>4. CASE c # 0
  <2>. HIDE DEF h
  <2>0. c \in Nat \ {0}
    BY <1>4
  <2>1. /\ \A u : u \in Units(f) <=> u \in D \X Nat /\ u[2] \in 1..f[u[1]]
        /\ \A u : u \in Units(h) <=> u \in D \X Nat /\ u[2] \in 1..h[u[1]]
    BY <1>1, UnitsMember
  <2>2. ASSUME NEW w \in Units(f) \X (1..c)
        PROVE  /\ w[1][1] \in D /\ w[1][2] \in Nat \ {0} /\ w[2] \in Nat \ {0}
               /\ w[1][2] <= f[w[1][1]] /\ w[2] <= c
               /\ w[1] = <<w[1][1], w[1][2]>> /\ w = <<w[1], w[2]>>
    <3>1. w[1] \in Units(f) /\ w[2] \in 1..c /\ w = <<w[1], w[2]>>
      OBVIOUS
    <3>2. w[1] \in D \X Nat /\ w[1][2] \in 1..f[w[1][1]]
      BY <2>1, <3>1
    <3>3. f[w[1][1]] \in Nat
      BY <3>2
    <3>. QED  BY <3>1, <3>2, <3>3
  <2>3. ASSUME NEW w \in Units(f) \X (1..c)
        PROVE  F[w] \in Units(h)
    <3>1. PICK x \in D, i \in Nat \ {0}, j \in Nat \ {0} :
              /\ x = w[1][1] /\ i = w[1][2] /\ j = w[2] /\ i <= f[x] /\ j <= c
      BY <2>2
    <3>2. f[x] \in Nat /\ h[x] = c * f[x]
      BY <1>1
    <3>3. c * (i - 1) \in Nat /\ c * i = c * (i - 1) + c
      OBVIOUS
    <3>4. c * i <= c * f[x]
      BY <3>1, <3>2
    <3>5. c * (i - 1) + j \in Nat /\ c * (i - 1) + j \in 1..h[x]
      BY <3>1, <3>2, <3>3, <3>4
    <3>6. <<x, c * (i - 1) + j>> \in Units(h)
      BY <2>1, <3>5
    <3>. QED  BY <3>1, <3>6
  <2>4. ASSUME NEW v \in Units(f) \X (1..c), NEW w \in Units(f) \X (1..c), F[v] = F[w]
        PROVE  v = w
    <3>1. PICK x \in D, i \in Nat \ {0}, j \in Nat \ {0} :
              v = <<<<x, i>>, j>> /\ j <= c
      BY <2>2
    <3>2. PICK y \in D, k \in Nat \ {0}, l \in Nat \ {0} :
              w = <<<<y, k>>, l>> /\ l <= c
      BY <2>2
    <3>3. x = y /\ c * (i - 1) + j = c * (k - 1) + l
      BY <2>4, <3>1, <3>2
    <3>4. ~(i < k) /\ ~(k < i)
      <4>1. \A m, n \in Nat \ {0} : m < n => c * (m - 1) + c <= c * (n - 1)
        <5>1. TAKE m, n \in Nat \ {0}
        <5>2. m < n => c * m <= c * (n - 1)
          OBVIOUS
        <5>3. c * m = c * (m - 1) + c
          OBVIOUS
        <5>. QED  BY <5>2, <5>3
      <4>2. c * (i - 1) \in Int /\ c * (k - 1) \in Int
        OBVIOUS
      <4>. QED  BY <3>1, <3>2, <3>3, <4>1, <4>2
    <3>5. i = k
      BY <3>4
    <3>6. c * (i - 1) \in Int
      OBVIOUS
    <3>7. j = l
      BY <3>3, <3>5, <3>6
    <3>. QED  BY <3>1, <3>2, <3>3, <3>5, <3>7
  <2>5. ASSUME NEW z \in Units(h)
        PROVE  \E w \in Units(f) \X (1..c) : F[w] = z
    <3>1. PICK x \in D, k \in Nat : z = <<x, k>> /\ k \in 1..h[x]
      BY <2>1
    <3>2. f[x] \in Nat /\ h[x] = c * f[x] /\ k - 1 \in Nat
      BY <1>1, <3>1
    <3>3. PICK q \in Nat : q = (k - 1) \div c /\ c * q <= k - 1 /\ k - 1 < c * q + c
      BY <2>0, <3>2, DivBounds
    <3>. DEFINE j == k - c * q
                w == <<<<x, q + 1>>, j>>
    <3>4. c * q \in Nat /\ j \in 1..c /\ c * ((q + 1) - 1) + j = k
      BY <3>2, <3>3
    <3>5. q + 1 <= f[x]
      <4>1. c * q < c * f[x]
        <5>1. k <= c * f[x]
          BY <3>1, <3>2
        <5>2. c * f[x] \in Nat
          BY <3>2
        <5>. QED  BY <3>2, <3>3, <3>4, <5>1, <5>2
      <4>2. q < f[x]
        BY <2>0, <3>2, <4>1
      <4>. QED  BY <3>2, <4>2
    <3>6. <<x, q + 1>> \in Units(f)
      BY <2>1, <3>2, <3>5
    <3>7. w \in Units(f) \X (1..c)
      BY <3>4, <3>6
    <3>8. F[w] = <<x, c * ((q + 1) - 1) + j>>
      BY <3>7
    <3>. QED  BY <3>1, <3>4, <3>7, <3>8
  <2>6. F \in [Units(f) \X (1..c) -> Units(h)]
    BY <2>3
  <2>7. F \in Bijection(Units(f) \X (1..c), Units(h))
    BY <2>4, <2>5, <2>6 DEF Bijection, Injection, Surjection, IsInjective
  <2>8. IsFiniteSet(1..c) /\ Cardinality(1..c) = c
    BY FS_Interval
  <2>9. /\ IsFiniteSet(Units(f) \X (1..c))
        /\ Cardinality(Units(f) \X (1..c)) = Cardinality(Units(f)) * Cardinality(1..c)
    BY <1>2, <2>8, FS_Product
  <2>10. Cardinality(Units(h)) = Cardinality(Units(f) \X (1..c))
    BY <2>7, <2>9, FS_Bijection DEF ExistsBijection
  <2>11. Cardinality(Units(h)) = Cardinality(Units(f)) * c
    BY <2>8, <2>9, <2>10
  <2>12. Total(h) = c * Total(f)
    BY <1>2, <2>11 DEF Total
  <2>. QED  BY <2>12 DEF h
<1>. QED  BY <1>3, <1>4

-----------------------------------------------------------------------------
(* The token. *)

(* A credit adds to one balance and touches no allowance.                  *)
LEMMA ReceiveOutcome ==
    ASSUME NEW t \in Storage, NEW a \in Address, NEW n \in Nat,
           NEW u \in receive_balance(t, a, n)
    PROVE  /\ u \in Storage
           /\ u.allow = t.allow
           /\ u.bal = [t.bal EXCEPT ![a] = @ + n]
           /\ Total(u.bal) = Total(t.bal) + n
<1>1. /\ t.bal[a] + n <= MaxI128
      /\ u = [t EXCEPT !.bal[a] = @ + n]
  BY DEF receive_balance, Outcome, Panic
<1>2. t.bal \in [Address -> Nat] /\ t.bal[a] \in Nat
  BY WidthAssumption DEF Storage, Held
<1>3. u.allow = t.allow /\ u.bal = [t.bal EXCEPT ![a] = @ + n]
  BY <1>1 DEF Storage
<1>4. t.bal[a] + n \in Held
  BY <1>1, <1>2, WidthAssumption DEF Held
<1>5. u \in Storage
  BY <1>1, <1>4 DEF Storage
<1>6. Total([t.bal EXCEPT ![a] = t.bal[a] + n]) = Total(t.bal) - t.bal[a] + (t.bal[a] + n)
  BY <1>2, AddressAssumption, TotalUpdate
<1>7. Total(t.bal) \in Nat
  BY <1>2, AddressAssumption, TotalType
<1>. QED  BY <1>2, <1>3, <1>5, <1>6, <1>7

(* A debit takes from one balance, never more than it has.                 *)
LEMMA SpendOutcome ==
    ASSUME NEW t \in Storage, NEW a \in Address, NEW n \in Nat,
           NEW u \in spend_balance(t, a, n)
    PROVE  /\ u \in Storage
           /\ u.allow = t.allow
           /\ n <= t.bal[a]
           /\ u.bal = [t.bal EXCEPT ![a] = @ - n]
           /\ Total(u.bal) = Total(t.bal) - n
<1>1. /\ t.bal[a] >= n
      /\ u = [t EXCEPT !.bal[a] = @ - n]
  BY DEF spend_balance, Outcome, Panic
<1>2. t.bal \in [Address -> Nat] /\ t.bal[a] \in Nat /\ t.bal[a] <= MaxI128
  BY WidthAssumption DEF Storage, Held
<1>3. u.allow = t.allow /\ u.bal = [t.bal EXCEPT ![a] = @ - n]
  BY <1>1 DEF Storage
<1>4. t.bal[a] - n \in Held /\ t.bal[a] - n \in Nat
  BY <1>1, <1>2, WidthAssumption DEF Held
<1>5. u \in Storage
  BY <1>1, <1>4 DEF Storage
<1>6. Total([t.bal EXCEPT ![a] = t.bal[a] - n]) = Total(t.bal) - t.bal[a] + (t.bal[a] - n)
  BY <1>2, <1>4, AddressAssumption, TotalUpdate
<1>7. Total(t.bal) \in Nat
  BY <1>2, AddressAssumption, TotalType
<1>. QED  BY <1>1, <1>2, <1>3, <1>5, <1>6, <1>7

(* A transfer conserves the total, touches no allowance, and moves no more *)
(* than the payer has.                                                     *)
LEMMA TransferOutcome ==
    ASSUME NEW t \in Storage, NEW from \in Address, NEW to \in Address, NEW n \in Int,
           NEW v \in transfer(t, from, to, n)
    PROVE  /\ n \in Nat
           /\ v \in Storage
           /\ v.allow = t.allow
           /\ n <= t.bal[from]
           /\ Total(v.bal) = Total(t.bal)
<1>1. n \in Nat
  BY DEF transfer, check_nonnegative_amount, Panic
<1>2. PICK u \in spend_balance(t, from, n) : v \in receive_balance(u, to, n)
  BY <1>1 DEF transfer, check_nonnegative_amount, Panic
<1>3. /\ u \in Storage
      /\ u.allow = t.allow
      /\ n <= t.bal[from]
      /\ u.bal = [t.bal EXCEPT ![from] = @ - n]
      /\ Total(u.bal) = Total(t.bal) - n
  BY <1>1, <1>2, SpendOutcome
<1>4. /\ v \in Storage
      /\ v.allow = u.allow
      /\ v.bal = [u.bal EXCEPT ![to] = @ + n]
      /\ Total(v.bal) = Total(u.bal) + n
  BY <1>1, <1>2, <1>3, ReceiveOutcome
<1>5. t.bal \in [Address -> Nat]
  BY WidthAssumption DEF Storage, Held
<1>6. Total(t.bal) \in Nat
  BY <1>5, AddressAssumption, TotalType
<1>. QED  BY <1>1, <1>3, <1>4, <1>6

(* A transfer changes the balances of its two parties alone; to oneself it *)
(* is the identity.                                                        *)
LEMMA TransferBalances ==
    ASSUME NEW t \in Storage, NEW from \in Address, NEW to \in Address, NEW n \in Int,
           NEW v \in transfer(t, from, to, n)
    PROVE  /\ from = to => v.bal = t.bal
           /\ from # to => v.bal = [t.bal EXCEPT ![from] = @ - n, ![to] = @ + n]
<1>1. n \in Nat
  BY DEF transfer, check_nonnegative_amount, Panic
<1>2. PICK u \in spend_balance(t, from, n) : v \in receive_balance(u, to, n)
  BY <1>1 DEF transfer, check_nonnegative_amount, Panic
<1>3. /\ u \in Storage
      /\ u.allow = t.allow
      /\ n <= t.bal[from]
      /\ u.bal = [t.bal EXCEPT ![from] = @ - n]
      /\ Total(u.bal) = Total(t.bal) - n
  BY <1>1, <1>2, SpendOutcome
<1>4. /\ v \in Storage
      /\ v.allow = u.allow
      /\ v.bal = [u.bal EXCEPT ![to] = @ + n]
      /\ Total(v.bal) = Total(u.bal) + n
  BY <1>1, <1>2, <1>3, ReceiveOutcome
<1>5. t.bal \in [Address -> Nat]
  BY WidthAssumption DEF Storage, Held
<1>. QED  BY <1>1, <1>3, <1>4, <1>5

(* Writing an allowance changes that entry alone, refuses a live amount    *)
(* with a past deadline, and makes the entry outlive the deadline.         *)
LEMMA WriteAllowanceOutcome ==
    ASSUME NEW t \in Storage, Lasting(t), NEW seq \in Nat \ {0}, NEW p \in Pair,
           NEW n \in Held, NEW x \in Nat,
           NEW u \in write_allowance(t, seq, p, n, x)
    PROVE  /\ u \in Storage
           /\ Lasting(u)
           /\ u.bal = t.bal
           /\ n > 0 => x >= seq
           /\ u.allow[p].amount = n
           /\ u.allow[p].expiration = x
           /\ \A q \in Pair : q # p => u.allow[q] = t.allow[q]
<1>. DEFINE e == [amount |-> n, expiration |-> x, liveUntil |-> LiveUntil(t, seq, p, n, x)]
<1>1. /\ n > 0 => x \in seq .. (seq + MaxEntryTtl - 1)
      /\ u = [t EXCEPT !.allow[p] = e]
  BY DEF write_allowance, Outcome, Panic
<1>2. t.allow \in [Pair -> Entry] /\ t.allow[p].liveUntil \in Nat
  BY DEF Storage, Entry
<1>3. /\ LiveUntil(t, seq, p, n, x) \in Nat
      /\ n > 0 => LiveUntil(t, seq, p, n, x) >= x
  BY <1>2, TtlAssumption, WidthAssumption DEF LiveUntil, Held
<1>4. e \in Entry
  BY <1>3 DEF Entry
<1>5. u.bal = t.bal /\ u.allow = [t.allow EXCEPT ![p] = e]
  BY <1>1 DEF Storage
<1>6. u \in Storage
  BY <1>1, <1>4 DEF Storage
<1>7. u.allow[p] = e /\ \A q \in Pair : q # p => u.allow[q] = t.allow[q]
  BY <1>2, <1>5
<1>8. Lasting(u)
  BY <1>3, <1>7 DEF Lasting
<1>9. n > 0 => x >= seq
  BY <1>1, TtlAssumption
<1>. QED  BY <1>5, <1>6, <1>7, <1>8, <1>9

(* Spending an allowance draws the amount from that entry alone, and only  *)
(* what the entry still carries at a ledger up to its deadline; spending   *)
(* nothing changes nothing.                                                *)
LEMMA SpendAllowanceOutcome ==
    ASSUME NEW t \in Storage, Lasting(t), NEW seq \in Nat \ {0}, NEW p \in Pair,
           NEW n \in Nat,
           NEW u \in spend_allowance(t, seq, p, n)
    PROVE  /\ u \in Storage
           /\ Lasting(u)
           /\ u.bal = t.bal
           /\ n = 0 => u = t
           /\ n > 0 => /\ t.allow[p].expiration >= seq
                       /\ n <= t.allow[p].amount
                       /\ u.allow[p].amount = t.allow[p].amount - n
                       /\ u.allow[p].expiration = t.allow[p].expiration
                       /\ \A q \in Pair : q # p => u.allow[q] = t.allow[q]
<1>. DEFINE r == read_allowance(t, seq, p)
<1>1. t.allow[p] \in Entry
  BY DEF Storage
<1>2. CASE n = 0
  <2>1. u = t
    BY <1>2 DEF spend_allowance, Panic
  <2>. QED  BY <2>1, <1>2
<1>3. CASE n > 0
  <2>1. r.amount >= n /\ u \in write_allowance(t, seq, p, r.amount - n, r.expiration)
    <3>1. r.amount \in Int
      BY <1>1, WidthAssumption DEF read_allowance, Entry, Held
    <3>. QED  BY <1>3, <3>1 DEF spend_allowance, Panic
  <2>2. /\ t.allow[p].liveUntil >= seq
        /\ t.allow[p].expiration >= seq
        /\ r.amount = t.allow[p].amount
        /\ r.expiration = t.allow[p].expiration
    BY <1>1, <1>3, <2>1 DEF read_allowance, Entry
  <2>3. r.amount - n \in Held /\ r.expiration \in Nat
    BY <1>1, <1>3, <2>1, <2>2, WidthAssumption DEF Entry, Held
  <2>4. /\ u \in Storage
        /\ Lasting(u)
        /\ u.bal = t.bal
        /\ u.allow[p].amount = r.amount - n
        /\ u.allow[p].expiration = r.expiration
        /\ \A q \in Pair : q # p => u.allow[q] = t.allow[q]
    BY <2>1, <2>3, WriteAllowanceOutcome
  <2>. QED  BY <1>3, <2>1, <2>2, <2>4
<1>. QED  BY <1>2, <1>3

(* A transfer_from is a spend of the allowance and then a transfer.        *)
LEMMA TransferFromOutcome ==
    ASSUME NEW t \in Storage, Lasting(t), NEW seq \in Nat \ {0},
           NEW spender \in Address, NEW from \in Address, NEW to \in Address, NEW n \in Int,
           NEW v \in transfer_from(t, seq, spender, from, to, n)
    PROVE  /\ n \in Nat
           /\ v \in Storage
           /\ Lasting(v)
           /\ \E u \in spend_allowance(t, seq, <<from, spender>>, n) :
                  u \in Storage /\ u.bal = t.bal /\ v.allow = u.allow /\ v \in transfer(u, from, to, n)
<1>1. n \in Nat
  BY DEF transfer_from, check_nonnegative_amount, Panic
<1>2. PICK u \in spend_allowance(t, seq, <<from, spender>>, n) : v \in transfer(u, from, to, n)
  BY <1>1 DEF transfer_from, check_nonnegative_amount, Panic
<1>3. <<from, spender>> \in Pair
  BY DEF Pair
<1>4. u \in Storage /\ Lasting(u) /\ u.bal = t.bal
  BY <1>1, <1>2, <1>3, SpendAllowanceOutcome
<1>5. v \in Storage /\ v.allow = u.allow
  BY <1>2, <1>4, TransferOutcome
<1>6. Lasting(v)
  BY <1>4, <1>5 DEF Lasting
<1>. QED  BY <1>1, <1>2, <1>4, <1>5, <1>6

(* A burn_from is a spend of the allowance and then a debit.               *)
LEMMA BurnFromOutcome ==
    ASSUME NEW t \in Storage, Lasting(t), NEW seq \in Nat \ {0},
           NEW spender \in Address, NEW from \in Address, NEW n \in Int,
           NEW v \in burn_from(t, seq, spender, from, n)
    PROVE  /\ n \in Nat
           /\ v \in Storage
           /\ Lasting(v)
           /\ \E u \in spend_allowance(t, seq, <<from, spender>>, n) :
                  u \in Storage /\ u.bal = t.bal /\ v.allow = u.allow /\ v \in spend_balance(u, from, n)
<1>1. n \in Nat
  BY DEF burn_from, check_nonnegative_amount, Panic
<1>2. PICK u \in spend_allowance(t, seq, <<from, spender>>, n) : v \in spend_balance(u, from, n)
  BY <1>1 DEF burn_from, check_nonnegative_amount, Panic
<1>3. <<from, spender>> \in Pair
  BY DEF Pair
<1>4. u \in Storage /\ Lasting(u) /\ u.bal = t.bal
  BY <1>1, <1>2, <1>3, SpendAllowanceOutcome
<1>5. /\ v \in Storage
      /\ v.allow = u.allow
      /\ n <= u.bal[from]
      /\ v.bal = [u.bal EXCEPT ![from] = @ - n]
      /\ Total(v.bal) = Total(u.bal) - n
  BY <1>1, <1>2, <1>4, SpendOutcome
<1>6. Lasting(v)
  BY <1>4, <1>5 DEF Lasting
<1>. QED  BY <1>1, <1>2, <1>4, <1>5, <1>6

(* A transfer that the payer can afford goes through: with the whole supply*)
(* within i128, so is what any receiver ends up with.                      *)
LEMMA AffordableGoesThrough ==
    ASSUME NEW t \in Storage, NEW from \in Address, NEW to \in Address, NEW n \in Nat,
           n <= t.bal[from], Total(t.bal) <= MaxI128
    PROVE  transfer(t, from, to, n) # Panic
<1>1. PICK u : u = [t EXCEPT !.bal[from] = @ - n]
  OBVIOUS
<1>2. t.bal \in [Address -> Held] /\ t.bal[from] \in Nat
  BY WidthAssumption DEF Storage, Held
<1>3. u \in spend_balance(t, from, n)
  BY <1>1, <1>2 DEF spend_balance, Outcome
<1>4. /\ u \in Storage
      /\ u.allow = t.allow
      /\ n <= t.bal[from]
      /\ u.bal = [t.bal EXCEPT ![from] = @ - n]
      /\ Total(u.bal) = Total(t.bal) - n
  BY <1>3, SpendOutcome
<1>5. u.bal \in [Address -> Nat] /\ t.bal \in [Address -> Nat]
  BY <1>2, <1>4, WidthAssumption DEF Storage, Held
<1>6. Total(t.bal) \in Nat
  BY <1>5, AddressAssumption, TotalType
<1>7. u.bal[to] <= Total(u.bal)
  BY <1>5, AddressAssumption, TotalAtLeast
<1>8. u.bal[to] + n <= MaxI128
  BY <1>4, <1>5, <1>6, <1>7, WidthAssumption
<1>9. receive_balance(u, to, n) # {}
  BY <1>8 DEF receive_balance, Outcome
<1>10. transfer(t, from, to, n) = UNION {receive_balance(w, to, n) : w \in spend_balance(t, from, n)}
  BY DEF transfer, check_nonnegative_amount
<1>. QED  BY <1>3, <1>9, <1>10 DEF Panic

=============================================================================
