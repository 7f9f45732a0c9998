--------------------------- MODULE PoolAndSwapProofs ---------------------------
(***************************************************************************)
(* The staking pool never promises more than it holds, and the swap never  *)
(* pulls more than was offered, for every set of parties and every         *)
(* sequence of calls.  The two contracts share nothing but the token; only *)
(* their proofs are side by side: the pool's first, then the swap's.       *)
(***************************************************************************)
EXTENDS Staking, AtomicSwap, Sep41Proofs

-----------------------------------------------------------------------------
(* The accrual at a time t, as it would be computed without a width.       *)

Applicable(s, t) == IF t < s.finish THEN t ELSE s.finish

Released(s, t) == (Applicable(s, t) - s.last) * s.rate * PRECISION

Rpt(s, t) == IF s.total = 0 THEN s.rpt ELSE s.rpt + (Released(s, t) \div s.total)

Due(s, u, t) == s.rewards[u] + ((s.balances[u] * (Rpt(s, t) - s.paid[u])) \div PRECISION)

Advanced(s, t) == [s EXCEPT !.rpt = Rpt(s, t), !.last = Applicable(s, t)]

(* What the stakes have already been credited with, times the precision.   *)
Credited(s) == [u \in User |-> s.balances[u] * s.paid[u]]

(* Everything the pool owes, times the precision: the stakes, the rewards  *)
(* checkpointed, those accrued since each checkpoint, and the rest of the  *)
(* period from the last update on.  Nothing here depends on the time.      *)
Owing(s) ==
    PRECISION * (s.total + Total(s.rewards) + s.rate * (s.finish - s.last))
        + (s.rpt * s.total - Total(Credited(s)))

(* A pool's record whose holdings w cover what it owes.                    *)
Covered(s, w, t) ==
    /\ s \in PoolState
    /\ s.total = Total(s.balances)
    /\ \A u \in User : s.paid[u] <= s.rpt
    /\ s.last <= t
    /\ s.rate > 0 => s.last <= s.finish
    /\ Owing(s) <= PRECISION * w

LEMMA PoolStateFields ==
    ASSUME NEW s \in PoolState
    PROVE  /\ s.rate \in Nat /\ s.finish \in Nat /\ s.last \in Nat
           /\ s.total \in Nat /\ s.rpt \in Nat
           /\ s.balances \in [User -> Nat] /\ s.rewards \in [User -> Nat]
           /\ s.paid \in [User -> Nat]
           /\ IsFiniteSet(User)
           /\ Total(s.balances) \in Nat /\ Total(s.rewards) \in Nat
           /\ Credited(s) \in [User -> Nat] /\ Total(Credited(s)) \in Nat
<1>1. /\ s.rate \in Nat /\ s.finish \in Nat /\ s.last \in Nat
      /\ s.total \in Nat /\ s.rpt \in Nat
      /\ s.balances \in [User -> Nat] /\ s.rewards \in [User -> Nat]
      /\ s.paid \in [User -> Nat]
  BY WidthAssumption DEF PoolState, Held
<1>2. IsFiniteSet(User)
  BY AddressAssumption, FS_Subset DEF User
<1>3. Credited(s) \in [User -> Nat]
  BY <1>1 DEF Credited
<1>. QED  BY <1>1, <1>2, <1>3, TotalType

(* What the period has released since the last update is not negative, and *)
(* the accumulator spreads no more than that over the stakes.              *)
LEMMA RptOutcome ==
    ASSUME NEW w \in Nat, NEW t \in Nat, NEW s, Covered(s, w, t)
    PROVE  /\ Applicable(s, t) \in Nat /\ Applicable(s, t) <= t /\ Applicable(s, t) <= s.finish
           /\ (Applicable(s, t) - s.last) * s.rate \in Nat
           /\ Released(s, t) \in Nat
           /\ Rpt(s, t) \in Nat /\ s.rpt <= Rpt(s, t)
           /\ (Rpt(s, t) - s.rpt) * s.total <= Released(s, t)
<1>1. /\ s \in PoolState
      /\ s.rate \in Nat /\ s.finish \in Nat /\ s.last \in Nat /\ s.total \in Nat /\ s.rpt \in Nat
  BY PoolStateFields DEF Covered
<1>2. /\ Applicable(s, t) \in Nat /\ Applicable(s, t) <= t /\ Applicable(s, t) <= s.finish
      /\ s.rate > 0 => Applicable(s, t) - s.last \in Nat
  BY <1>1 DEF Applicable, Covered
<1>3. (Applicable(s, t) - s.last) * s.rate \in Nat
  <2>1. PICK e \in Int : e = Applicable(s, t) - s.last
    BY <1>1, <1>2
  <2>2. s.rate = 0 => e * s.rate = 0
    BY <2>1
  <2>3. s.rate > 0 => e * s.rate \in Nat
    BY <1>1, <1>2, <2>1
  <2>. QED  BY <1>1, <2>1, <2>2, <2>3
<1>4. Released(s, t) \in Nat
  BY <1>3, ScaleAssumption DEF Released
<1>5. CASE s.total = 0
  BY <1>1, <1>2, <1>3, <1>4, <1>5 DEF Rpt
<1>6. CASE s.total # 0
  <2>1. s.total \in Nat \ {0}
    BY <1>1, <1>6
  <2>2. PICK q \in Nat : q = Released(s, t) \div s.total /\ s.total * q <= Released(s, t)
    BY <1>4, <2>1, DivBounds
  <2>3. Rpt(s, t) = s.rpt + q
    BY <1>6, <2>2 DEF Rpt
  <2>4. Rpt(s, t) - s.rpt = q /\ Rpt(s, t) \in Nat /\ s.rpt <= Rpt(s, t)
    BY <1>1, <2>3
  <2>5. q * s.total <= Released(s, t)
    BY <1>1, <2>2
  <2>. QED  BY <1>2, <1>3, <1>4, <2>4, <2>5
<1>. QED  BY <1>5, <1>6

(* A user's share of the accumulator is not negative.                      *)
LEMMA DueOutcome ==
    ASSUME NEW w \in Nat, NEW t \in Nat, NEW s, Covered(s, w, t), NEW u \in User
    PROVE  /\ Due(s, u, t) \in Nat
           /\ s.balances[u] * (Rpt(s, t) - s.paid[u]) \in Nat
           /\ PRECISION * Due(s, u, t) + s.balances[u] * s.paid[u]
                <= PRECISION * s.rewards[u] + Rpt(s, t) * s.balances[u]
<1>1. /\ s.rpt \in Nat /\ s.balances[u] \in Nat /\ s.rewards[u] \in Nat /\ s.paid[u] \in Nat
      /\ s.paid[u] <= s.rpt
  BY PoolStateFields DEF Covered
<1>2. PICK r \in Nat : r = Rpt(s, t) /\ s.rpt <= r
  BY RptOutcome
<1>3. PICK b \in Nat, p \in Nat, n \in Nat :
          b = s.balances[u] /\ p = s.paid[u] /\ n = s.rewards[u] /\ p <= r
  BY <1>1, <1>2
<1>4. b * (r - p) \in Nat /\ b * (r - p) = r * b - b * p
  BY <1>3
<1>5. PICK q \in Nat : q = (b * (r - p)) \div PRECISION /\ PRECISION * q <= b * (r - p)
  BY <1>4, ScaleAssumption, DivBounds
<1>6. Due(s, u, t) = n + q
  BY <1>2, <1>3, <1>5 DEF Due
<1>7. PRECISION * (n + q) + b * p <= PRECISION * n + r * b
  <2>1. PRECISION * (n + q) = PRECISION * n + PRECISION * q
    BY ScaleAssumption
  <2>2. PRECISION * n \in Nat /\ PRECISION * q \in Nat /\ b * p \in Nat /\ r * b \in Nat
    BY ScaleAssumption
  <2>. QED  BY <1>4, <1>5, <2>1, <2>2
<1>. QED  BY <1>2, <1>3, <1>4, <1>6, <1>7

(* Storing the accrual never raises what the pool owes.                    *)
LEMMA OwingFalls ==
    ASSUME NEW w \in Nat, NEW t \in Nat, NEW s, Covered(s, w, t)
    PROVE  /\ Owing(Advanced(s, t)) <= Owing(s)
           /\ Owing(Advanced(s, t)) \in Int /\ Owing(s) \in Int
<1>1. /\ s \in PoolState
      /\ s.rate \in Nat /\ s.finish \in Nat /\ s.last \in Nat /\ s.total \in Nat /\ s.rpt \in Nat
      /\ Total(s.rewards) \in Nat /\ Total(Credited(s)) \in Nat
  BY PoolStateFields DEF Covered
<1>2. /\ Applicable(s, t) \in Nat /\ Rpt(s, t) \in Nat /\ s.rpt <= Rpt(s, t)
      /\ (Rpt(s, t) - s.rpt) * s.total <= Released(s, t)
  BY RptOutcome
<1>3. PICK L \in Nat, r \in Nat : L = Applicable(s, t) /\ r = Rpt(s, t)
  BY <1>2
<1>4. PICK rate \in Nat, finish \in Nat, last \in Nat, T \in Nat, R \in Nat, C \in Nat, a \in Nat :
          /\ rate = s.rate /\ finish = s.finish /\ last = s.last /\ T = s.total
          /\ R = Total(s.rewards) /\ C = Total(Credited(s)) /\ a = s.rpt
  BY <1>1
<1>5. Owing(s) = PRECISION * (T + R + rate * (finish - last)) + (a * T - C)
  BY <1>4 DEF Owing
<1>6. Owing(Advanced(s, t)) = PRECISION * (T + R + rate * (finish - L)) + (r * T - C)
  <2>1. /\ Advanced(s, t).rate = rate /\ Advanced(s, t).finish = finish
        /\ Advanced(s, t).last = L /\ Advanced(s, t).total = T /\ Advanced(s, t).rpt = r
        /\ Advanced(s, t).rewards = s.rewards
        /\ Credited(Advanced(s, t)) = Credited(s)
    BY <1>1, <1>3, <1>4 DEF Advanced, PoolState, Credited
  <2>. QED  BY <1>4, <2>1 DEF Owing
<1>7. (r - a) * T <= ((L - last) * rate) * PRECISION
  BY <1>2, <1>3, <1>4 DEF Released
<1>8. (r - a) * T = r * T - a * T /\ r * T \in Int /\ a * T \in Int
  OBVIOUS
<1>9. PICK x \in Int, y \in Int : x = rate * (finish - last) /\ y = rate * (finish - L)
  OBVIOUS
<1>10. (L - last) * rate = x - y
  BY <1>9
<1>11. (x - y) * PRECISION = PRECISION * x - PRECISION * y
       /\ PRECISION * x \in Int /\ PRECISION * y \in Int
  BY ScaleAssumption
<1>12. /\ PRECISION * (T + R + x) = PRECISION * (T + R) + PRECISION * x
       /\ PRECISION * (T + R + y) = PRECISION * (T + R) + PRECISION * y
       /\ PRECISION * (T + R) \in Int
  BY ScaleAssumption
<1>. QED  BY <1>5, <1>6, <1>7, <1>8, <1>9, <1>10, <1>11, <1>12

(* The stakes, everything due at t and the rest of the period, together.   *)
LEMMA DuesOwed ==
    ASSUME NEW w \in Nat, NEW t \in Nat, NEW s, Covered(s, w, t)
    PROVE  /\ [u \in User |-> Due(s, u, t)] \in [User -> Nat]
           /\ Total([u \in User |-> Due(s, u, t)]) \in Nat
           /\ s.total + Total([u \in User |-> Due(s, u, t)])
                 + s.rate * (s.finish - Applicable(s, t)) <= w
<1>. DEFINE d == [u \in User |-> Due(s, u, t)]
            c == Credited(s)
<1>1. /\ s \in PoolState
      /\ s.rate \in Nat /\ s.finish \in Nat /\ s.last \in Nat /\ s.total \in Nat /\ s.rpt \in Nat
      /\ s.balances \in [User -> Nat] /\ s.rewards \in [User -> Nat]
      /\ s.paid \in [User -> Nat]
      /\ IsFiniteSet(User)
      /\ c \in [User -> Nat] /\ Total(c) \in Nat
      /\ Total(s.rewards) \in Nat /\ Total(s.balances) \in Nat
      /\ s.total = Total(s.balances)
  BY PoolStateFields DEF Covered
<1>2. PICK r \in Nat : r = Rpt(s, t)
  BY RptOutcome
<1>3. d \in [User -> Nat] /\ Total(d) \in Nat
  BY <1>1, DueOutcome, TotalType
<1>. DEFINE pd == [u \in User |-> PRECISION * d[u]]
            rb == [u \in User |-> r * s.balances[u]]
            pr == [u \in User |-> PRECISION * s.rewards[u]]
            lhs == [u \in User |-> pd[u] + c[u]]
            rhs == [u \in User |-> pr[u] + rb[u]]
<1>4. /\ pd \in [User -> Nat] /\ rb \in [User -> Nat] /\ pr \in [User -> Nat]
      /\ lhs \in [User -> Nat] /\ rhs \in [User -> Nat]
  BY <1>1, <1>3, ScaleAssumption
<1>5. \A u \in User : lhs[u] <= rhs[u]
  <2>1. TAKE u \in User
  <2>2. PRECISION * Due(s, u, t) + s.balances[u] * s.paid[u]
          <= PRECISION * s.rewards[u] + Rpt(s, t) * s.balances[u]
    BY DueOutcome
  <2>. QED  BY <1>2, <2>2 DEF Credited
<1>6. /\ Total(pd) = PRECISION * Total(d)
      /\ Total(rb) = r * Total(s.balances)
      /\ Total(pr) = PRECISION * Total(s.rewards)
  BY <1>1, <1>3, ScaleAssumption, TotalScale
<1>. HIDE DEF d, c, pd, rb, pr
<1>7. Total(lhs) = Total(pd) + Total(c) /\ Total(rhs) = Total(pr) + Total(rb)
  <2>1. Total([u \in User |-> pd[u] + c[u]]) = Total(pd) + Total(c)
    BY ONLY <1>1, <1>4, TotalSum
  <2>2. Total([u \in User |-> pr[u] + rb[u]]) = Total(pr) + Total(rb)
    BY ONLY <1>1, <1>4, TotalSum
  <2>. QED  BY <2>1, <2>2
<1>8. Total(lhs) <= Total(rhs)
  BY <1>1, <1>4, <1>5, TotalMonotone
<1>9. PRECISION * Total(d) + Total(c) <= PRECISION * Total(s.rewards) + r * s.total
  BY <1>1, <1>6, <1>7, <1>8
<1>10. PICK L \in Nat : L = Applicable(s, t)
  BY RptOutcome
<1>11. Owing(Advanced(s, t))
         = PRECISION * (s.total + Total(s.rewards) + s.rate * (s.finish - L))
             + (r * s.total - Total(c))
  <2>1. /\ Advanced(s, t).rate = s.rate /\ Advanced(s, t).finish = s.finish
        /\ Advanced(s, t).last = L /\ Advanced(s, t).total = s.total /\ Advanced(s, t).rpt = r
        /\ Advanced(s, t).rewards = s.rewards
        /\ Credited(Advanced(s, t)) = Credited(s)
    BY <1>1, <1>2, <1>10 DEF Advanced, PoolState, Credited
  <2>. QED  BY <2>1 DEF Owing, c
<1>12. PICK T \in Nat, R \in Nat, C \in Nat, D \in Nat, x \in Int :
           /\ T = s.total /\ R = Total(s.rewards) /\ C = Total(c) /\ D = Total(d)
           /\ x = s.rate * (s.finish - L)
  BY <1>1, <1>3
<1>13. Owing(Advanced(s, t)) <= PRECISION * w
  BY OwingFalls, ScaleAssumption DEF Covered
<1>14. PRECISION * (T + R + x) + (r * T - C) <= PRECISION * w
  BY <1>11, <1>12, <1>13
<1>15. PRECISION * D + C <= PRECISION * R + r * T
  BY <1>9, <1>12
<1>16. /\ PRECISION * (T + R + x) = PRECISION * (T + x) + PRECISION * R
       /\ PRECISION * (T + D + x) = PRECISION * (T + x) + PRECISION * D
       /\ PRECISION * (T + x) \in Int /\ PRECISION * R \in Int /\ PRECISION * D \in Int
       /\ r * T \in Int /\ PRECISION * w \in Int
  BY ScaleAssumption
<1>17. PRECISION * (T + D + x) <= PRECISION * w
  BY <1>14, <1>15, <1>16
<1>18. T + D + x <= w
  <2>1. PICK z \in Int : z = w - (T + D + x)
    OBVIOUS
  <2>2. PRECISION * z = PRECISION * w - PRECISION * (T + D + x)
    BY <2>1, ScaleAssumption
  <2>3. PRECISION * z >= 0
    BY <1>16, <1>17, <2>2
  <2>4. z >= 0
    BY <2>3, ScaleAssumption
  <2>. QED  BY <2>1, <2>4
<1>19. s.total + Total(d) + s.rate * (s.finish - Applicable(s, t)) <= w
  BY <1>10, <1>12, <1>18
<1>. QED  BY <1>3, <1>19 DEF d

-----------------------------------------------------------------------------
(* What the code computes, when it fits.                                   *)

LEMMA RewardPerToken ==
    ASSUME NEW s, NEW r \in reward_per_token(s)
    PROVE  r = Rpt(s, now) /\ (s.total # 0 => r <= MaxI128)
BY DEF reward_per_token, Rpt, Released, Fits, last_time_applicable, Applicable

LEMMA Accrued ==
    ASSUME NEW s, NEW u, NEW n \in accrued(s, u)
    PROVE  n = Due(s, u, now) /\ n <= MaxI128 /\ reward_per_token(s) # {}
<1>1. PICK scaled \in Fits({s.balances[u] * (r - s.paid[u]) : r \in reward_per_token(s)}) :
          n = s.rewards[u] + (scaled \div PRECISION) /\ n <= MaxI128
  BY DEF accrued, Fits
<1>2. PICK r \in reward_per_token(s) : scaled = s.balances[u] * (r - s.paid[u])
  BY DEF Fits
<1>3. r = Rpt(s, now)
  BY RewardPerToken
<1>. QED  BY <1>1, <1>2, <1>3 DEF Due

(* Once stored, the accrual has nothing more to add at the same time.      *)
LEMMA AdvancedRests ==
    ASSUME NEW w \in Nat, NEW t \in Nat, NEW s, Covered(s, w, t), NEW v,
           v.rpt = Rpt(s, t), v.last = Applicable(s, t), v.finish = s.finish,
           v.rate = s.rate, v.total = s.total
    PROVE  Rpt(v, t) = Rpt(s, t) /\ Applicable(v, t) = Applicable(s, t)
<1>1. /\ Applicable(s, t) \in Nat /\ Rpt(s, t) \in Nat
      /\ s.rate \in Nat /\ s.finish \in Nat /\ s.total \in Nat
  BY RptOutcome, PoolStateFields DEF Covered
<1>2. Applicable(v, t) = Applicable(s, t)
  BY DEF Applicable
<1>3. Released(v, t) = 0
  <2>1. Applicable(v, t) - v.last = 0
    BY <1>1, <1>2
  <2>. QED  BY <1>1, <2>1, ScaleAssumption DEF Released
<1>4. s.total # 0 => 0 \div s.total = 0
  BY <1>1
<1>. QED  BY <1>1, <1>2, <1>3, <1>4 DEF Rpt

(* An update stores the accrual and credits the user with all that is due  *)
(* to it; what the pool holds still covers what it owes.                   *)
LEMMA UpdateOutcome ==
    ASSUME now \in Nat, NEW w \in Nat, NEW s, Covered(s, w, now), NEW u \in User,
           NEW v \in update_reward(s, u)
    PROVE  /\ Covered(v, w, now)
           /\ v.rpt = Rpt(s, now) /\ v.last = Applicable(s, now)
           /\ v.rate = s.rate /\ v.finish = s.finish
           /\ v.total = s.total /\ v.balances = s.balances
           /\ v.rewards = [s.rewards EXCEPT ![u] = Due(s, u, now)]
           /\ v.paid = [s.paid EXCEPT ![u] = Rpt(s, now)]
<1>. DEFINE L == Applicable(s, now)
            global(r) == [s EXCEPT !.rpt = r, !.last = last_time_applicable(s)]
<1>0. /\ s \in PoolState
      /\ s.rate \in Nat /\ s.finish \in Nat /\ s.last \in Nat /\ s.total \in Nat /\ s.rpt \in Nat
      /\ s.balances \in [User -> Nat] /\ s.rewards \in [User -> Nat]
      /\ s.paid \in [User -> Nat]
      /\ IsFiniteSet(User)
      /\ Total(s.balances) \in Nat /\ Total(s.rewards) \in Nat
      /\ Credited(s) \in [User -> Nat] /\ Total(Credited(s)) \in Nat
  BY PoolStateFields DEF Covered
<1>1. PICK r \in reward_per_token(s) :
          \E n \in accrued(global(r), u) : v = [global(r) EXCEPT !.rewards[u] = n, !.paid[u] = r]
  BY DEF update_reward
<1>2. PICK n \in accrued(global(r), u) : v = [global(r) EXCEPT !.rewards[u] = n, !.paid[u] = r]
  BY <1>1
<1>3. r = Rpt(s, now) /\ (s.total # 0 => r <= MaxI128) /\ last_time_applicable(s) = L
  BY RewardPerToken DEF last_time_applicable, Applicable
<1>4. r \in Nat /\ s.rpt <= r /\ L \in Nat /\ L <= now /\ L <= s.finish
  BY <1>3, RptOutcome
<1>5. r \in Held
  <2>1. s.total = 0 => r = s.rpt
    BY <1>3 DEF Rpt
  <2>. QED  BY <1>0, <1>3, <1>4, <2>1, WidthAssumption DEF Held, PoolState
<1>6. PICK g : g = global(r)
  OBVIOUS
<1>7. /\ g.rpt = r /\ g.last = L /\ g.rate = s.rate /\ g.finish = s.finish
      /\ g.total = s.total /\ g.balances = s.balances /\ g.rewards = s.rewards
      /\ g.paid = s.paid
      /\ g \in PoolState
  BY <1>0, <1>3, <1>4, <1>5, <1>6 DEF PoolState
<1>8. n = Due(g, u, now) /\ n <= MaxI128
  BY <1>2, <1>6, Accrued
<1>9. Rpt(g, now) = r
  BY <1>3, <1>7, AdvancedRests
<1>10. n = Due(s, u, now)
  BY <1>3, <1>7, <1>8, <1>9 DEF Due
<1>11. /\ n \in Nat
       /\ PRECISION * n + s.balances[u] * s.paid[u]
            <= PRECISION * s.rewards[u] + r * s.balances[u]
  BY <1>3, <1>10, DueOutcome
<1>12. n \in Held
  BY <1>8, <1>11, WidthAssumption DEF Held
<1>13. /\ v.rpt = r /\ v.last = L /\ v.rate = s.rate /\ v.finish = s.finish
       /\ v.total = s.total /\ v.balances = s.balances
       /\ v.rewards = [s.rewards EXCEPT ![u] = n]
       /\ v.paid = [s.paid EXCEPT ![u] = r]
       /\ v \in PoolState
  BY <1>2, <1>5, <1>6, <1>7, <1>12 DEF PoolState
<1>14. Total(v.rewards) = Total(s.rewards) - s.rewards[u] + n
  BY <1>0, <1>11, <1>13, TotalUpdate
<1>15. Total(Credited(v)) = Total(Credited(s)) - s.balances[u] * s.paid[u] + r * s.balances[u]
  <2>1. /\ Credited(v) \in [User -> Nat]
        /\ \A x \in User : x # u => Credited(v)[x] = Credited(s)[x]
        /\ Credited(v)[u] = r * s.balances[u]
        /\ Credited(s)[u] = s.balances[u] * s.paid[u]
    BY <1>0, <1>4, <1>13 DEF Credited
  <2>2. Total(Credited(v)) = Total(Credited(s)) - Credited(s)[u] + Credited(v)[u]
    BY <1>0, <2>1, TotalChange
  <2>. QED  BY <2>1, <2>2
<1>16. Owing(v) <= PRECISION * w
  <2>1. PICK T \in Nat, R \in Nat, C \in Nat, x \in Int, b \in Nat, p \in Nat, m \in Nat :
            /\ T = s.total /\ R = Total(s.rewards) /\ C = Total(Credited(s))
            /\ x = s.rate * (s.finish - L)
            /\ b = s.balances[u] /\ p = s.paid[u] /\ m = s.rewards[u]
    BY <1>0, <1>4
  <2>2. Owing(v) = PRECISION * (T + (R - m + n) + x) + (r * T - (C - b * p + r * b))
    BY <1>13, <1>14, <1>15, <2>1 DEF Owing
  <2>3. Owing(Advanced(s, now)) = PRECISION * (T + R + x) + (r * T - C)
    <3>1. /\ Advanced(s, now).rate = s.rate /\ Advanced(s, now).finish = s.finish
          /\ Advanced(s, now).last = L /\ Advanced(s, now).total = s.total
          /\ Advanced(s, now).rpt = r
          /\ Advanced(s, now).rewards = s.rewards
          /\ Credited(Advanced(s, now)) = Credited(s)
      BY <1>0, <1>3 DEF Advanced, PoolState, Credited
    <3>. QED  BY <2>1, <3>1 DEF Owing
  <2>4. Owing(Advanced(s, now)) <= PRECISION * w
    BY OwingFalls, ScaleAssumption DEF Covered
  <2>5. PRECISION * (T + (R - m + n) + x) = PRECISION * (T + R + x) - PRECISION * m + PRECISION * n
    BY <1>11, ScaleAssumption
  <2>6. PRECISION * n + b * p <= PRECISION * m + r * b
    BY <1>11, <2>1
  <2>7. /\ PRECISION * (T + R + x) \in Int /\ PRECISION * m \in Int /\ PRECISION * n \in Int
        /\ b * p \in Int /\ r * b \in Int /\ r * T \in Int /\ PRECISION * w \in Int
    BY <1>4, <1>11, ScaleAssumption
  <2>. QED  BY <2>2, <2>3, <2>4, <2>5, <2>6, <2>7
<1>17. \A x \in User : v.paid[x] <= v.rpt
  <2>1. \A x \in User : s.paid[x] <= s.rpt /\ s.paid[x] \in Nat
    BY <1>0 DEF Covered
  <2>. QED  BY <1>0, <1>4, <1>13, <2>1
<1>18. Covered(v, w, now)
  BY <1>0, <1>4, <1>13, <1>16, <1>17 DEF Covered
<1>. QED  BY <1>3, <1>10, <1>13, <1>18

-----------------------------------------------------------------------------
(* What the operations do to a record that has just been updated.          *)

LEMMA RestsAt ==
    ASSUME NEW z \in PoolState, NEW t \in Nat, Applicable(z, t) = z.last
    PROVE  Rpt(z, t) = z.rpt
<1>1. z.last \in Nat /\ z.rate \in Nat /\ z.total \in Nat /\ z.rpt \in Nat
  BY PoolStateFields
<1>2. Released(z, t) = 0
  BY <1>1, ScaleAssumption DEF Released
<1>3. z.total # 0 => 0 \div z.total = 0
  BY <1>1
<1>. QED  BY <1>1, <1>2, <1>3 DEF Rpt

(* A user whose checkpoint is current is due exactly its stored rewards.   *)
LEMMA DueAtCheckpoint ==
    ASSUME NEW z \in PoolState, NEW t \in Nat, Rpt(z, t) = z.rpt, NEW u \in User,
           z.paid[u] = z.rpt
    PROVE  Due(z, u, t) = z.rewards[u]
<1>1. z.rpt \in Nat /\ z.balances[u] \in Nat /\ z.rewards[u] \in Nat
  BY PoolStateFields
<1>2. z.balances[u] * (Rpt(z, t) - z.paid[u]) = 0
  BY <1>1
<1>3. 0 \div PRECISION = 0
  BY ScaleAssumption
<1>. QED  BY <1>1, <1>2, <1>3 DEF Due

(* The stake of a user whose checkpoint is current can change: the pool    *)
(* owes the difference and no more.                                        *)
LEMMA Rebalance ==
    ASSUME NEW t \in Nat, NEW w \in Nat, NEW s, Covered(s, w, t), NEW u \in User,
           s.paid[u] = s.rpt, NEW b \in Nat, NEW x \in Nat,
           x = w - s.balances[u] + b,
           NEW z \in PoolState, z.rate = s.rate, z.finish = s.finish, z.last = s.last,
           z.rpt = s.rpt, z.rewards = s.rewards, z.paid = s.paid,
           z.balances = [s.balances EXCEPT ![u] = b], z.total = s.total - s.balances[u] + b
    PROVE  Covered(z, x, t)
<1>1. /\ s \in PoolState
      /\ s.rate \in Nat /\ s.finish \in Nat /\ s.last \in Nat /\ s.total \in Nat /\ s.rpt \in Nat
      /\ s.balances \in [User -> Nat] /\ s.rewards \in [User -> Nat]
      /\ s.paid \in [User -> Nat]
      /\ IsFiniteSet(User)
      /\ Total(s.balances) \in Nat /\ Total(s.rewards) \in Nat
      /\ Credited(s) \in [User -> Nat] /\ Total(Credited(s)) \in Nat
      /\ s.total = Total(s.balances)
  BY PoolStateFields DEF Covered
<1>2. Total(z.balances) = z.total
  BY <1>1, TotalUpdate
<1>3. Total(Credited(z)) = Total(Credited(s)) - s.balances[u] * s.rpt + b * s.rpt
  <2>1. /\ Credited(z) \in [User -> Nat]
        /\ \A y \in User : y # u => Credited(z)[y] = Credited(s)[y]
        /\ Credited(z)[u] = b * s.rpt
        /\ Credited(s)[u] = s.balances[u] * s.rpt
    BY <1>1 DEF Credited
  <2>2. PICK f \in [User -> Nat], g \in [User -> Nat] : f = Credited(s) /\ g = Credited(z)
    BY <1>1, <2>1
  <2>3. IsFiniteSet(User) /\ \A y \in User : y # u => g[y] = f[y]
    BY <1>1, <2>1, <2>2
  <2>4. Total(g) = Total(f) - f[u] + g[u]
    BY <2>3, TotalChange
  <2>. QED  BY <2>1, <2>2, <2>4
<1>4. Owing(z) <= PRECISION * x
  <2>0. s.rate * (s.finish - s.last) \in Int /\ s.rpt * s.total \in Int
    BY <1>1
  <2>1. PICK T \in Nat, R \in Nat, C \in Nat, e \in Int, c \in Nat, r \in Nat :
            /\ T = s.total /\ R = Total(s.rewards) /\ C = Total(Credited(s))
            /\ e = s.rate * (s.finish - s.last)
            /\ c = s.balances[u] /\ r = s.rpt
    BY <1>1, <2>0
  <2>2. Owing(s) = PRECISION * (T + R + e) + (r * T - C)
    BY <2>1 DEF Owing
  <2>3. Owing(z) = PRECISION * ((T - c + b) + R + e) + (r * (T - c + b) - (C - c * r + b * r))
    BY <1>3, <2>1 DEF Owing
  <2>4. /\ PRECISION * ((T - c + b) + R + e) = PRECISION * (T + R + e) - PRECISION * c + PRECISION * b
        /\ PRECISION * x = PRECISION * w - PRECISION * c + PRECISION * b
    BY <2>1, ScaleAssumption
  <2>5. r * (T - c + b) = r * T - c * r + b * r
    OBVIOUS
  <2>6. /\ PRECISION * (T + R + e) \in Int /\ PRECISION * c \in Int /\ PRECISION * b \in Int
        /\ c * r \in Int /\ b * r \in Int /\ r * T \in Int /\ PRECISION * w \in Int
    BY ScaleAssumption
  <2>. QED  BY <2>2, <2>3, <2>4, <2>5, <2>6 DEF Covered
<1>. QED  BY <1>2, <1>4 DEF Covered

(* Rewards that are paid out are no longer owed.                           *)
LEMMA Payout ==
    ASSUME NEW t \in Nat, NEW w \in Nat, NEW s, Covered(s, w, t), NEW u \in User,
           NEW x \in Nat, x = w - s.rewards[u],
           NEW z \in PoolState, z.rate = s.rate, z.finish = s.finish, z.last = s.last,
           z.rpt = s.rpt, z.balances = s.balances, z.total = s.total, z.paid = s.paid,
           z.rewards = [s.rewards EXCEPT ![u] = 0]
    PROVE  Covered(z, x, t)
<1>1. /\ s \in PoolState
      /\ s.rate \in Nat /\ s.finish \in Nat /\ s.last \in Nat /\ s.total \in Nat /\ s.rpt \in Nat
      /\ s.rewards \in [User -> Nat]
      /\ IsFiniteSet(User)
      /\ Total(s.rewards) \in Nat /\ Total(Credited(s)) \in Nat
  BY PoolStateFields DEF Covered
<1>2. Total(z.rewards) = Total(s.rewards) - s.rewards[u] + 0
  BY <1>1, TotalUpdate
<1>3. Credited(z) = Credited(s)
  BY DEF Credited
<1>4. Owing(z) <= PRECISION * x
  <2>0. /\ s.rate * (s.finish - s.last) \in Int /\ s.rewards[u] \in Nat
        /\ s.rpt * s.total - Total(Credited(s)) \in Int
    <3>1. s.rate * (s.finish - s.last) \in Int /\ s.rpt * s.total \in Int
      BY <1>1
    <3>. QED  BY <1>1, <3>1
  <2>1. PICK T \in Nat, R \in Nat, K \in Int, e \in Int, m \in Nat :
            /\ T = s.total /\ R = Total(s.rewards) /\ K = s.rpt * s.total - Total(Credited(s))
            /\ e = s.rate * (s.finish - s.last) /\ m = s.rewards[u]
    BY <1>1, <2>0
  <2>2. Owing(s) = PRECISION * (T + R + e) + K
    BY <2>1 DEF Owing
  <2>3. Owing(z) = PRECISION * (T + (R - m) + e) + K
    BY <1>2, <1>3, <2>1 DEF Owing
  <2>4. /\ PRECISION * (T + (R - m) + e) = PRECISION * (T + R + e) - PRECISION * m
        /\ PRECISION * x = PRECISION * w - PRECISION * m
        /\ PRECISION * (T + R + e) \in Int /\ PRECISION * m \in Int /\ PRECISION * w \in Int
    BY <2>1, ScaleAssumption
  <2>. QED  BY <2>2, <2>3, <2>4 DEF Covered
<1>. QED  BY <1>4 DEF Covered

(* The rate of a new period: the rest of the running one is taken over,    *)
(* and what is divided by the duration is rounded down.                    *)
LEMMA RateOutcome ==
    ASSUME now \in Nat, NEW w \in Nat, NEW s, Covered(s, w, now),
           s.last = Applicable(s, now), NEW n \in Nat, n <= MaxI128,
           NEW rate \in RateAfter(s, n)
    PROVE  /\ rate \in Nat /\ rate <= MaxI128
           /\ s.rate * (s.finish - s.last) \in Nat
           /\ rate * Duration <= n + s.rate * (s.finish - s.last)
           /\ n + s.rate * (s.finish - s.last) < rate * Duration + Duration
<1>1. s.rate \in Nat /\ s.finish \in Nat /\ s.last \in Nat
  BY PoolStateFields DEF Covered
<1>2. /\ rate \in Nat /\ rate <= MaxI128
      /\ s.rate * (s.finish - s.last) \in Nat
      /\ rate * Duration <= n + s.rate * (s.finish - s.last)
      /\ n + s.rate * (s.finish - s.last) < rate * Duration + Duration
  <2>1. CASE now >= s.finish
    <3>1. rate = n \div Duration
      BY <1>1, <2>1 DEF RateAfter
    <3>2. rate \in Nat /\ Duration * rate <= n /\ n < Duration * rate + Duration
      BY <3>1, ScaleAssumption, DivBounds
    <3>3. s.last = s.finish
      BY <1>1, <2>1 DEF Applicable
    <3>4. s.rate * (s.finish - s.last) = 0
      BY <1>1, <3>3
    <3>5. rate <= Duration * rate /\ rate * Duration = Duration * rate
      BY <3>2, ScaleAssumption
    <3>. QED  BY <3>2, <3>4, <3>5, WidthAssumption, ScaleAssumption
  <2>2. CASE now < s.finish
    <3>1. s.last = now
      BY <2>2 DEF Applicable
    <3>2. PICK left \in Nat : left = s.rate * (s.finish - s.last)
      BY <1>1, <2>2, <3>1
    <3>3. (s.finish - now) * s.rate = left
      BY <1>1, <3>1, <3>2
    <3>4. rate \in {funds \div Duration :
                        funds \in Fits({n + leftover : leftover \in Fits({(s.finish - now) * s.rate})})}
      <4>1. ~(now >= s.finish)
        BY <1>1, <2>2
      <4>. QED  BY <4>1, Zenon DEF RateAfter
    <3>5. PICK funds \in Fits({n + leftover : leftover \in Fits({left})}) : rate = funds \div Duration
      BY <3>3, <3>4
    <3>6. funds = n + left /\ funds <= MaxI128 /\ funds \in Nat
      BY <3>2, <3>5 DEF Fits
    <3>7. rate \in Nat /\ Duration * rate <= funds /\ funds < Duration * rate + Duration
      BY <3>5, <3>6, ScaleAssumption, DivBounds
    <3>8. rate <= Duration * rate /\ rate * Duration = Duration * rate
      BY <3>7, ScaleAssumption
    <3>. QED  BY <3>2, <3>6, <3>7, <3>8, WidthAssumption, ScaleAssumption
  <2>. QED  BY <1>1, <2>1, <2>2
<1>. QED  BY <1>2

(* A new period owes what it was funded with and the rest of the last one. *)
LEMMA Refund ==
    ASSUME NEW t \in Nat, NEW w \in Nat, NEW s, Covered(s, w, t), NEW n \in Nat,
           NEW rate \in Nat, NEW left \in Nat, left = s.rate * (s.finish - s.last),
           rate * Duration <= n + left, NEW x \in Nat, x = w + n,
           NEW z \in PoolState, z.rate = rate, z.finish = t + Duration, z.last = t,
           z.rpt = s.rpt, z.balances = s.balances, z.total = s.total, z.paid = s.paid,
           z.rewards = s.rewards
    PROVE  Covered(z, x, t)
<1>1. /\ s.rate \in Nat /\ s.finish \in Nat /\ s.last \in Nat /\ s.total \in Nat /\ s.rpt \in Nat
      /\ Total(s.rewards) \in Nat /\ Total(Credited(s)) \in Nat
  BY PoolStateFields DEF Covered
<1>2. Owing(z) <= PRECISION * x
  <2>1. PICK T \in Nat, R \in Nat, K \in Int :
            T = s.total /\ R = Total(s.rewards) /\ K = s.rpt * s.total - Total(Credited(s))
    BY <1>1
  <2>2. Owing(s) = PRECISION * (T + R + left) + K
    BY <2>1 DEF Owing
  <2>3. z.rate * (z.finish - z.last) = rate * Duration
    BY ScaleAssumption
  <2>4. Owing(z) = PRECISION * (T + R + rate * Duration) + K
    BY <2>1, <2>3 DEF Owing, Credited
  <2>5. PICK e \in Nat : e = rate * Duration /\ e <= n + left
    BY ScaleAssumption
  <2>6. PRECISION * (T + R + e) <= PRECISION * (T + R + left) + PRECISION * n
    <3>1. PRECISION * (T + R + e) <= PRECISION * (T + R + left + n)
      BY <2>5, ScaleAssumption
    <3>. QED  BY <3>1, <2>5, ScaleAssumption
  <2>7. /\ PRECISION * x = PRECISION * w + PRECISION * n
        /\ PRECISION * w \in Int /\ PRECISION * n \in Int
        /\ PRECISION * (T + R + e) \in Int /\ PRECISION * (T + R + left) \in Int
    BY <2>5, ScaleAssumption
  <2>. QED  BY <2>2, <2>4, <2>5, <2>6, <2>7 DEF Covered
<1>3. \A u \in User : z.paid[u] <= z.rpt
  BY DEF Covered
<1>4. z.last <= t /\ (z.rate > 0 => z.last <= z.finish)
  BY ScaleAssumption
<1>5. z.total = Total(z.balances)
  BY DEF Covered
<1>. QED  BY <1>2, <1>3, <1>4, <1>5 DEF Covered

(* After an update of u, and a change of u's own stake and rewards only,   *)
(* everybody else is due what it was.                                      *)
LEMMA DueKept ==
    ASSUME NEW t \in Nat, NEW w \in Nat, NEW s, Covered(s, w, t), NEW u \in User,
           NEW z \in PoolState, Applicable(z, t) = z.last, z.rpt = Rpt(s, t),
           z.paid = [s.paid EXCEPT ![u] = Rpt(s, t)],
           \A x \in User : x # u => z.balances[x] = s.balances[x] /\ z.rewards[x] = s.rewards[x]
    PROVE  /\ \A x \in User : x # u => Due(z, x, t) = Due(s, x, t)
           /\ Due(z, u, t) = z.rewards[u]
<1>1. s.paid \in [User -> Nat]
  BY PoolStateFields DEF Covered
<1>2. Rpt(z, t) = z.rpt
  BY RestsAt
<1>3. z.paid[u] = z.rpt /\ \A x \in User : x # u => z.paid[x] = s.paid[x]
  BY <1>1
<1>4. \A x \in User : x # u => Due(z, x, t) = Due(s, x, t)
  BY <1>2, <1>3 DEF Due
<1>5. Due(z, u, t) = z.rewards[u]
  BY <1>2, <1>3, DueAtCheckpoint
<1>. QED  BY <1>4, <1>5

-----------------------------------------------------------------------------
(* The asset's side of a payment to the pool, and of one from it.          *)

LEMMA PaidIn ==
    ASSUME NEW t \in Storage, NEW from \in User, NEW n \in Int, NEW v \in transfer(t, from, Pool, n)
    PROVE  /\ n \in Nat /\ v \in Storage
           /\ v.bal[Pool] = t.bal[Pool] + n /\ t.bal[Pool] \in Nat
           /\ Total(v.bal) = Total(t.bal)
<1>1. from \in Address /\ from # Pool /\ Pool \in Address
  BY PoolAssumption DEF User
<1>2. /\ n \in Nat
      /\ v \in Storage
      /\ v.allow = t.allow
      /\ n <= t.bal[from]
      /\ Total(v.bal) = Total(t.bal)
  BY <1>1, TransferOutcome
<1>3. /\ from = Pool => v.bal = t.bal
      /\ from # Pool => v.bal = [t.bal EXCEPT ![from] = @ - n, ![Pool] = @ + n]
  BY <1>1, TransferBalances
<1>4. t.bal \in [Address -> Nat]
  BY WidthAssumption DEF Storage, Held
<1>. QED  BY <1>1, <1>2, <1>3, <1>4

LEMMA PaidTo ==
    ASSUME NEW t \in Storage, NEW to \in User, NEW n \in Int, NEW v \in transfer(t, Pool, to, n)
    PROVE  /\ n \in Nat /\ v \in Storage
           /\ n <= t.bal[Pool] /\ v.bal[Pool] = t.bal[Pool] - n /\ t.bal[Pool] \in Nat
           /\ v.bal[to] = t.bal[to] + n /\ t.bal[to] \in Nat
           /\ Total(v.bal) = Total(t.bal)
<1>1. to \in Address /\ to # Pool /\ Pool \in Address
  BY PoolAssumption DEF User
<1>2. /\ n \in Nat
      /\ v \in Storage
      /\ v.allow = t.allow
      /\ n <= t.bal[Pool]
      /\ Total(v.bal) = Total(t.bal)
  BY <1>1, TransferOutcome
<1>3. /\ Pool = to => v.bal = t.bal
      /\ Pool # to => v.bal = [t.bal EXCEPT ![Pool] = @ - n, ![to] = @ + n]
  BY <1>1, TransferBalances
<1>4. t.bal \in [Address -> Nat]
  BY WidthAssumption DEF Storage, Held
<1>. QED  BY <1>1, <1>2, <1>3, <1>4

-----------------------------------------------------------------------------
(* The invariant *)

IInv ==
    /\ TypeOK
    /\ Covered(pool, tok.bal[Pool], now)
    /\ Total(tok.bal) = Total(Endowment)

LEMMA IInvFacts ==
    ASSUME IInv
    PROVE  /\ tok \in Storage /\ tok.bal \in [Address -> Nat] /\ tok.bal[Pool] \in Nat
           /\ pool \in PoolState /\ now \in Nat /\ now \in 1..MaxTime
           /\ Covered(pool, tok.bal[Pool], now)
           /\ Total(tok.bal) = Total(Endowment)
BY PoolAssumption, WidthAssumption, TimeAssumption DEF IInv, TypeOK, Storage, Held

(* What is left of the period of a record s. *)
Rest(s) == IF now < s.finish THEN (s.finish - now) * s.rate ELSE 0

(* The period is as it was, and no rewards come in.                        *)
Undisturbed(z, h) ==
    /\ z.rate = pool.rate /\ z.finish = pool.finish
    /\ h - z.total <= tok.bal[Pool] - pool.total

(* The rewards that come in are spread with what was left of the period.   *)
Respread(z, h) ==
    \E n \in Nat \ {0} :
        /\ h - z.total = tok.bal[Pool] - pool.total + n
        /\ Rest(z) <= Rest(pool) + n
        /\ Rest(pool) + n < Rest(z) + Duration

(* What an operation of the pool leaves behind: its holdings still cover   *)
(* what it owes, what is due to a user is the same, or was paid, what was  *)
(* left of the period still is, and the accumulator is where it would be   *)
(* without the operation.                                                  *)
Discharged(w) ==
    /\ w.tok \in Storage
    /\ Covered(w.pool, w.tok.bal[Pool], now)
    /\ Total(w.tok.bal) = Total(tok.bal)
    /\ \A x \in User :
          \/ Due(w.pool, x, now) = Due(pool, x, now)
          \/ Due(w.pool, x, now) = 0 /\ w.tok.bal[x] >= tok.bal[x] + Due(pool, x, now)
    /\ Rpt(w.pool, now) = Rpt(pool, now)
    /\ Undisturbed(w.pool, w.tok.bal[Pool]) \/ Respread(w.pool, w.tok.bal[Pool])

LEMMA Unfold ==
    ASSUME NEW s, NEW T, NEW w \in World(s, T)
    PROVE  w.pool = s /\ w.tok \in T
BY DEF World

LEMMA FundDischarged ==
    ASSUME IInv, NEW from \in User, NEW n \in Amounts, NEW w \in fund_rewards(from, n)
    PROVE  Discharged(w)
<1>1. /\ tok \in Storage /\ tok.bal \in [Address -> Nat] /\ tok.bal[Pool] \in Nat
      /\ pool \in PoolState /\ now \in Nat /\ now \in 1..MaxTime
      /\ Covered(pool, tok.bal[Pool], now)
      /\ Total(tok.bal) = Total(Endowment)
  BY IInvFacts
<1>2. n \in Int /\ n <= MaxI128
  BY AmountsAssumption, WidthAssumption
<1>3. ~(n <= 0)
  BY Zenon DEF fund_rewards, Panic
<1>4. n \in Nat
  BY <1>2, <1>3
<1>5. w \in UNION { UNION { World([s EXCEPT !.rate = rate, !.finish = now + Duration, !.last = now],
                                 transfer(tok, from, Pool, n)) : rate \in RateAfter(s, n) } :
                   s \in update_reward(pool, from) }
  BY <1>3, Zenon DEF fund_rewards
<1>6. PICK s \in update_reward(pool, from) :
          \E rate \in RateAfter(s, n) :
              w \in World([s EXCEPT !.rate = rate, !.finish = now + Duration, !.last = now],
                          transfer(tok, from, Pool, n))
  <2>. DEFINE B(s, rate) ==
                World([s EXCEPT !.rate = rate, !.finish = now + Duration, !.last = now],
                      transfer(tok, from, Pool, n))
              A(s) == UNION {B(s, rate) : rate \in RateAfter(s, n)}
  <2>1. w \in UNION {A(s) : s \in update_reward(pool, from)}
    BY <1>5
  <2>2. ASSUME NEW s, w \in A(s)  PROVE \E rate \in RateAfter(s, n) : w \in B(s, rate)
    <3>. HIDE DEF B
    <3>. QED  BY <2>2
  <2>3. PICK s \in update_reward(pool, from) : w \in A(s)
    <3>. HIDE DEF A
    <3>. QED  BY <2>1
  <2>4. \E rate \in RateAfter(s, n) : w \in B(s, rate)
    BY ONLY <2>2, <2>3
  <2>. QED  BY <2>4
<1>7. PICK rate \in RateAfter(s, n) :
          w \in World([s EXCEPT !.rate = rate, !.finish = now + Duration, !.last = now],
                      transfer(tok, from, Pool, n))
  BY <1>6
<1>8. PICK z, t, v, h : z = w.pool /\ t = w.tok /\ v = tok.bal[Pool] /\ h = v + n
  OBVIOUS
<1>9. /\ z = [s EXCEPT !.rate = rate, !.finish = now + Duration, !.last = now]
      /\ t \in transfer(tok, from, Pool, n)
  BY <1>7, <1>8, Unfold
<1>10. /\ Covered(s, v, now)
       /\ s.rpt = Rpt(pool, now) /\ s.last = Applicable(pool, now)
       /\ s.rate = pool.rate /\ s.finish = pool.finish
       /\ s.total = pool.total /\ s.balances = pool.balances
       /\ s.rewards = [pool.rewards EXCEPT ![from] = Due(pool, from, now)]
       /\ s.paid = [pool.paid EXCEPT ![from] = Rpt(pool, now)]
  <2>1. /\ now \in Nat /\ v \in Nat /\ Covered(pool, v, now) /\ from \in User
        /\ s \in update_reward(pool, from)
    BY <1>1, <1>6, <1>8
  <2>. QED  BY ONLY <2>1, UpdateOutcome, SMTT(60)
<1>11. s.last = Applicable(s, now)
  BY <1>10 DEF Applicable
<1>12. v \in Nat /\ Covered(pool, v, now)
  BY <1>1, <1>8
<1>13. PICK left \in Nat :
           /\ left = s.rate * (s.finish - s.last)
           /\ rate \in Nat /\ rate <= MaxI128 /\ rate * Duration <= n + left
           /\ n + left < rate * Duration + Duration
  <2>1. /\ rate \in Nat /\ rate <= MaxI128
        /\ s.rate * (s.finish - s.last) \in Nat
        /\ rate * Duration <= n + s.rate * (s.finish - s.last)
        /\ n + s.rate * (s.finish - s.last) < rate * Duration + Duration
    BY <1>1, <1>2, <1>4, <1>7, <1>10, <1>11, <1>12, RateOutcome
  <2>. QED  BY <2>1
<1>14. /\ z.rate = rate /\ z.finish = now + Duration /\ z.last = now /\ z.rpt = s.rpt
       /\ z.balances = s.balances /\ z.total = s.total /\ z.paid = s.paid
       /\ z.rewards = s.rewards
       /\ z \in PoolState
  <2>1. s \in PoolState /\ rate \in Held /\ now + Duration \in Nat
    BY <1>1, <1>10, <1>13, ScaleAssumption, WidthAssumption DEF Held, Covered
  <2>. QED  BY <1>1, <1>9, <2>1 DEF PoolState
<1>15. h \in Nat /\ h = v + n
  BY <1>4, <1>8, <1>12
<1>16. Covered(z, h, now)
  BY <1>1, <1>4, <1>10, <1>12, <1>13, <1>14, <1>15, Refund
<1>17. /\ n \in Nat /\ t \in Storage
       /\ t.bal[Pool] = tok.bal[Pool] + n /\ tok.bal[Pool] \in Nat
       /\ Total(t.bal) = Total(tok.bal)
  BY <1>1, <1>2, <1>9, PaidIn
<1>18. Applicable(z, now) = z.last /\ pool.rewards \in [User -> Nat]
  BY <1>1, <1>14, ScaleAssumption, PoolStateFields DEF Applicable
<1>19. \A x \in User : x # from =>
           z.balances[x] = pool.balances[x] /\ z.rewards[x] = pool.rewards[x]
  BY <1>10, <1>14, <1>18
<1>20. /\ \A x \in User : x # from => Due(z, x, now) = Due(pool, x, now)
       /\ Due(z, from, now) = z.rewards[from]
  <2>1. /\ now \in Nat /\ v \in Nat /\ Covered(pool, v, now) /\ from \in User
        /\ z \in PoolState /\ Applicable(z, now) = z.last /\ z.rpt = Rpt(pool, now)
        /\ z.paid = [pool.paid EXCEPT ![from] = Rpt(pool, now)]
        /\ \A x \in User : x # from =>
               z.balances[x] = pool.balances[x] /\ z.rewards[x] = pool.rewards[x]
    BY <1>1, <1>10, <1>12, <1>14, <1>18, <1>19
  <2>. QED  BY ONLY <2>1, DueKept, SMTT(60)
<1>21. z.rewards[from] = Due(pool, from, now)
  BY <1>10, <1>14, <1>18
<1>22. \A x \in User : Due(z, x, now) = Due(pool, x, now)
  BY <1>20, <1>21
<1>23. Rpt(z, now) = Rpt(pool, now)
  BY <1>1, <1>10, <1>14, <1>18, RestsAt
<1>24. Respread(z, h)
  <2>1. /\ pool.rate \in Nat /\ pool.finish \in Nat /\ pool.total \in Nat
        /\ now \in Nat /\ rate \in Nat /\ left \in Nat /\ n \in Nat /\ Duration \in Nat
    BY <1>1, <1>4, <1>13, ScaleAssumption, PoolStateFields
  <2>2. Rest(pool) = left
    <3>1. left = pool.rate * (pool.finish - Applicable(pool, now))
      BY <1>10, <1>13
    <3>2. CASE now < pool.finish
      BY <2>1, <3>1, <3>2 DEF Rest, Applicable
    <3>3. CASE ~(now < pool.finish)
      BY <2>1, <3>1, <3>3 DEF Rest, Applicable
    <3>. QED  BY <3>2, <3>3
  <2>3. Rest(z) = rate * Duration
    <3>1. now < z.finish /\ z.finish - now = Duration
      BY <1>14, <2>1, ScaleAssumption
    <3>. QED  BY <1>14, <2>1, <3>1 DEF Rest
  <2>4. PICK q \in Nat : q = rate * Duration
    BY <2>1
  <2>5. n \in Nat \ {0} /\ h - z.total = tok.bal[Pool] - pool.total + n
    BY <1>3, <1>8, <1>10, <1>12, <1>14, <2>1
  <2>6. Rest(z) <= Rest(pool) + n /\ Rest(pool) + n < Rest(z) + Duration
    BY <1>13, <2>1, <2>2, <2>3, <2>4
  <2>. QED  BY <2>5, <2>6 DEF Respread
<1>. QED  BY <1>8, <1>15, <1>16, <1>17, <1>22, <1>23, <1>24 DEF Discharged

(* A deposit: the accrual is stored, then the stake changes.               *)
LEMMA StakeDischarged ==
    ASSUME IInv, NEW from \in User, NEW n \in Amounts, NEW w \in stake(from, n)
    PROVE  Discharged(w)
<1>1. /\ tok \in Storage /\ tok.bal \in [Address -> Nat] /\ tok.bal[Pool] \in Nat
      /\ pool \in PoolState /\ now \in Nat /\ now \in 1..MaxTime
      /\ Covered(pool, tok.bal[Pool], now)
      /\ Total(tok.bal) = Total(Endowment)
  BY IInvFacts
<1>2. n \in Int
  BY AmountsAssumption, WidthAssumption
<1>3. ~(n <= 0)
  BY Zenon DEF stake, Panic
<1>4. n \in Nat /\ n > 0
  BY <1>2, <1>3
<1>5. w \in UNION { World(Deposited(s, from, n), transfer(tok, from, Pool, n)) :
                     s \in {s \in update_reward(pool, from) : s.total + n <= MaxI128} }
  BY <1>3, Zenon DEF stake
<1>6. PICK s \in update_reward(pool, from) :
          /\ s.total + n <= MaxI128
          /\ w \in World(Deposited(s, from, n), transfer(tok, from, Pool, n))
  BY <1>5
<1>7. PICK z, t, v, h : z = w.pool /\ t = w.tok /\ v = tok.bal[Pool] /\ h = v + n
  OBVIOUS
<1>8. /\ z = [s EXCEPT !.balances[from] = @ + n, !.total = @ + n]
      /\ t \in transfer(tok, from, Pool, n)
  BY <1>6, <1>7, Unfold DEF Deposited
<1>9. /\ Covered(s, v, now)
      /\ s.rpt = Rpt(pool, now) /\ s.last = Applicable(pool, now)
      /\ s.rate = pool.rate /\ s.finish = pool.finish
      /\ s.total = pool.total /\ s.balances = pool.balances
      /\ s.rewards = [pool.rewards EXCEPT ![from] = Due(pool, from, now)]
      /\ s.paid = [pool.paid EXCEPT ![from] = Rpt(pool, now)]
  <2>1. now \in Nat /\ v \in Nat /\ Covered(pool, v, now) /\ from \in User
        /\ s \in update_reward(pool, from)
    BY <1>1, <1>6, <1>7
  <2>. QED  BY ONLY <2>1, UpdateOutcome, SMTT(30)
<1>10. v \in Nat /\ Covered(pool, v, now) /\ h \in Nat
  BY <1>1, <1>4, <1>7
<1>11. /\ s \in PoolState /\ s.total \in Nat /\ s.balances \in [User -> Nat]
       /\ s.balances[from] \in Nat /\ s.balances[from] <= s.total
       /\ s.paid \in [User -> Nat] /\ pool.paid \in [User -> Nat]
       /\ pool.rewards \in [User -> Nat]
  <2>1. s \in PoolState /\ s.total = Total(s.balances)
    BY <1>9 DEF Covered
  <2>2. /\ IsFiniteSet(User) /\ s.total \in Nat /\ s.balances \in [User -> Nat]
        /\ s.paid \in [User -> Nat]
    BY <2>1, PoolStateFields
  <2>3. pool.paid \in [User -> Nat] /\ pool.rewards \in [User -> Nat]
    BY <1>1, PoolStateFields
  <2>4. s.balances[from] <= Total(s.balances)
    BY <2>2, TotalAtLeast
  <2>. QED  BY <2>1, <2>2, <2>3, <2>4
<1>12. PICK b \in Nat : b = s.balances[from] + n /\ b <= MaxI128
  BY <1>4, <1>6, <1>11, WidthAssumption
<1>13. /\ z.rate = s.rate /\ z.finish = s.finish /\ z.last = s.last
       /\ z.rpt = s.rpt /\ z.rewards = s.rewards /\ z.paid = s.paid
       /\ z.balances = [s.balances EXCEPT ![from] = b]
       /\ z.total = s.total + n
       /\ z \in PoolState
  <2>1. b \in Held /\ s.total + n \in Held
    BY <1>4, <1>6, <1>11, <1>12, WidthAssumption DEF Held
  <2>. QED  BY <1>8, <1>11, <1>12, <2>1 DEF PoolState
<1>14. s.paid[from] = s.rpt
  BY <1>9, <1>11
<1>15. h = v - s.balances[from] + b /\ z.total = s.total - s.balances[from] + b
  BY <1>4, <1>7, <1>10, <1>11, <1>12, <1>13
<1>16. Covered(z, h, now)
  <2>1. /\ now \in Nat /\ v \in Nat /\ Covered(s, v, now) /\ from \in User
        /\ s.paid[from] = s.rpt /\ b \in Nat /\ h \in Nat
        /\ h = v - s.balances[from] + b
        /\ z \in PoolState /\ z.rate = s.rate /\ z.finish = s.finish /\ z.last = s.last
        /\ z.rpt = s.rpt /\ z.rewards = s.rewards /\ z.paid = s.paid
        /\ z.balances = [s.balances EXCEPT ![from] = b]
        /\ z.total = s.total - s.balances[from] + b
    BY <1>1, <1>9, <1>10, <1>12, <1>13, <1>14, <1>15
  <2>. QED  BY ONLY <2>1, Rebalance, SMTT(60)
<1>17. /\ n \in Nat /\ t \in Storage
       /\ t.bal[Pool] = tok.bal[Pool] + n /\ tok.bal[Pool] \in Nat
       /\ Total(t.bal) = Total(tok.bal)
  BY <1>1, <1>2, <1>8, PaidIn
<1>18. Applicable(z, now) = z.last
  BY <1>9, <1>13 DEF Applicable
<1>19. \A x \in User : x # from =>
           z.balances[x] = pool.balances[x] /\ z.rewards[x] = pool.rewards[x]
  BY <1>9, <1>11, <1>13
<1>20. /\ \A x \in User : x # from => Due(z, x, now) = Due(pool, x, now)
       /\ Due(z, from, now) = z.rewards[from]
  <2>1. /\ now \in Nat /\ v \in Nat /\ Covered(pool, v, now) /\ from \in User
        /\ z \in PoolState /\ Applicable(z, now) = z.last /\ z.rpt = Rpt(pool, now)
        /\ z.paid = [pool.paid EXCEPT ![from] = Rpt(pool, now)]
        /\ \A x \in User : x # from =>
               z.balances[x] = pool.balances[x] /\ z.rewards[x] = pool.rewards[x]
    BY <1>1, <1>9, <1>10, <1>13, <1>18, <1>19
  <2>. QED  BY ONLY <2>1, DueKept, SMTT(60)
<1>21. z.rewards[from] = Due(pool, from, now)
  BY <1>9, <1>11, <1>13
<1>22. \A x \in User : Due(z, x, now) = Due(pool, x, now)
  BY <1>20, <1>21
<1>23. Rpt(z, now) = Rpt(pool, now)
  BY <1>1, <1>9, <1>13, <1>18, RestsAt
<1>24. Undisturbed(z, h)
  <2>1. h - z.total = v - s.total
    BY <1>4, <1>7, <1>10, <1>11, <1>13
  <2>. QED  BY <1>7, <1>9, <1>10, <1>11, <1>13, <2>1 DEF Undisturbed
<1>. QED  BY <1>7, <1>16, <1>17, <1>22, <1>23, <1>24 DEF Discharged

(* A claim pays all that is due to the user and leaves it nothing due; its *)
(* checkpoint is current.                                                  *)
LEMMA ClaimOutcome ==
    ASSUME IInv, NEW from \in User, NEW w \in claim(from)
    PROVE  /\ Discharged(w)
           /\ w.pool \in PoolState
           /\ w.pool.last = Applicable(w.pool, now)
           /\ w.pool.rpt = Rpt(pool, now)
           /\ w.pool.paid = [pool.paid EXCEPT ![from] = Rpt(pool, now)]
           /\ w.pool.paid[from] = w.pool.rpt
           /\ w.pool.balances = pool.balances
           /\ w.pool.rewards[from] = 0
           /\ \A x \in User : x # from => w.pool.rewards[x] = pool.rewards[x]
           /\ w.tok.bal[from] = tok.bal[from] + Due(pool, from, now)
           /\ Undisturbed(w.pool, w.tok.bal[Pool])
<1>1. /\ tok \in Storage /\ tok.bal \in [Address -> Nat] /\ tok.bal[Pool] \in Nat
      /\ pool \in PoolState /\ now \in Nat /\ now \in 1..MaxTime
      /\ Covered(pool, tok.bal[Pool], now)
      /\ Total(tok.bal) = Total(Endowment)
  BY IInvFacts
<1>2. PICK s \in update_reward(pool, from) : w \in pay_pending(s, tok, from)
  BY DEF claim
<1>3. PICK z, t, v : z = w.pool /\ t = w.tok /\ v = tok.bal[Pool]
  OBVIOUS
<1>4. v \in Nat /\ Covered(pool, v, now)
  BY <1>1, <1>3
<1>5. /\ Covered(s, v, now)
      /\ s.rpt = Rpt(pool, now) /\ s.last = Applicable(pool, now)
      /\ s.rate = pool.rate /\ s.finish = pool.finish
      /\ s.total = pool.total /\ s.balances = pool.balances
      /\ s.rewards = [pool.rewards EXCEPT ![from] = Due(pool, from, now)]
      /\ s.paid = [pool.paid EXCEPT ![from] = Rpt(pool, now)]
  <2>1. now \in Nat /\ v \in Nat /\ Covered(pool, v, now) /\ from \in User
        /\ s \in update_reward(pool, from)
    BY <1>1, <1>2, <1>4
  <2>. QED  BY ONLY <2>1, UpdateOutcome, SMTT(30)
<1>6. /\ s \in PoolState
      /\ s.rewards \in [User -> Nat] /\ s.paid \in [User -> Nat]
      /\ pool.rewards \in [User -> Nat] /\ pool.paid \in [User -> Nat]
  <2>1. s \in PoolState
    BY <1>5 DEF Covered
  <2>. QED  BY <1>1, <2>1, PoolStateFields
<1>7. PICK due \in Nat : due = s.rewards[from] /\ due = Due(pool, from, now)
  BY <1>5, <1>6
<1>8. /\ z = [s EXCEPT !.rewards[from] = 0]
      /\ t \in (IF due > 0 THEN transfer(tok, Pool, from, due) ELSE {tok})
  BY <1>2, <1>3, <1>7, Unfold DEF pay_pending
<1>9. /\ z.rate = s.rate /\ z.finish = s.finish /\ z.last = s.last
      /\ z.rpt = s.rpt /\ z.balances = s.balances /\ z.total = s.total /\ z.paid = s.paid
      /\ z.rewards = [s.rewards EXCEPT ![from] = 0]
      /\ z \in PoolState
  <2>1. 0 \in Held
    BY WidthAssumption DEF Held
  <2>. QED  BY <1>6, <1>8, <2>1 DEF PoolState
<1>10. /\ t \in Storage /\ due <= v /\ t.bal[Pool] = v - due
       /\ t.bal[from] = tok.bal[from] + due
       /\ tok.bal[from] \in Nat
       /\ Total(t.bal) = Total(tok.bal)
       /\ \A x \in User : tok.bal[x] \in Nat
  <2>1. \A x \in User : tok.bal[x] \in Nat
    BY <1>1 DEF User
  <2>2. CASE due > 0
    <3>1. t \in transfer(tok, Pool, from, due) /\ due \in Int
      BY <1>8, <2>2
    <3>2. /\ due \in Nat /\ t \in Storage
          /\ due <= tok.bal[Pool] /\ t.bal[Pool] = tok.bal[Pool] - due /\ tok.bal[Pool] \in Nat
          /\ t.bal[from] = tok.bal[from] + due /\ tok.bal[from] \in Nat
          /\ Total(t.bal) = Total(tok.bal)
      BY <1>1, <3>1, PaidTo
    <3>. QED  BY <1>3, <2>1, <3>2
  <2>3. CASE ~(due > 0)
    <3>1. due = 0 /\ t = tok
      BY <1>8, <2>3
    <3>. QED  BY <1>1, <1>3, <1>4, <2>1, <3>1
  <2>. QED  BY <2>2, <2>3
<1>11. PICK h \in Nat : h = v - due
  BY <1>4, <1>10
<1>12. Covered(z, h, now)
  <2>1. /\ now \in Nat /\ v \in Nat /\ Covered(s, v, now) /\ from \in User
        /\ h \in Nat /\ h = v - s.rewards[from]
        /\ z \in PoolState /\ z.rate = s.rate /\ z.finish = s.finish /\ z.last = s.last
        /\ z.rpt = s.rpt /\ z.balances = s.balances /\ z.total = s.total /\ z.paid = s.paid
        /\ z.rewards = [s.rewards EXCEPT ![from] = 0]
    BY <1>1, <1>4, <1>5, <1>7, <1>9, <1>11
  <2>. QED  BY ONLY <2>1, Payout, SMTT(60)
<1>13. Applicable(z, now) = z.last
  BY <1>5, <1>9 DEF Applicable
<1>14. /\ z.rewards[from] = 0
       /\ \A x \in User : x # from =>
           z.balances[x] = pool.balances[x] /\ z.rewards[x] = pool.rewards[x]
  BY <1>5, <1>6, <1>9
<1>15. /\ \A x \in User : x # from => Due(z, x, now) = Due(pool, x, now)
       /\ Due(z, from, now) = z.rewards[from]
  <2>1. /\ now \in Nat /\ v \in Nat /\ Covered(pool, v, now) /\ from \in User
        /\ z \in PoolState /\ Applicable(z, now) = z.last /\ z.rpt = Rpt(pool, now)
        /\ z.paid = [pool.paid EXCEPT ![from] = Rpt(pool, now)]
        /\ \A x \in User : x # from =>
               z.balances[x] = pool.balances[x] /\ z.rewards[x] = pool.rewards[x]
    BY <1>1, <1>4, <1>5, <1>9, <1>13, <1>14
  <2>. QED  BY ONLY <2>1, DueKept, SMTT(60)
<1>16. \A x \in User :
          \/ Due(z, x, now) = Due(pool, x, now)
          \/ Due(z, x, now) = 0 /\ t.bal[x] >= tok.bal[x] + Due(pool, x, now)
  BY <1>7, <1>10, <1>14, <1>15
<1>17. Rpt(z, now) = Rpt(pool, now)
  BY <1>1, <1>5, <1>9, <1>13, RestsAt
<1>18. Undisturbed(z, t.bal[Pool])
  <2>1. z.total = pool.total /\ pool.total \in Nat
    BY <1>1, <1>5, <1>9, PoolStateFields
  <2>. QED  BY <1>3, <1>4, <1>5, <1>7, <1>9, <1>10, <2>1 DEF Undisturbed
<1>19. Discharged(w)
  BY <1>3, <1>10, <1>11, <1>12, <1>16, <1>17, <1>18 DEF Discharged
<1>20. z.paid[from] = z.rpt
  BY <1>5, <1>6, <1>9
<1>. QED  BY <1>3, <1>5, <1>7, <1>9, <1>10, <1>13, <1>14, <1>18, <1>19, <1>20

(* A withdrawal claims first, then takes no more than the user's stake.    *)
LEMMA UnstakeDischarged ==
    ASSUME IInv, NEW from \in User, NEW n \in Amounts, NEW w \in unstake(from, n)
    PROVE  Discharged(w)
<1>1. /\ tok \in Storage /\ tok.bal \in [Address -> Nat] /\ tok.bal[Pool] \in Nat
      /\ pool \in PoolState /\ now \in Nat /\ now \in 1..MaxTime
      /\ Covered(pool, tok.bal[Pool], now)
      /\ Total(tok.bal) = Total(Endowment)
  BY IInvFacts
<1>2. n \in Int
  BY AmountsAssumption, WidthAssumption
<1>3. ~(n <= 0)
  BY Zenon DEF unstake, Panic
<1>4. n \in Nat /\ n > 0
  BY <1>2, <1>3
<1>0. PICK c \in claim(from) :
          \E out : /\ out = Out(n, c.pool.balances[from])
                   /\ w \in World([c.pool EXCEPT !.balances[from] = @ - out, !.total = @ - out],
                                 IF out > 0 THEN transfer(c.tok, Pool, from, out) ELSE {c.tok})
  BY <1>3 DEF unstake
<1>5. PICK out :
          /\ c \in claim(from)
          /\ out = Out(n, c.pool.balances[from])
          /\ w \in World([c.pool EXCEPT !.balances[from] = @ - out, !.total = @ - out],
                         IF out > 0 THEN transfer(c.tok, Pool, from, out) ELSE {c.tok})
  BY <1>0
<1>6. PICK s, k, v, z, t : s = c.pool /\ k = c.tok /\ v = k.bal[Pool] /\ z = w.pool /\ t = w.tok
  OBVIOUS
<1>7. /\ Discharged(c)
      /\ s \in PoolState
      /\ s.last = Applicable(s, now)
      /\ s.rpt = Rpt(pool, now)
      /\ s.paid = [pool.paid EXCEPT ![from] = Rpt(pool, now)]
      /\ s.paid[from] = s.rpt
      /\ s.balances = pool.balances
      /\ s.rewards[from] = 0
      /\ \A x \in User : x # from => s.rewards[x] = pool.rewards[x]
      /\ k.bal[from] = tok.bal[from] + Due(pool, from, now)
      /\ Undisturbed(s, v)
  BY <1>6, ClaimOutcome
<1>8. /\ k \in Storage /\ v \in Nat /\ Covered(s, v, now)
      /\ Total(k.bal) = Total(tok.bal)
      /\ k.bal \in [Address -> Nat]
  BY <1>6, <1>7, PoolAssumption, WidthAssumption DEF Discharged, Storage, Held
<1>9. /\ s.total \in Nat /\ s.balances \in [User -> Nat]
      /\ s.balances[from] \in Nat /\ s.balances[from] <= s.total
      /\ s.total <= MaxI128 /\ s.balances[from] <= MaxI128
  <2>1. IsFiniteSet(User) /\ s.total \in Nat /\ s.balances \in [User -> Nat]
    BY <1>7, PoolStateFields
  <2>2. s.total = Total(s.balances)
    BY <1>8 DEF Covered
  <2>3. s.balances[from] <= Total(s.balances)
    BY <2>1, TotalAtLeast
  <2>4. s.total <= MaxI128
    BY <1>7, WidthAssumption DEF PoolState, Held
  <2>. QED  BY <2>1, <2>2, <2>3, <2>4, WidthAssumption
<1>10. out \in Nat /\ out <= s.balances[from]
  BY <1>4, <1>5, <1>6, <1>9 DEF Out
<1>11. /\ z = [s EXCEPT !.balances[from] = @ - out, !.total = @ - out]
       /\ t \in (IF out > 0 THEN transfer(k, Pool, from, out) ELSE {k})
  BY <1>5, <1>6, Unfold
<1>12. PICK b \in Nat, total \in Nat :
           /\ b = s.balances[from] - out /\ total = s.total - out
           /\ b <= MaxI128 /\ total <= MaxI128
  BY <1>9, <1>10, WidthAssumption
<1>13. /\ z.rate = s.rate /\ z.finish = s.finish /\ z.last = s.last
       /\ z.rpt = s.rpt /\ z.rewards = s.rewards /\ z.paid = s.paid
       /\ z.balances = [s.balances EXCEPT ![from] = b]
       /\ z.total = total
       /\ z \in PoolState
  <2>1. b \in Held /\ total \in Held
    BY <1>12, WidthAssumption DEF Held
  <2>. QED  BY <1>7, <1>11, <1>12, <2>1 DEF PoolState
<1>14. /\ t \in Storage /\ out <= v /\ t.bal[Pool] = v - out
       /\ k.bal[from] <= t.bal[from]
       /\ Total(t.bal) = Total(k.bal)
       /\ \A x \in User : tok.bal[x] \in Nat /\ k.bal[x] \in Nat
  <2>1. \A x \in User : tok.bal[x] \in Nat /\ k.bal[x] \in Nat
    BY <1>1, <1>8 DEF User
  <2>2. CASE out > 0
    <3>1. t \in transfer(k, Pool, from, out) /\ out \in Int
      BY <1>10, <1>11, <2>2
    <3>2. /\ out \in Nat /\ t \in Storage
          /\ out <= k.bal[Pool] /\ t.bal[Pool] = k.bal[Pool] - out /\ k.bal[Pool] \in Nat
          /\ t.bal[from] = k.bal[from] + out /\ k.bal[from] \in Nat
          /\ Total(t.bal) = Total(k.bal)
      BY <1>8, <3>1, PaidTo
    <3>. QED  BY <1>6, <2>1, <3>2
  <2>3. CASE ~(out > 0)
    <3>1. out = 0 /\ t = k
      BY <1>10, <1>11, <2>3
    <3>. QED  BY <1>6, <1>8, <2>1, <3>1
  <2>. QED  BY <2>2, <2>3
<1>15. PICK h \in Nat : h = v - out
  BY <1>8, <1>10, <1>14
<1>16. Covered(z, h, now)
  <2>1. /\ now \in Nat /\ v \in Nat /\ Covered(s, v, now) /\ from \in User
        /\ s.paid[from] = s.rpt /\ b \in Nat /\ h \in Nat
        /\ h = v - s.balances[from] + b
        /\ z \in PoolState /\ z.rate = s.rate /\ z.finish = s.finish /\ z.last = s.last
        /\ z.rpt = s.rpt /\ z.rewards = s.rewards /\ z.paid = s.paid
        /\ z.balances = [s.balances EXCEPT ![from] = b]
        /\ z.total = s.total - s.balances[from] + b
    BY <1>1, <1>7, <1>8, <1>9, <1>10, <1>12, <1>13, <1>15
  <2>. QED  BY ONLY <2>1, Rebalance, SMTT(60)
<1>17. Applicable(z, now) = z.last
  BY <1>7, <1>13 DEF Applicable
<1>18. /\ z.rewards[from] = 0
       /\ \A x \in User : x # from =>
           z.balances[x] = pool.balances[x] /\ z.rewards[x] = pool.rewards[x]
  BY <1>7, <1>9, <1>13
<1>19. /\ \A x \in User : x # from => Due(z, x, now) = Due(pool, x, now)
       /\ Due(z, from, now) = z.rewards[from]
  <2>1. PICK x \in Nat : x = tok.bal[Pool]
    BY <1>1
  <2>2. /\ now \in Nat /\ x \in Nat /\ Covered(pool, x, now) /\ from \in User
        /\ z \in PoolState /\ Applicable(z, now) = z.last /\ z.rpt = Rpt(pool, now)
        /\ z.paid = [pool.paid EXCEPT ![from] = Rpt(pool, now)]
        /\ \A y \in User : y # from =>
               z.balances[y] = pool.balances[y] /\ z.rewards[y] = pool.rewards[y]
    BY <1>1, <1>7, <1>13, <1>17, <1>18, <2>1
  <2>. QED  BY ONLY <2>2, DueKept, SMTT(60)
<1>20. \A x \in User :
          \/ Due(z, x, now) = Due(pool, x, now)
          \/ Due(z, x, now) = 0 /\ t.bal[x] >= tok.bal[x] + Due(pool, x, now)
  <2>1. Due(z, from, now) = 0 /\ t.bal[from] >= k.bal[from]
    BY <1>14, <1>18, <1>19
  <2>. QED  BY <1>7, <1>19, <2>1
<1>21. Rpt(z, now) = Rpt(pool, now)
  BY <1>1, <1>7, <1>13, <1>17, RestsAt
<1>22. Undisturbed(z, t.bal[Pool])
  <2>1. t.bal[Pool] - z.total = v - s.total
    BY <1>8, <1>9, <1>10, <1>12, <1>13, <1>14
  <2>. QED  BY <1>7, <1>13, <2>1 DEF Undisturbed
<1>. QED  BY <1>6, <1>8, <1>14, <1>15, <1>16, <1>20, <1>21, <1>22 DEF Discharged

-----------------------------------------------------------------------------
(* The passage of time *)

(* A second later the period has released one second more of its rate.     *)
LEMMA ReleasedLater ==
    ASSUME NEW w \in Nat, NEW t \in Nat, NEW s, Covered(s, w, t), NEW x \in Nat, x = t + 1
    PROVE  /\ Covered(s, w, x)
           /\ Released(s, x) = Released(s, t) + (IF t < s.finish THEN s.rate * PRECISION ELSE 0)
<1>1. /\ s.rate \in Nat /\ s.finish \in Nat /\ s.last \in Nat
  BY PoolStateFields DEF Covered
<1>2. Covered(s, w, x)
  BY <1>1 DEF Covered
<1>3. CASE t < s.finish
  <2>1. Applicable(s, x) = t + 1 /\ Applicable(s, t) = t
    BY <1>1, <1>3 DEF Applicable
  <2>2. PICK d \in Int, e \in Int, rate \in Nat :
            d = t - s.last /\ e = t + 1 - s.last /\ e = d + 1 /\ rate = s.rate
    BY <1>1
  <2>3. Applicable(s, t) - s.last = d /\ Applicable(s, x) - s.last = e
    BY <1>1, <2>1, <2>2
  <2>4. Released(s, t) = (d * rate) * PRECISION /\ Released(s, x) = (e * rate) * PRECISION
    BY ONLY <2>2, <2>3, Zenon DEF Released
  <2>5. e * rate = d * rate + rate /\ d * rate \in Int
    BY <2>2
  <2>6. PICK f \in Int : f = d * rate /\ e * rate = f + rate
    BY <2>5
  <2>7. (f + rate) * PRECISION = f * PRECISION + rate * PRECISION
    BY ScaleAssumption
  <2>. QED  BY <1>2, <1>3, <2>2, <2>4, <2>6, <2>7
<1>4. CASE ~(t < s.finish)
  <2>1. Applicable(s, x) = s.finish /\ Applicable(s, t) = s.finish
    BY <1>1, <1>4 DEF Applicable
  <2>2. Released(s, t) \in Nat
    BY RptOutcome
  <2>. QED  BY <1>2, <1>4, <2>1, <2>2 DEF Released
<1>. QED  BY <1>3, <1>4

(* So nobody is due less.                                                  *)
LEMMA DueLater ==
    ASSUME NEW w \in Nat, NEW t \in Nat, NEW s, Covered(s, w, t), NEW x \in Nat, x = t + 1,
           NEW u \in User
    PROVE  Due(s, u, t) <= Due(s, u, x)
<1>1. /\ s.total \in Nat /\ s.rpt \in Nat /\ s.balances[u] \in Nat /\ s.rewards[u] \in Nat
      /\ s.paid[u] \in Nat /\ s.rate \in Nat
  BY PoolStateFields DEF Covered
<1>2. Released(s, t) \in Nat /\ Released(s, x) \in Nat /\ Released(s, t) <= Released(s, x)
      /\ Covered(s, w, x)
  <2>1. s.rate * PRECISION \in Nat
    BY <1>1, ScaleAssumption
  <2>2. Released(s, x) = Released(s, t) + (IF t < s.finish THEN s.rate * PRECISION ELSE 0)
        /\ Covered(s, w, x)
    BY ReleasedLater
  <2>3. Released(s, t) \in Nat
    BY RptOutcome
  <2>. QED  BY <2>1, <2>2, <2>3
<1>3. PICK r \in Nat, v \in Nat : r = Rpt(s, t) /\ v = Rpt(s, x) /\ r <= v
  <2>1. Rpt(s, t) \in Nat /\ Rpt(s, x) \in Nat
    BY <1>2, RptOutcome
  <2>2. CASE s.total = 0
    BY <2>1, <2>2 DEF Rpt
  <2>3. CASE s.total # 0
    <3>1. s.total \in Nat \ {0}
      BY <1>1, <2>3
    <3>2. PICK a \in Nat, b \in Nat, T \in Nat \ {0} :
              a = Released(s, t) /\ b = Released(s, x) /\ T = s.total /\ a <= b
      BY <1>2, <3>1
    <3>3. PICK p \in Nat, q \in Nat :
              /\ p = a \div T /\ q = b \div T
              /\ T * p <= a /\ b < T * q + T
      BY DivBounds
    <3>4. p <= q
      <4>1. T * p < T * (q + 1)
        BY <3>2, <3>3
      <4>. QED  BY <4>1
    <3>5. Rpt(s, t) = s.rpt + p /\ Rpt(s, x) = s.rpt + q
      BY <2>3, <3>2, <3>3 DEF Rpt
    <3>. QED  BY <1>1, <2>1, <3>4, <3>5
  <2>. QED  BY <2>2, <2>3
<1>4. PICK b \in Nat, p \in Nat, n \in Nat : b = s.balances[u] /\ p = s.paid[u] /\ n = s.rewards[u]
  BY <1>1
<1>5. b * (r - p) \in Nat /\ b * (v - p) \in Nat
  <2>1. s.balances[u] * (Rpt(s, t) - s.paid[u]) \in Nat
    BY DueOutcome
  <2>2. s.balances[u] * (Rpt(s, x) - s.paid[u]) \in Nat
    BY <1>2, DueOutcome
  <2>. QED  BY <1>3, <1>4, <2>1, <2>2
<1>6. PICK a \in Nat, c \in Nat : a = b * (r - p) /\ c = b * (v - p)
  BY <1>5
<1>7. a <= c
  <2>1. c = a + b * (v - r) /\ b * (v - r) \in Nat
    BY <1>3, <1>6
  <2>. QED  BY <2>1
<1>8. PICK d \in Nat, e \in Nat :
          /\ d = a \div PRECISION /\ e = c \div PRECISION
          /\ PRECISION * d <= a /\ c < PRECISION * e + PRECISION
  BY ScaleAssumption, DivBounds
<1>9. d <= e
  <2>1. PRECISION * d < PRECISION * (e + 1)
    BY <1>7, <1>8, ScaleAssumption
  <2>. QED  BY <2>1, ScaleAssumption
<1>10. Due(s, u, t) = n + d /\ Due(s, u, x) = n + e
  BY <1>3, <1>4, <1>6, <1>8 DEF Due
<1>. QED  BY <1>9, <1>10

(* Two floors lie as far apart as what they divide, to less than one.      *)
LEMMA FloorsApart ==
    ASSUME NEW a \in Nat, NEW c \in Nat, NEW n \in Nat \ {0},
           NEW p, p = a \div n, NEW q, q = c \div n
    PROVE  /\ p \in Nat /\ q \in Nat
           /\ n * (q - p) - (c - a) \in (-n) .. n
<1>1. /\ p \in Nat /\ q \in Nat
      /\ n * p <= a /\ a < n * p + n
      /\ n * q <= c /\ c < n * q + n
  BY DivBounds
<1>2. n * (q - p) = n * q - n * p /\ n * q \in Nat /\ n * p \in Nat
  BY <1>1
<1>. QED  BY <1>1, <1>2

(* In a second a user is due its share of the rate more, to less than one  *)
(* unit on either side plus the precision's rounding.                      *)
LEMMA ShareOfASecond ==
    ASSUME NEW w \in Nat, NEW t \in Nat, NEW s, Covered(s, w, t), NEW x \in Nat, x = t + 1,
           NEW u \in User, s.total > 0
    PROVE  LET gain  == (Due(s, u, x) - Due(s, u, t)) * s.total * PRECISION
               share == IF t < s.finish THEN s.balances[u] * s.rate * PRECISION ELSE 0
               slack == s.total * (s.balances[u] + PRECISION)
           IN  gain - share \in (-slack) .. slack
<1>1. /\ s.total \in Nat /\ s.rpt \in Nat /\ s.balances[u] \in Nat /\ s.rewards[u] \in Nat
      /\ s.paid[u] \in Nat /\ s.rate \in Nat
  BY PoolStateFields DEF Covered
<1>2. PICK g \in Nat : g = (IF t < s.finish THEN s.rate * PRECISION ELSE 0)
  BY <1>1, ScaleAssumption
<1>3. /\ Covered(s, w, x)
      /\ Released(s, x) = Released(s, t) + g
  BY <1>2, ReleasedLater
<1>4. PICK a \in Nat, c \in Nat, T \in Nat \ {0} :
          a = Released(s, t) /\ c = Released(s, x) /\ T = s.total /\ c = a + g
  <2>1. Released(s, t) \in Nat /\ Released(s, x) \in Nat
    BY <1>3, RptOutcome
  <2>. QED  BY <1>1, <1>3, <2>1
<1>5. PICK p, q : p = a \div T /\ q = c \div T
  OBVIOUS
<1>6. PICK e \in (-T) .. T : p \in Nat /\ q \in Nat /\ T * (q - p) = g + e
  <2>1. /\ p \in Nat /\ q \in Nat
        /\ T * (q - p) - (c - a) \in (-T) .. T
    <3>1. a \in Nat /\ c \in Nat /\ T \in Nat \ {0} /\ p = a \div T /\ q = c \div T
      BY <1>4, <1>5
    <3>. QED  BY ONLY <3>1, FloorsApart
  <2>2. PICK y \in Int : y = T * (q - p)
    BY <2>1
  <2>3. y - g \in (-T) .. T
    BY <1>4, <2>1, <2>2
  <2>. QED  BY <2>1, <2>2, <2>3
<1>7. Rpt(s, t) = s.rpt + p /\ Rpt(s, x) = s.rpt + q
  BY <1>4, <1>5 DEF Rpt
<1>8. PICK b \in Nat, k \in Int, n \in Nat :
          b = s.balances[u] /\ k = s.rpt - s.paid[u] /\ n = s.rewards[u]
  BY <1>1
<1>9. PICK m \in Nat, o \in Nat :
          /\ m = b * (k + p) /\ o = b * (k + q)
          /\ m = s.balances[u] * (Rpt(s, t) - s.paid[u])
          /\ o = s.balances[u] * (Rpt(s, x) - s.paid[u])
  <2>1. s.balances[u] * (Rpt(s, t) - s.paid[u]) \in Nat
    BY DueOutcome
  <2>2. s.balances[u] * (Rpt(s, x) - s.paid[u]) \in Nat
    BY <1>3, DueOutcome
  <2>3. Rpt(s, t) - s.paid[u] = k + p /\ Rpt(s, x) - s.paid[u] = k + q
    BY <1>1, <1>6, <1>7, <1>8
  <2>. QED  BY <1>8, <2>1, <2>2, <2>3
<1>10. PICK d, f : d = m \div PRECISION /\ f = o \div PRECISION
  OBVIOUS
<1>11. PICK h \in (-PRECISION) .. PRECISION :
           d \in Nat /\ f \in Nat /\ PRECISION * (f - d) = b * (q - p) + h
  <2>1. /\ d \in Nat /\ f \in Nat
        /\ PRECISION * (f - d) - (o - m) \in (-PRECISION) .. PRECISION
    BY <1>10, ScaleAssumption, FloorsApart
  <2>2. o - m = b * (q - p)
    BY <1>6, <1>9
  <2>3. PICK y \in Int, z \in Int : y = PRECISION * (f - d) /\ z = b * (q - p)
    BY <1>6, <2>1, ScaleAssumption
  <2>4. y - z \in (-PRECISION) .. PRECISION
    BY <2>1, <2>2, <2>3
  <2>. QED  BY <2>1, <2>3, <2>4, ScaleAssumption
<1>12. Due(s, u, t) = n + d /\ Due(s, u, x) = n + f
  BY <1>8, <1>9, <1>10 DEF Due
<1>13. Due(s, u, x) - Due(s, u, t) = f - d
  BY <1>11, <1>12
<1>14. PICK P \in Nat \ {0}, j \in Int, v \in Int :
           P = PRECISION /\ j = f - d /\ v = q - p /\ h \in (-P) .. P
  BY <1>6, <1>11, ScaleAssumption
<1>15. j * T * P = b * g + b * e + T * h
  <2>1. P * j = b * v + h /\ T * v = g + e
    BY <1>6, <1>11, <1>14
  <2>2. j * T * P = T * (P * j)
    BY <1>14
  <2>3. T * (b * v + h) = b * (T * v) + T * h
    BY <1>14
  <2>4. b * (g + e) = b * g + b * e
    OBVIOUS
  <2>. QED  BY <2>1, <2>2, <2>3, <2>4
<1>16. (IF t < s.finish THEN s.balances[u] * s.rate * PRECISION ELSE 0) = b * g
  <2>1. CASE t < s.finish
    <3>1. PICK r \in Nat : r = s.rate /\ g = r * P
      BY <1>1, <1>2, <1>14, <2>1
    <3>2. b * r * P = b * (r * P)
      BY <1>14, <3>1
    <3>. QED  BY <1>8, <1>14, <2>1, <3>1, <3>2
  <2>2. CASE ~(t < s.finish)
    BY <1>2, <2>2
  <2>. QED  BY <2>1, <2>2
<1>17. b * e + T * h \in (-(T * (b + P))) .. (T * (b + P))
  <2>1. -(b * T) <= b * e /\ b * e <= b * T /\ b * e \in Int /\ b * T \in Int
    BY <1>14
  <2>2. -(T * P) <= T * h /\ T * h <= T * P /\ T * h \in Int /\ T * P \in Int
    BY <1>14
  <2>3. T * (b + P) = b * T + T * P
    BY <1>14
  <2>. QED  BY <2>1, <2>2, <2>3
<1>18. PICK gain \in Int, share \in Int, slack \in Int :
           /\ gain = (Due(s, u, x) - Due(s, u, t)) * s.total * PRECISION
           /\ share = (IF t < s.finish THEN s.balances[u] * s.rate * PRECISION ELSE 0)
           /\ slack = s.total * (s.balances[u] + PRECISION)
           /\ gain = share + (b * e + T * h) /\ slack = T * (b + P)
  <2>1. (Due(s, u, x) - Due(s, u, t)) * s.total * PRECISION = j * T * P
    BY <1>4, <1>13, <1>14
  <2>2. s.total * (s.balances[u] + PRECISION) = T * (b + P)
    BY <1>4, <1>8, <1>14
  <2>3. j * T * P \in Int /\ T * (b + P) \in Int /\ b * g \in Int /\ b * e \in Int /\ T * h \in Int
    BY <1>14
  <2>. QED  BY <1>15, <1>16, <2>1, <2>2, <2>3
<1>. QED  BY <1>17, <1>18

-----------------------------------------------------------------------------
(* The steps *)

(* What happens to what is due to a user in a step of the pool.            *)
DueSurvives(x) ==
    \/ Due(pool', x, now') = Due(pool, x, now)
    \/ Due(pool', x, now') > Due(pool, x, now) /\ now' > now
    \/ Due(pool', x, now') = 0 /\ tok'.bal[x] >= tok.bal[x] + Due(pool, x, now)

LEMMA DischargedStep ==
    ASSUME IInv, NEW W, Becomes(W), UNCHANGED now, \A w \in W : Discharged(w)
    PROVE  /\ IInv'
           /\ \A x \in User : DueSurvives(x)
           /\ Rpt(pool', now') = Rpt(pool, now)
           /\ Undisturbed(pool', tok'.bal[Pool]) \/ Respread(pool', tok'.bal[Pool])
<1>1. PICK w \in W : pool' = w.pool /\ tok' = w.tok
  BY DEF Becomes
<1>2. /\ tok' \in Storage
      /\ Covered(pool', tok'.bal[Pool], now)
      /\ Total(tok'.bal) = Total(tok.bal)
      /\ \A x \in User :
            \/ Due(pool', x, now) = Due(pool, x, now)
            \/ Due(pool', x, now) = 0 /\ tok'.bal[x] >= tok.bal[x] + Due(pool, x, now)
      /\ Rpt(pool', now) = Rpt(pool, now)
      /\ Undisturbed(pool', tok'.bal[Pool]) \/ Respread(pool', tok'.bal[Pool])
  BY <1>1 DEF Discharged
<1>3. IInv'
  BY <1>2 DEF IInv, TypeOK, Covered
<1>4. \A x \in User : DueSurvives(x)
  BY <1>2 DEF DueSurvives
<1>. QED  BY <1>2, <1>3, <1>4

LEMMA SecondStep ==
    ASSUME IInv, Second
    PROVE  /\ IInv'
           /\ \A u \in User : /\ Due(pool', u, now') >= Due(pool, u, now)
                            /\ Due(pool', u, now') \in Nat /\ Due(pool, u, now) \in Nat
<1>1. /\ tok \in Storage /\ tok.bal \in [Address -> Nat] /\ tok.bal[Pool] \in Nat
      /\ pool \in PoolState /\ now \in Nat /\ now \in 1..MaxTime
      /\ Covered(pool, tok.bal[Pool], now)
      /\ Total(tok.bal) = Total(Endowment)
  BY IInvFacts
<1>2. now < MaxTime /\ now' = now + 1 /\ tok' = tok /\ pool' = pool
  BY DEF Second
<1>3. PICK s : s = pool
  OBVIOUS
<1>4. PICK w \in Nat, t \in Nat, x \in Nat :
          w = tok.bal[Pool] /\ t = now /\ x = t + 1 /\ now' = x
  <2>1. PICK t \in Nat : t = now
    BY <1>1
  <2>2. PICK w \in Nat : w = tok.bal[Pool]
    BY <1>1
  <2>3. now' = t + 1 /\ t + 1 \in Nat
    BY <1>2, <2>1
  <2>. QED  BY <2>1, <2>2, <2>3
<1>5. Covered(s, w, t)
  BY <1>1, <1>3, <1>4
<1>6. Covered(s, w, x)
  BY <1>4, <1>5, ReleasedLater
<1>7. IInv'
  <2>1. TypeOK'
    BY <1>1, <1>2, TimeAssumption DEF TypeOK
  <2>2. Covered(pool', tok'.bal[Pool], now')
    BY <1>2, <1>3, <1>4, <1>6
  <2>. QED  BY <1>1, <1>2, <2>1, <2>2 DEF IInv
<1>8. \A u \in User : Due(s, u, t) <= Due(s, u, x)
  BY <1>4, <1>5, DueLater
<1>9. \A u \in User : Due(s, u, t) \in Nat /\ Due(s, u, x) \in Nat
  BY <1>5, <1>6, DueOutcome
<1>10. \A u \in User : /\ Due(pool', u, now') >= Due(pool, u, now)
                       /\ Due(pool', u, now') \in Nat /\ Due(pool, u, now) \in Nat
  BY <1>2, <1>3, <1>4, <1>8, <1>9
<1>. QED  BY <1>7, <1>10

LEMMA InitIInv ==
    ASSUME Init
    PROVE  IInv
<1>1. PICK zero : zero = [u \in User |-> 0]
  OBVIOUS
<1>2. /\ now = 1
      /\ tok = [EmptyStorage EXCEPT !.bal = Endowment]
      /\ pool = [rate |-> 0, finish |-> 0, last |-> now, total |-> 0, rpt |-> 0,
                 balances |-> zero, rewards |-> zero, paid |-> zero]
  BY <1>1 DEF Init
<1>3. 0 \in Held /\ zero \in [User -> Held]
  BY <1>1, WidthAssumption DEF Held
<1>4. tok \in Storage /\ tok.bal = Endowment
  <2>1. NoEntry \in Entry
    BY <1>3 DEF NoEntry, Entry
  <2>. QED  BY <1>2, <1>3, <2>1, EndowmentAssumption DEF EmptyStorage, Storage
<1>5. pool \in PoolState
  BY <1>2, <1>3 DEF PoolState
<1>6. Total(zero) = 0
  BY <1>1, TotalZero
<1>7. Credited(pool) = zero
  BY <1>1, <1>2 DEF Credited
<1>8. tok.bal[Pool] \in Nat
  BY <1>4, EndowmentAssumption, PoolAssumption, WidthAssumption DEF Held
<1>9. Owing(pool) <= PRECISION * tok.bal[Pool]
  <2>1. PICK w \in Nat : w = tok.bal[Pool]
    BY <1>8
  <2>2. Owing(pool) = PRECISION * (0 + 0 + 0 * (0 - 1)) + (0 * 0 - 0)
    BY <1>2, <1>6, <1>7 DEF Owing
  <2>3. PRECISION * w >= 0
    BY ScaleAssumption
  <2>. QED  BY <2>1, <2>2, <2>3, ScaleAssumption
<1>10. Covered(pool, tok.bal[Pool], now)
  <2>1. \A u \in User : pool.paid[u] <= pool.rpt
    BY <1>1, <1>2
  <2>. QED  BY <1>2, <1>5, <1>6, <1>9, <2>1 DEF Covered
<1>11. TypeOK
  BY <1>2, <1>4, <1>5, TimeAssumption DEF TypeOK
<1>. QED  BY <1>4, <1>10, <1>11 DEF IInv

LEMMA NextIInv ==
    ASSUME IInv, [Next]_vars
    PROVE  IInv'
<1>1. ASSUME NEW from \in User, NEW n \in Amounts, FundRewards(from, n)  PROVE IInv'
  BY <1>1, FundDischarged, DischargedStep DEF FundRewards
<1>2. ASSUME NEW from \in User, NEW n \in Amounts, Stake(from, n)  PROVE IInv'
  BY <1>2, StakeDischarged, DischargedStep DEF Stake
<1>3. ASSUME NEW from \in User, NEW n \in Amounts, Unstake(from, n)  PROVE IInv'
  BY <1>3, UnstakeDischarged, DischargedStep DEF Unstake
<1>4. ASSUME NEW from \in User, Claim(from)  PROVE IInv'
  BY <1>4, ClaimOutcome, DischargedStep DEF Claim
<1>5. CASE Second
  BY <1>5, SecondStep
<1>6. CASE UNCHANGED vars
  BY <1>6 DEF vars, IInv, TypeOK, Covered
<1>. QED  BY <1>1, <1>2, <1>3, <1>4, <1>5, <1>6 DEF Next

LEMMA Invariance == Spec => []IInv
<1>1. Init => IInv
  BY InitIInv
<1>2. IInv /\ [Next]_vars => IInv'
  BY NextIInv
<1>. QED  BY <1>1, <1>2, PTL DEF Spec

LEMMA NextDues ==
    ASSUME IInv, [Next]_vars, NEW u \in User
    PROVE  DueSurvives(u)
<1>1. ASSUME NEW from \in User, NEW n \in Amounts, FundRewards(from, n)  PROVE DueSurvives(u)
  BY <1>1, FundDischarged, DischargedStep DEF FundRewards
<1>2. ASSUME NEW from \in User, NEW n \in Amounts, Stake(from, n)  PROVE DueSurvives(u)
  BY <1>2, StakeDischarged, DischargedStep DEF Stake
<1>3. ASSUME NEW from \in User, NEW n \in Amounts, Unstake(from, n)  PROVE DueSurvives(u)
  BY <1>3, UnstakeDischarged, DischargedStep DEF Unstake
<1>4. ASSUME NEW from \in User, Claim(from)  PROVE DueSurvives(u)
  BY <1>4, ClaimOutcome, DischargedStep DEF Claim
<1>5. CASE Second
  <2>1. /\ Due(pool', u, now') >= Due(pool, u, now)
        /\ Due(pool', u, now') \in Nat /\ Due(pool, u, now) \in Nat
    BY <1>5, SecondStep
  <2>2. now' > now
    BY <1>5, IInvFacts DEF Second
  <2>3. \/ Due(pool', u, now') = Due(pool, u, now)
        \/ Due(pool', u, now') > Due(pool, u, now) /\ now' > now
    BY <2>1, <2>2
  <2>. QED  BY <2>3 DEF DueSurvives
<1>6. CASE UNCHANGED vars
  BY <1>6 DEF vars, DueSurvives
<1>. QED  BY <1>1, <1>2, <1>3, <1>4, <1>5, <1>6 DEF Next

(* What a step within the second does to what is left of the period.       *)
LEMMA NextRest ==
    ASSUME IInv, [Next]_vars, now' = now
    PROVE  LET funded == RewardFunds' - RewardFunds
               lost   == Undistributed + funded - Undistributed'
           IN  IF funded > 0 THEN lost \in 0..(Duration - 1)
               ELSE Undistributed' = Undistributed
<1>1. /\ tok.bal[Pool] \in Nat /\ now \in Nat
      /\ pool.rate \in Nat /\ pool.finish \in Nat /\ pool.total \in Nat
  BY IInvFacts, PoolStateFields
<1>2. IInv'
  BY NextIInv
<1>3. /\ tok'.bal[Pool] \in Nat
      /\ pool'.rate \in Nat /\ pool'.finish \in Nat /\ pool'.total \in Nat
  <2>1. tok' \in Storage /\ pool' \in PoolState
    BY <1>2 DEF IInv, TypeOK
  <2>. QED  BY <2>1, PoolStateFields, PoolAssumption, WidthAssumption DEF Storage, Held
<1>4. \/ Undisturbed(pool', tok'.bal[Pool]) \/ Respread(pool', tok'.bal[Pool])
  <2>1. ASSUME NEW from \in User, NEW n \in Amounts, FundRewards(from, n)
        PROVE  Undisturbed(pool', tok'.bal[Pool]) \/ Respread(pool', tok'.bal[Pool])
    BY <2>1, FundDischarged, DischargedStep DEF FundRewards
  <2>2. ASSUME NEW from \in User, NEW n \in Amounts, Stake(from, n)
        PROVE  Undisturbed(pool', tok'.bal[Pool]) \/ Respread(pool', tok'.bal[Pool])
    BY <2>2, StakeDischarged, DischargedStep DEF Stake
  <2>3. ASSUME NEW from \in User, NEW n \in Amounts, Unstake(from, n)
        PROVE  Undisturbed(pool', tok'.bal[Pool]) \/ Respread(pool', tok'.bal[Pool])
    BY <2>3, UnstakeDischarged, DischargedStep DEF Unstake
  <2>4. ASSUME NEW from \in User, Claim(from)
        PROVE  Undisturbed(pool', tok'.bal[Pool]) \/ Respread(pool', tok'.bal[Pool])
    BY <2>4, ClaimOutcome, DischargedStep DEF Claim
  <2>5. ~Second
    BY <1>1 DEF Second
  <2>6. CASE UNCHANGED vars
    BY <1>1, <2>6 DEF vars, Undisturbed
  <2>. QED  BY <2>1, <2>2, <2>3, <2>4, <2>5, <2>6 DEF Next
<1>5. Undistributed = Rest(pool) /\ Undistributed' = Rest(pool')
  BY DEF Undistributed, Rest
<1>6. RewardFunds = tok.bal[Pool] - pool.total /\ RewardFunds' = tok'.bal[Pool] - pool'.total
  BY DEF RewardFunds
<1>7. CASE Undisturbed(pool', tok'.bal[Pool])
  <2>1. RewardFunds' - RewardFunds <= 0
    BY <1>1, <1>3, <1>6, <1>7 DEF Undisturbed
  <2>2. Rest(pool') = Rest(pool)
    BY <1>7 DEF Undisturbed, Rest
  <2>. QED  BY <1>1, <1>3, <1>5, <1>6, <2>1, <2>2
<1>8. CASE Respread(pool', tok'.bal[Pool])
  <2>1. PICK n \in Nat \ {0} :
            /\ tok'.bal[Pool] - pool'.total = tok.bal[Pool] - pool.total + n
            /\ Rest(pool') <= Rest(pool) + n
            /\ Rest(pool) + n < Rest(pool') + Duration
    BY <1>8 DEF Respread
  <2>2. RewardFunds' - RewardFunds = n
    BY <1>1, <1>3, <1>6, <2>1
  <2>3. Rest(pool) \in Int /\ Rest(pool') \in Int
    BY <1>1, <1>3 DEF Rest
  <2>. QED  BY <1>5, <2>1, <2>2, <2>3, ScaleAssumption
<1>. QED  BY <1>4, <1>7, <1>8

-----------------------------------------------------------------------------
(* What the pool computes is what is due, where the computation fits.      *)

LEMMA EarnedIsDue == \A u \in User : accrued(pool, u) # {} => earned(u) = Due(pool, u, now)
<1>1. ASSUME NEW u \in User, accrued(pool, u) # {}
      PROVE  earned(u) = Due(pool, u, now)
  <2>1. PICK n : n \in accrued(pool, u)
    BY <1>1
  <2>2. earned(u) \in accrued(pool, u)
    BY <2>1 DEF earned
  <2>. QED  BY <2>2, Accrued
<1>. QED  BY <1>1

(* At every state all that is due can be computed within the width.        *)
Accrues == \A u \in User : accrued(pool, u) # {}

LEMMA EarnedAlways == Accrues => \A u \in User : earned(u) = Due(pool, u, now)
BY EarnedIsDue DEF Accrues

LEMMA EarnedNext == Accrues' => \A u \in User : earned(u)' = Due(pool', u, now')
<1>1. (Accrues => \A u \in User : earned(u) = Due(pool, u, now))'
  BY EarnedAlways, PTL
<1>. QED  BY <1>1

-----------------------------------------------------------------------------
(* The pool's record and the token's storage are well typed: no balance,   *)
(* stake or reward goes below zero or past the width (lib.rs:83-329).      *)
THEOREM PoolTyped == Spec => []TypeOK
<1>1. IInv => TypeOK
  BY DEF IInv
<1>. QED  BY <1>1, Invariance, PTL

(* What the contract promises, without regard to the width: every stake,   *)
(* what is due to every user, and the rest of the period at its rate.      *)
DuesCovered ==
    tok.bal[Pool] >= pool.total + Total([u \in User |-> Due(pool, u, now)]) + Undistributed

LEMMA CoversDues == IInv => DuesCovered
<1>. SUFFICES ASSUME IInv PROVE DuesCovered
  OBVIOUS
<1>1. /\ tok \in Storage /\ tok.bal \in [Address -> Nat] /\ tok.bal[Pool] \in Nat
      /\ pool \in PoolState /\ now \in Nat /\ now \in 1..MaxTime
      /\ Covered(pool, tok.bal[Pool], now)
      /\ Total(tok.bal) = Total(Endowment)
  BY IInvFacts
<1>2. PICK w \in Nat : w = tok.bal[Pool] /\ Covered(pool, w, now)
  BY <1>1
<1>3. /\ Total([u \in User |-> Due(pool, u, now)]) \in Nat
      /\ pool.total + Total([u \in User |-> Due(pool, u, now)])
            + pool.rate * (pool.finish - Applicable(pool, now)) <= w
  BY <1>1, <1>2, DuesOwed
<1>4. pool.rate \in Nat /\ pool.finish \in Nat /\ pool.total \in Nat
  BY <1>1, PoolStateFields
<1>5. Undistributed = pool.rate * (pool.finish - Applicable(pool, now))
  <2>1. CASE now < pool.finish
    BY <1>1, <1>4, <2>1 DEF Undistributed, Applicable
  <2>2. CASE ~(now < pool.finish)
    BY <1>1, <1>4, <2>2 DEF Undistributed, Applicable
  <2>. QED  BY <2>1, <2>2
<1>6. pool.rate * (pool.finish - Applicable(pool, now)) \in Int
  <2>1. Applicable(pool, now) \in Nat
    BY <1>1, <1>4 DEF Applicable
  <2>. QED  BY <1>4, <2>1
<1>. QED  BY <1>2, <1>3, <1>4, <1>5, <1>6 DEF DuesCovered

(* The holdings cover it whether or not it can be computed: top-ups, late  *)
(* and early stakers and rounding never make the contract promise more     *)
(* than it has (lib.rs:174-239).                                           *)
THEOREM PoolCoversDues == Spec => []DuesCovered
BY CoversDues, Invariance, PTL

(* The contract holds every stake, everything earned and the rest of the   *)
(* period, whenever what is earned can be computed: no reward is paid from *)
(* a stake (lib.rs:174-239).                                               *)
LEMMA SolventWhereItFits == Spec => [](Accrues => Solvent)
<1>1. ASSUME IInv, Accrues  PROVE Solvent
  <2>1. [u \in User |-> earned(u)] = [u \in User |-> Due(pool, u, now)]
    BY <1>1, EarnedAlways
  <2>. QED  BY <1>1, <2>1, CoversDues DEF DuesCovered, Solvent
<1>2. IInv => (Accrues => Solvent)
  BY <1>1
<1>. QED  BY <1>2, Invariance, PTL

(* What is due to a user is never lost, whether or not it can be computed: *)
(* no step of anybody else changes it, and a payment pays all of it        *)
(* (lib.rs:195-207, 271-279).                                              *)
THEOREM DuesAreKept == Spec => [][\A u \in User : DueSurvives(u)]_vars
<1>1. IInv /\ [Next]_vars => [\A u \in User : DueSurvives(u)]_vars
  BY NextDues
<1>. QED  BY <1>1, Invariance, PTL DEF Spec

(* Nobody's earnings change but by the passage of time, or by being paid   *)
(* out in full, as long as they can be computed (lib.rs:195-207, 271-279); *)
(* nor is what is left of a period lost to a top-up (lib.rs:218-239).      *)
LEMMA EarningsKeptWhereTheyFit == Spec /\ []Accrues => EarningsAreKept
<1>1. ASSUME IInv, Accrues, Accrues', [Next]_vars
      PROVE  \A u \in User :
                 \/ earned(u)' = earned(u)
                 \/ earned(u)' > earned(u) /\ now' > now
                 \/ earned(u)' = 0 /\ tok'.bal[u] >= tok.bal[u] + earned(u)
  <2>1. TAKE u \in User
  <2>2. earned(u) = Due(pool, u, now) /\ earned(u)' = Due(pool', u, now')
    BY <1>1, EarnedAlways, EarnedNext
  <2>3. DueSurvives(u)
    BY <1>1, NextDues
  <2>. QED  BY <2>2, <2>3 DEF DueSurvives
<1>2. ASSUME IInv, [Next]_vars
      PROVE  LET funded == RewardFunds' - RewardFunds
                 lost   == Undistributed + funded - Undistributed'
             IN  now' = now =>
                     IF funded > 0 THEN lost \in 0..(Duration - 1)
                     ELSE Undistributed' = Undistributed
  BY <1>2, NextRest
<1>. QED  BY <1>1, <1>2, Invariance, PTL DEF Spec, EarningsAreKept

(* In a second of the period every user earns its share of the rate, as    *)
(* long as it can be computed (lib.rs:5-9).                                *)
LEMMA SharesWhereTheyFit == Spec /\ []Accrues => AccrualIsProportional
<1>1. ASSUME IInv, Accrues, Accrues', [Next]_vars, now' > now, NEW u \in User, pool.total > 0
      PROVE  LET gain  == (earned(u)' - earned(u)) * pool.total * PRECISION
                 share == IF now < pool.finish THEN pool.balances[u] * pool.rate * PRECISION ELSE 0
                 slack == pool.total * (pool.balances[u] + PRECISION)
             IN  gain - share \in (-slack) .. slack
  <2>1. now \in Nat /\ tok.bal[Pool] \in Nat /\ Covered(pool, tok.bal[Pool], now)
    BY <1>1, IInvFacts
  <2>2. Second
    BY <1>1, <2>1 DEF Next, vars, FundRewards, Stake, Unstake, Claim
  <2>3. now' = now + 1 /\ pool' = pool
    BY <2>2 DEF Second
  <2>4. earned(u) = Due(pool, u, now) /\ earned(u)' = Due(pool, u, now + 1)
    BY <1>1, <2>3, EarnedAlways, EarnedNext
  <2>5. PICK s : s = pool
    OBVIOUS
  <2>6. PICK t \in Nat, x \in Nat, w \in Nat :
            t = now /\ x = t + 1 /\ w = tok.bal[Pool] /\ Covered(s, w, t)
    <3>1. PICK t \in Nat, x \in Nat : t = now /\ x = t + 1
      BY <2>1
    <3>. QED  BY <2>1, <2>5, <3>1
  <2>7. LET gain  == (Due(s, u, x) - Due(s, u, t)) * s.total * PRECISION
            share == IF t < s.finish THEN s.balances[u] * s.rate * PRECISION ELSE 0
            slack == s.total * (s.balances[u] + PRECISION)
        IN  gain - share \in (-slack) .. slack
    BY <1>1, <2>5, <2>6, ShareOfASecond
  <2>. QED  BY <2>4, <2>5, <2>6, <2>7
<1>2. ASSUME IInv, Accrues, Accrues', [Next]_vars
      PROVE  now' > now =>
                \A u \in User :
                    LET gain  == (earned(u)' - earned(u)) * pool.total * PRECISION
                        share == IF now < pool.finish THEN pool.balances[u] * pool.rate * PRECISION ELSE 0
                        slack == pool.total * (pool.balances[u] + PRECISION)
                    IN  pool.total > 0 => gain - share \in (-slack) .. slack
  BY <1>1, <1>2
<1>. QED  BY <1>2, Invariance, PTL DEF Spec, AccrualIsProportional

-----------------------------------------------------------------------------
(* A withdrawal of a whole stake *)

(* An update goes through when the user's earnings can be computed: the    *)
(* accumulator, once stored, yields the same ones.                         *)
LEMMA UpdateGoesThrough ==
    ASSUME now \in Nat, NEW w \in Nat, NEW s, Covered(s, w, now), NEW u \in User,
           NEW n \in accrued(s, u)
    PROVE  update_reward(s, u) # {}
<1>. DEFINE global(r) == [s EXCEPT !.rpt = r, !.last = last_time_applicable(s)]
<1>1. PICK scaled \in Fits({s.balances[u] * (r - s.paid[u]) : r \in reward_per_token(s)}) :
          n = s.rewards[u] + (scaled \div PRECISION) /\ n <= MaxI128
  BY DEF accrued, Fits
<1>2. PICK r \in reward_per_token(s) : scaled = s.balances[u] * (r - s.paid[u]) /\ scaled <= MaxI128
  BY DEF Fits
<1>3. r = Rpt(s, now) /\ (s.total # 0 => r <= MaxI128)
  BY RewardPerToken
<1>4. /\ s \in PoolState /\ s.rate \in Nat /\ s.finish \in Nat /\ s.total \in Nat
      /\ r \in Nat /\ Applicable(s, now) \in Nat
      /\ last_time_applicable(s) = Applicable(s, now)
  BY <1>3, RptOutcome, PoolStateFields DEF Covered, last_time_applicable, Applicable
<1>5. PICK g : g = global(r)
  OBVIOUS
<1>6. /\ g.rpt = r /\ g.last = Applicable(s, now) /\ g.rate = s.rate /\ g.finish = s.finish
      /\ g.total = s.total /\ g.balances = s.balances /\ g.rewards = s.rewards
      /\ g.paid = s.paid
  BY <1>4, <1>5 DEF PoolState
<1>7. r \in reward_per_token(g)
  <2>1. CASE s.total = 0
    BY <1>6, <2>1 DEF reward_per_token
  <2>2. CASE s.total # 0
    <3>1. last_time_applicable(g) - g.last = 0
      BY <1>4, <1>6 DEF last_time_applicable
    <3>2. (last_time_applicable(g) - g.last) * g.rate * PRECISION = 0
      BY <1>4, <1>6, <3>1, ScaleAssumption
    <3>3. 0 \in Fits({(last_time_applicable(g) - g.last) * g.rate * PRECISION})
      BY <3>2, WidthAssumption DEF Fits
    <3>4. r = g.rpt + (0 \div g.total) /\ r <= MaxI128
      BY <1>3, <1>4, <1>6, <2>2
    <3>. QED  BY <1>6, <2>2, <3>3, <3>4 DEF reward_per_token, Fits
  <2>. QED  BY <2>1, <2>2
<1>8. n \in accrued(g, u)
  <2>1. scaled = g.balances[u] * (r - g.paid[u]) /\ n = g.rewards[u] + (scaled \div PRECISION)
    BY <1>1, <1>2, <1>6
  <2>2. scaled \in Fits({g.balances[u] * (x - g.paid[u]) : x \in reward_per_token(g)})
    BY <1>2, <1>7, <2>1 DEF Fits
  <2>. QED  BY <1>1, <2>1, <2>2 DEF accrued, Fits
<1>9. [global(r) EXCEPT !.rewards[u] = n, !.paid[u] = r] \in update_reward(s, u)
  <2>. DEFINE F(x) == {[global(x) EXCEPT !.rewards[u] = due, !.paid[u] = x] : due \in accrued(global(x), u)}
  <2>1. [global(r) EXCEPT !.rewards[u] = n, !.paid[u] = r] \in F(r)
    BY <1>5, <1>8
  <2>2. update_reward(s, u) = UNION {F(x) : x \in reward_per_token(s)}
    BY Zenon DEF update_reward
  <2>. HIDE DEF F
  <2>. QED  BY <2>1, <2>2
<1>. QED  BY <1>9

LEMMA WithdrawalGoesThrough ==
    ASSUME IInv, Total(Endowment) <= MaxI128, NEW u \in User, NEW n \in accrued(pool, u),
           pool.balances[u] > 0
    PROVE  unstake(u, pool.balances[u]) # Panic
<1>1. /\ tok \in Storage /\ tok.bal \in [Address -> Nat] /\ tok.bal[Pool] \in Nat
      /\ pool \in PoolState /\ now \in Nat /\ now \in 1..MaxTime
      /\ Covered(pool, tok.bal[Pool], now)
      /\ Total(tok.bal) = Total(Endowment)
  BY IInvFacts
<1>2. u \in Address /\ Pool \in Address
  BY PoolAssumption DEF User
<1>3. PICK v \in Nat : v = tok.bal[Pool] /\ Covered(pool, v, now)
  BY <1>1
<1>4. PICK s : s \in update_reward(pool, u)
  <2>1. update_reward(pool, u) # {}
    BY <1>1, <1>3, UpdateGoesThrough
  <2>. QED  BY <2>1
<1>5. /\ Covered(s, v, now)
      /\ s.rpt = Rpt(pool, now) /\ s.last = Applicable(pool, now)
      /\ s.rate = pool.rate /\ s.finish = pool.finish
      /\ s.total = pool.total /\ s.balances = pool.balances
      /\ s.rewards = [pool.rewards EXCEPT ![u] = Due(pool, u, now)]
      /\ s.paid = [pool.paid EXCEPT ![u] = Rpt(pool, now)]
  <2>1. now \in Nat /\ v \in Nat /\ Covered(pool, v, now) /\ u \in User
        /\ s \in update_reward(pool, u)
    BY <1>1, <1>3, <1>4
  <2>. QED  BY ONLY <2>1, UpdateOutcome, SMTT(30)
<1>6. PICK due \in Nat : due = s.rewards[u] /\ due <= v
  <2>. DEFINE d == [x \in User |-> Due(pool, x, now)]
  <2>1. /\ d \in [User -> Nat] /\ Total(d) \in Nat
        /\ pool.total + Total(d) + pool.rate * (pool.finish - Applicable(pool, now)) <= v
    BY <1>1, <1>3, DuesOwed
  <2>2. /\ pool.total \in Nat /\ IsFiniteSet(User) /\ pool.rewards \in [User -> Nat]
        /\ pool.rate \in Nat /\ pool.finish \in Nat
    BY <1>1, PoolStateFields
  <2>3. pool.rate * (pool.finish - Applicable(pool, now)) \in Nat
    <3>1. Applicable(pool, now) \in Nat /\ Applicable(pool, now) <= pool.finish
      BY <1>1, <2>2 DEF Applicable
    <3>. QED  BY <2>2, <3>1
  <2>4. d[u] <= Total(d)
    <3>. HIDE DEF d
    <3>. QED  BY <2>1, <2>2, TotalAtLeast
  <2>5. s.rewards[u] = d[u] /\ d[u] \in Nat
    BY <1>5, <2>1, <2>2
  <2>. QED  BY <2>1, <2>2, <2>3, <2>4, <2>5
<1>7. PICK c : c \in claim(u)
  <2>1. CASE due > 0
    <3>1. transfer(tok, Pool, u, due) # Panic
      BY <1>1, <1>2, <1>3, <1>6, AffordableGoesThrough
    <3>2. PICK t : t \in transfer(tok, Pool, u, due)
      BY <3>1 DEF Panic
    <3>3. [pool |-> [s EXCEPT !.rewards[u] = 0], tok |-> t] \in pay_pending(s, tok, u)
      BY <1>6, <2>1, <3>2 DEF pay_pending, World
    <3>. QED  BY <1>4, <3>3 DEF claim
  <2>2. CASE ~(due > 0)
    <3>1. [pool |-> [s EXCEPT !.rewards[u] = 0], tok |-> tok] \in pay_pending(s, tok, u)
      BY <1>6, <2>2 DEF pay_pending, World
    <3>. QED  BY <1>4, <3>1 DEF claim
  <2>. QED  BY <2>1, <2>2
<1>8. Discharged(c) /\ c.pool \in PoolState /\ c.pool.balances = pool.balances
  BY <1>7, ClaimOutcome
<1>9. PICK out \in Nat : out = pool.balances[u] /\ out > 0
  BY <1>1, PoolStateFields
<1>10. /\ c.tok \in Storage /\ Covered(c.pool, c.tok.bal[Pool], now)
       /\ Total(c.tok.bal) = Total(Endowment)
       /\ c.tok.bal[Pool] \in Nat
  BY <1>1, <1>8, <1>2, WidthAssumption DEF Discharged, Storage, Held
<1>11. out <= c.tok.bal[Pool]
  <2>1. PICK z : z = c.pool
    OBVIOUS
  <2>2. PICK w \in Nat : w = c.tok.bal[Pool] /\ Covered(z, w, now)
    BY <1>10, <2>1
  <2>. DEFINE d == [x \in User |-> Due(z, x, now)]
  <2>3. /\ Total(d) \in Nat
        /\ z.total + Total(d) + z.rate * (z.finish - Applicable(z, now)) <= w
    BY <1>1, <2>2, DuesOwed
  <2>4. /\ z.total \in Nat /\ IsFiniteSet(User) /\ z.balances \in [User -> Nat]
        /\ z.rate \in Nat /\ z.finish \in Nat /\ z.total = Total(z.balances)
    BY <1>8, <2>1, <2>2, PoolStateFields DEF Covered
  <2>5. z.rate * (z.finish - Applicable(z, now)) \in Nat
    <3>1. Applicable(z, now) \in Nat /\ Applicable(z, now) <= z.finish
      BY <1>1, <2>4 DEF Applicable
    <3>. QED  BY <2>4, <3>1
  <2>6. z.balances[u] <= Total(z.balances)
    BY <2>4, TotalAtLeast
  <2>. HIDE DEF d
  <2>7. z.total <= w
    BY <2>3, <2>4, <2>5
  <2>. QED  BY <1>8, <1>9, <2>1, <2>2, <2>4, <2>6, <2>7
<1>12. transfer(c.tok, Pool, u, out) # Panic
  BY <1>2, <1>9, <1>10, <1>11, AffordableGoesThrough
<1>13. PICK t : t \in transfer(c.tok, Pool, u, out)
  BY <1>12 DEF Panic
<1>14. Out(pool.balances[u], c.pool.balances[u]) = out
  BY <1>8, <1>9 DEF Out
<1>15. [pool |-> [c.pool EXCEPT !.balances[u] = @ - out, !.total = @ - out], tok |-> t]
          \in unstake(u, pool.balances[u])
  <2>1. ~(pool.balances[u] <= 0)
    BY <1>9
  <2>2. [pool |-> [c.pool EXCEPT !.balances[u] = @ - out, !.total = @ - out], tok |-> t]
           \in World([c.pool EXCEPT !.balances[u] = @ - out, !.total = @ - out],
                     IF out > 0 THEN transfer(c.tok, Pool, u, out) ELSE {c.tok})
    BY <1>9, <1>13 DEF World
  <2>. QED  BY <1>7, <1>14, <2>1, <2>2 DEF unstake
<1>. QED  BY <1>15 DEF Panic

(* A staker can always have its whole stake back, whatever others stake,   *)
(* claim or withdraw first: nothing in the withdrawal panics, if the       *)
(* asset's supply and the staker's earnings fit i128 (lib.rs:261-263).     *)
LEMMA StakesReturnWhereTheyFit ==
    ASSUME Total(Endowment) <= MaxI128
    PROVE  Spec => [](Accrues => StakeIsReturned)
<1>1. IInv => (Accrues => StakeIsReturned)
  BY WithdrawalGoesThrough DEF Accrues, StakeIsReturned
<1>. QED  BY <1>1, Invariance, PTL

-----------------------------------------------------------------------------
(* The width that is enough *)

(* A second moves the accumulator by no more than the precision times the  *)
(* pool's holdings: while a period runs they cover another second of it.   *)
LEMMA RptLater ==
    ASSUME NEW w \in Nat, NEW t \in Nat, NEW s, Covered(s, w, t), NEW x \in Nat, x = t + 1
    PROVE  Rpt(s, x) \in Nat /\ Rpt(s, t) \in Nat /\ Rpt(s, x) <= Rpt(s, t) + PRECISION * w
<1>1. s.total \in Nat /\ s.rpt \in Nat /\ s.rate \in Nat /\ s.finish \in Nat
  BY PoolStateFields DEF Covered
<1>2. Covered(s, w, x)
      /\ Released(s, x) = Released(s, t) + (IF t < s.finish THEN s.rate * PRECISION ELSE 0)
  BY ReleasedLater
<1>3. /\ Rpt(s, x) \in Nat /\ Rpt(s, t) \in Nat
      /\ Released(s, x) \in Nat /\ Released(s, t) \in Nat
  BY <1>2, RptOutcome
<1>4. PRECISION * w \in Nat
  BY ScaleAssumption
<1>5. t < s.finish => s.rate <= w
  <2>1. SUFFICES ASSUME t < s.finish PROVE s.rate <= w
    OBVIOUS
  <2>2. /\ Total([u \in User |-> Due(s, u, t)]) \in Nat
        /\ s.total + Total([u \in User |-> Due(s, u, t)])
              + s.rate * (s.finish - Applicable(s, t)) <= w
    BY DuesOwed
  <2>3. PICK rate \in Nat, e \in Nat \ {0} : rate = s.rate /\ e = s.finish - t
    BY <1>1, <2>1
  <2>4. Applicable(s, t) = t
    BY <2>1 DEF Applicable
  <2>5. rate * e <= w /\ rate * e \in Nat
    BY <1>1, <2>2, <2>3, <2>4
  <2>6. rate <= rate * e
    BY <2>3
  <2>. QED  BY <2>3, <2>5, <2>6
<1>6. PICK g \in Nat :
          /\ g = (IF t < s.finish THEN s.rate * PRECISION ELSE 0)
          /\ g <= PRECISION * w
  <2>1. CASE t < s.finish
    <3>1. PICK rate \in Nat : rate = s.rate /\ rate <= w
      BY <1>1, <1>5, <2>1
    <3>2. rate * PRECISION \in Nat /\ rate * PRECISION <= PRECISION * w
      BY <3>1, ScaleAssumption
    <3>. QED  BY <2>1, <3>1, <3>2
  <2>2. CASE ~(t < s.finish)
    BY <1>4, <2>2
  <2>. QED  BY <2>1, <2>2
<1>7. CASE s.total = 0
  BY <1>1, <1>3, <1>4, <1>7 DEF Rpt
<1>8. CASE s.total # 0
  <2>1. PICK a \in Nat, c \in Nat, T \in Nat \ {0} :
            a = Released(s, t) /\ c = Released(s, x) /\ T = s.total /\ c = a + g
    BY <1>1, <1>2, <1>3, <1>6, <1>8
  <2>2. PICK p \in Nat, q \in Nat :
            /\ p = a \div T /\ q = c \div T
            /\ a < T * p + T /\ T * q <= c
    BY DivBounds
  <2>3. q <= p + g
    <3>1. T * q < T * p + T + g
      BY <2>1, <2>2
    <3>2. T * (p + g + 1) = T * p + T * g + T /\ g <= T * g /\ T * g \in Nat
      BY <2>1
    <3>3. T * q < T * (p + g + 1)
      BY <3>1, <3>2
    <3>4. q < p + g + 1
      BY <3>3
    <3>. QED  BY <3>4
  <2>4. Rpt(s, t) = s.rpt + p /\ Rpt(s, x) = s.rpt + q
    BY <1>8, <2>1, <2>2 DEF Rpt
  <2>. QED  BY <1>1, <1>3, <1>4, <1>6, <2>3, <2>4
<1>. QED  BY <1>7, <1>8

(* So it has moved at most that far in each second so far, for the supply. *)
AccumulatorBounded == Rpt(pool, now) <= PRECISION * Total(Endowment) * now

LEMMA SupplyFacts ==
    /\ Total(Endowment) \in Nat
    /\ PRECISION * Total(Endowment) \in Nat
    /\ IInv => tok.bal[Pool] <= Total(Endowment)
<1>1. Total(Endowment) \in Nat
  BY AddressAssumption, EndowmentAssumption, WidthAssumption, TotalType DEF Held
<1>2. PRECISION * Total(Endowment) \in Nat
  BY <1>1, ScaleAssumption
<1>3. ASSUME IInv  PROVE tok.bal[Pool] <= Total(Endowment)
  <2>1. tok.bal \in [Address -> Nat] /\ Total(tok.bal) = Total(Endowment)
    BY <1>3, IInvFacts
  <2>2. tok.bal[Pool] <= Total(tok.bal)
    BY <2>1, AddressAssumption, PoolAssumption, TotalAtLeast
  <2>. QED  BY <2>1, <2>2
<1>. QED  BY <1>1, <1>2, <1>3

LEMMA InitBounded == Init => AccumulatorBounded
<1>. SUFFICES ASSUME Init PROVE AccumulatorBounded
  OBVIOUS
<1>1. now = 1 /\ pool.total = 0 /\ pool.rpt = 0
  BY DEF Init
<1>2. Rpt(pool, now) = 0
  BY <1>1 DEF Rpt
<1>3. PICK k \in Nat : k = PRECISION * Total(Endowment)
  BY SupplyFacts
<1>. QED  BY <1>1, <1>2, <1>3 DEF AccumulatorBounded

LEMMA NextBounded ==
    ASSUME IInv, AccumulatorBounded, [Next]_vars
    PROVE  AccumulatorBounded'
<1>1. ASSUME Rpt(pool', now') = Rpt(pool, now), now' = now  PROVE AccumulatorBounded'
  BY <1>1 DEF AccumulatorBounded
<1>2. ASSUME NEW from \in User, NEW n \in Amounts, FundRewards(from, n)  PROVE AccumulatorBounded'
  BY <1>1, <1>2, FundDischarged, DischargedStep DEF FundRewards
<1>3. ASSUME NEW from \in User, NEW n \in Amounts, Stake(from, n)  PROVE AccumulatorBounded'
  BY <1>1, <1>3, StakeDischarged, DischargedStep DEF Stake
<1>4. ASSUME NEW from \in User, NEW n \in Amounts, Unstake(from, n)  PROVE AccumulatorBounded'
  BY <1>1, <1>4, UnstakeDischarged, DischargedStep DEF Unstake
<1>5. ASSUME NEW from \in User, Claim(from)  PROVE AccumulatorBounded'
  BY <1>1, <1>5, ClaimOutcome, DischargedStep DEF Claim
<1>6. CASE Second
  <2>1. /\ now \in Nat /\ tok.bal[Pool] \in Nat /\ Covered(pool, tok.bal[Pool], now)
        /\ now' = now + 1 /\ pool' = pool
    BY <1>6, IInvFacts DEF Second
  <2>0. PICK s : s = pool
    OBVIOUS
  <2>2. PICK t \in Nat, x \in Nat, w \in Nat, K \in Nat :
            /\ t = now /\ x = t + 1 /\ w = tok.bal[Pool]
            /\ K = Total(Endowment) /\ w <= K
    <3>1. PICK t \in Nat, x \in Nat : t = now /\ x = t + 1
      BY <2>1
    <3>2. PICK w \in Nat, K \in Nat : w = tok.bal[Pool] /\ K = Total(Endowment) /\ w <= K
      BY <2>1, SupplyFacts
    <3>. QED  BY <3>1, <3>2
  <2>3. Covered(s, w, t)
    BY <2>0, <2>1, <2>2
  <2>4. PICK r \in Nat, v \in Nat : r = Rpt(s, t) /\ v = Rpt(s, x) /\ v <= r + PRECISION * w
    BY <2>2, <2>3, RptLater
  <2>5. r <= PRECISION * K * t
    BY <2>0, <2>2, <2>4 DEF AccumulatorBounded
  <2>6. PRECISION * w <= PRECISION * K /\ PRECISION * K \in Nat /\ PRECISION * w \in Nat
    BY <2>2, ScaleAssumption
  <2>7. PRECISION * K * x = PRECISION * K * t + PRECISION * K /\ PRECISION * K * t \in Nat
    <3>1. PICK k \in Nat : k = PRECISION * K
      BY <2>6
    <3>2. k * x = k * t + k /\ k * t \in Nat
      BY <2>2
    <3>. QED  BY <3>1, <3>2
  <2>8. v <= PRECISION * K * x
    BY <2>4, <2>5, <2>6, <2>7
  <2>. QED  BY <2>0, <2>1, <2>2, <2>4, <2>8 DEF AccumulatorBounded
<1>7. CASE UNCHANGED vars
  BY <1>1, <1>7 DEF vars
<1>. QED  BY <1>2, <1>3, <1>4, <1>5, <1>6, <1>7 DEF Next

(* What is left of a period at its rate is held.                           *)
LEMMA PeriodHeld ==
    ASSUME NEW w \in Nat, NEW t \in Nat, NEW s, Covered(s, w, t)
    PROVE  Released(s, t) <= PRECISION * w
<1>1. s.total \in Nat /\ s.rate \in Nat /\ s.finish \in Nat /\ s.last \in Nat
      /\ (s.rate > 0 => s.last <= s.finish)
  BY PoolStateFields DEF Covered
<1>2. Applicable(s, t) \in Nat /\ Applicable(s, t) <= s.finish
  BY RptOutcome
<1>3. CASE s.rate = 0
  <2>1. PICK e \in Int : e = Applicable(s, t) - s.last
    BY <1>1, <1>2
  <2>2. (e * 0) * PRECISION = 0 /\ 0 <= PRECISION * w
    BY ScaleAssumption
  <2>. QED  BY <1>3, <2>1, <2>2 DEF Released
<1>4. CASE s.rate # 0
  <2>1. PICK x \in Nat : x = s.last
    BY <1>1
  <2>2. Covered(s, w, x)
    BY <2>1 DEF Covered
  <2>3. Applicable(s, x) = x
    BY <1>1, <1>4, <2>1 DEF Applicable
  <2>4. /\ Total([u \in User |-> Due(s, u, x)]) \in Nat
        /\ s.total + Total([u \in User |-> Due(s, u, x)])
              + s.rate * (s.finish - Applicable(s, x)) <= w
    BY <2>2, DuesOwed
  <2>5. PICK rate \in Nat, e \in Int, f \in Nat :
            /\ rate = s.rate /\ e = Applicable(s, t) - s.last /\ f = s.finish - x /\ e <= f
    BY <1>1, <1>2, <1>4, <2>1
  <2>6. rate * f <= w /\ rate * f \in Nat
    BY <1>1, <2>3, <2>4, <2>5
  <2>7. e * rate <= rate * f /\ e * rate \in Int
    BY <2>5
  <2>8. PICK y \in Int : y = e * rate /\ y <= w
    BY <2>6, <2>7
  <2>9. y * PRECISION <= PRECISION * w
    BY <2>8, ScaleAssumption
  <2>. QED  BY <2>5, <2>8, <2>9 DEF Released
<1>. QED  BY <1>3, <1>4

(* The precision times the supply, in each second of the pool's life, fits *)
(* i128.                                                                   *)
AccrualFits == PRECISION * Total(Endowment) * MaxTime <= MaxI128

(* Then nothing in the computation of what a user has earned overflows.    *)
LEMMA EverythingFits ==
    ASSUME AccrualFits, IInv, AccumulatorBounded
    PROVE  Accrues
<1>1. /\ now \in Nat /\ now \in 1..MaxTime
      /\ tok.bal[Pool] \in Nat /\ Covered(pool, tok.bal[Pool], now)
  BY IInvFacts
<1>2. PICK K \in Nat, M \in Nat, B \in Nat, t \in Nat, w \in Nat, top \in Nat :
          /\ K = Total(Endowment) /\ M = PRECISION * K /\ B = M * MaxTime
          /\ t = now /\ t <= MaxTime
          /\ w = tok.bal[Pool] /\ w <= K
          /\ top = MaxI128 /\ B <= top
  <2>1. PICK K \in Nat, M \in Nat : K = Total(Endowment) /\ M = PRECISION * K
    BY SupplyFacts
  <2>2. M * MaxTime \in Nat
    BY TimeAssumption
  <2>3. M * MaxTime <= MaxI128 /\ MaxI128 \in Nat
    BY <2>1, WidthAssumption DEF AccrualFits
  <2>. QED  BY <1>1, <2>1, <2>2, <2>3, SupplyFacts
<1>3. M * t <= B /\ M <= B /\ K <= M
  BY <1>1, <1>2, TimeAssumption, ScaleAssumption
<1>4. PRECISION * w <= M /\ PRECISION * w \in Nat
  BY <1>2, ScaleAssumption
<1>5. PICK s : s = pool /\ Covered(s, w, t)
  BY <1>1, <1>2
<1>6. s.total \in Nat /\ s.total = Total(s.balances)
      /\ s.balances \in [User -> Nat] /\ s.rewards \in [User -> Nat] /\ IsFiniteSet(User)
  BY <1>5, PoolStateFields DEF Covered
<1>7. PICK r \in Nat : r = Rpt(s, t) /\ r <= top
  <2>1. Rpt(s, t) \in Nat
    BY <1>5, RptOutcome
  <2>2. Rpt(s, t) <= M * t
    BY <1>2, <1>5 DEF AccumulatorBounded
  <2>. QED  BY <1>2, <1>3, <2>1, <2>2
<1>8. r \in reward_per_token(pool)
  <2>1. CASE s.total = 0
    BY <1>5, <1>7, <2>1 DEF reward_per_token, Rpt
  <2>2. CASE s.total # 0
    <3>1. Released(s, t) <= MaxI128
      <4>1. Released(s, t) \in Nat /\ Released(s, t) <= PRECISION * w
        BY <1>5, RptOutcome, PeriodHeld
      <4>. QED  BY <1>2, <1>3, <1>4, <4>1
    <3>2. (last_time_applicable(s) - s.last) * s.rate * PRECISION = Released(s, t)
      BY <1>2 DEF last_time_applicable, Applicable, Released
    <3>3. Released(s, t) \in Fits({(last_time_applicable(s) - s.last) * s.rate * PRECISION})
      BY <3>1, <3>2 DEF Fits
    <3>4. r = s.rpt + (Released(s, t) \div s.total)
      BY <1>7, <2>2 DEF Rpt
    <3>. QED  BY <1>2, <1>5, <1>7, <2>2, <3>3, <3>4 DEF reward_per_token, Fits
  <2>. QED  BY <2>1, <2>2
<1>9. ASSUME NEW u \in User  PROVE accrued(pool, u) # {}
  <2>1. PICK b \in Nat, y \in Nat :
            b = s.balances[u] /\ y = s.balances[u] * (Rpt(s, t) - s.paid[u])
    BY <1>5, <1>6, DueOutcome
  <2>2. PICK q \in Nat : q = y \div PRECISION /\ y < PRECISION * q + PRECISION
    BY ScaleAssumption, DivBounds
  <2>3. PICK m \in Nat : m = s.rewards[u]
    BY <1>6
  <2>4. Due(s, u, t) = m + q
    BY <2>1, <2>2, <2>3 DEF Due
  <2>5. s.total + (m + q) <= w
    <3>. DEFINE d == [x \in User |-> Due(s, x, t)]
    <3>1. /\ d \in [User -> Nat] /\ Total(d) \in Nat
          /\ s.total + Total(d) + s.rate * (s.finish - Applicable(s, t)) <= w
      BY <1>5, DuesOwed
    <3>2. s.rate * (s.finish - Applicable(s, t)) \in Nat
      <4>1. s.rate \in Nat /\ s.finish \in Nat /\ Applicable(s, t) \in Nat
            /\ Applicable(s, t) <= s.finish
        BY <1>5, RptOutcome, PoolStateFields DEF Covered
      <4>. QED  BY <4>1
    <3>3. d[u] = m + q
      BY <2>4
    <3>4. d[u] <= Total(d)
      <4>. HIDE DEF d
      <4>. QED  BY <1>6, <3>1, TotalAtLeast
    <3>. HIDE DEF d
    <3>. QED  BY <1>6, <3>1, <3>2, <3>3, <3>4
  <2>6. y <= top
    <3>1. CASE b = 0
      <4>1. Rpt(s, t) - s.paid[u] \in Int
        BY <1>5, <1>7, PoolStateFields DEF Covered
      <4>2. y = 0
        BY <2>1, <3>1, <4>1
      <4>. QED  BY <1>2, <4>2
    <3>2. CASE b # 0
      <4>1. b <= s.total
        BY <1>6, <2>1, TotalAtLeast
      <4>2. q + 1 <= w
        BY <1>6, <2>1, <2>5, <3>2, <4>1
      <4>3. PRECISION * q + PRECISION <= PRECISION * w
        <5>1. PICK z \in Nat : w = q + 1 + z
          <6>1. w - (q + 1) \in Nat
            BY <4>2
          <6>. QED  BY <6>1
        <5>2. PRECISION * w = PRECISION * q + PRECISION + PRECISION * z /\ PRECISION * z \in Nat
              /\ PRECISION * q \in Nat
          BY <5>1, ScaleAssumption
        <5>. QED  BY <5>2, ScaleAssumption
      <4>4. PRECISION * q \in Nat
        BY ScaleAssumption
      <4>. QED  BY <1>2, <1>3, <1>4, <2>2, <4>3, <4>4, ScaleAssumption
    <3>. QED  BY <3>1, <3>2
  <2>7. m + q <= top
    BY <1>2, <1>3, <1>6, <2>5
  <2>8. y \in Fits({pool.balances[u] * (x - pool.paid[u]) : x \in reward_per_token(pool)})
    BY <1>2, <1>5, <1>7, <1>8, <2>1, <2>6 DEF Fits
  <2>9. m + q \in accrued(pool, u)
    BY <1>2, <1>5, <2>2, <2>3, <2>7, <2>8 DEF accrued, Fits
  <2>. QED  BY <2>9
<1>. QED  BY <1>9 DEF Accrues

(* No computation of the accrual overflows, as long as the precision times *)
(* the supply times the seconds since deployment fit i128: the overflow of *)
(* dt * rate * PRECISION that would stop every entry point cannot happen   *)
(* before (lib.rs:174-186).                                                *)
THEOREM AccrualNeverOverflows ==
    ASSUME AccrualFits
    PROVE  Spec => []Accrues
<1>1. Init => IInv /\ AccumulatorBounded
  BY InitIInv, InitBounded
<1>2. IInv /\ AccumulatorBounded /\ [Next]_vars => (IInv /\ AccumulatorBounded)'
  BY NextIInv, NextBounded
<1>3. IInv /\ AccumulatorBounded => Accrues
  BY EverythingFits
<1>. QED  BY <1>1, <1>2, <1>3, PTL DEF Spec

(* The contract holds every stake, everything earned and the rest of the   *)
(* period, so no reward is paid from a stake (lib.rs:174-239).             *)
THEOREM PoolSolvent ==
    ASSUME AccrualFits
    PROVE  Spec => []Solvent
BY AccrualNeverOverflows, SolventWhereItFits, PTL

(* Nobody's earnings change but by the passage of time, or by being paid   *)
(* out in full (lib.rs:195-207, 271-279), and a top-up takes over all that *)
(* is left of the period, to less than a unit per second (lib.rs:218-239). *)
THEOREM NobodyLosesEarnings ==
    ASSUME AccrualFits
    PROVE  Spec => EarningsAreKept
BY AccrualNeverOverflows, EarningsKeptWhereTheyFit, PTL

(* In a second of the period every user earns its share of the rate        *)
(* (lib.rs:5-9).                                                           *)
THEOREM SharesAreProportional ==
    ASSUME AccrualFits
    PROVE  Spec => AccrualIsProportional
BY AccrualNeverOverflows, SharesWhereTheyFit, PTL

(* Every stake can be withdrawn whole at any time (lib.rs:261-263).        *)
THEOREM StakesAreReturned ==
    ASSUME AccrualFits
    PROVE  Spec => []StakeIsReturned
<1>1. Total(Endowment) <= MaxI128
  <2>1. PICK K \in Nat, M \in Nat : K = Total(Endowment) /\ M = PRECISION * K
    BY SupplyFacts
  <2>2. K <= M /\ M <= M * MaxTime /\ M * MaxTime \in Nat
    BY <2>1, ScaleAssumption, TimeAssumption
  <2>3. M * MaxTime <= MaxI128
    BY <2>1 DEF AccrualFits
  <2>. QED  BY <2>1, <2>2, <2>3, WidthAssumption
<1>. QED  BY <1>1, AccrualNeverOverflows, StakesReturnWhereTheyFit, PTL

-----------------------------------------------------------------------------
(* The atomic swap *)

(* The contract's allowances stay behind what the parties offered, once    *)
(* the storages are known to be well typed with lasting entries; that the  *)
(* two assets of an offer differ keeps the two payments apart.             *)
SwapIInv ==
    /\ SwapTypeOK
    /\ \A a \in Asset : Lasting(toks[a])
    /\ \A id \in DOMAIN offers : offers[id].offer_asset # offers[id].ask_asset
    /\ PullsAreOffered

LEMMA SwapFacts ==
    ASSUME SwapIInv
    PROVE  /\ toks \in [Asset -> Storage]
           /\ \A a \in Asset : toks[a] \in Storage /\ Lasting(toks[a])
           /\ offers \in Seq(Offer) /\ DOMAIN offers = 1..Len(offers) /\ Len(offers) \in Nat
           /\ seq \in 1..MaxSeq /\ seq \in Nat \ {0} /\ live \in Nat
           /\ Swap \in Address
BY SwapAssumption, BoundsAssumption, OfferTtlAssumption DEF SwapIInv, SwapTypeOK, live

LEMMA OfferFacts ==
    ASSUME SwapIInv, NEW id \in DOMAIN offers
    PROVE  /\ offers[id] \in Offer
           /\ offers[id].offerer \in Party /\ offers[id].offer_asset \in Asset
           /\ offers[id].ask_asset \in Asset /\ offers[id].active \in BOOLEAN
           /\ offers[id].offer_asset # offers[id].ask_asset
           /\ offers[id].offer_amount \in Held /\ offers[id].offer_amount \in Nat
           /\ offers[id].ask_amount \in Held /\ offers[id].ask_amount \in Nat
<1>1. offers[id] \in Offer
  BY SwapFacts
<1>2. offers[id].offer_asset # offers[id].ask_asset
  BY DEF SwapIInv
<1>. QED  BY <1>1, <1>2, WidthAssumption DEF Offer, Held

(* A pull between parties: what the contract may still pull from the payer *)
(* falls by the amount, and the contract itself neither gains nor loses.   *)
LEMMA SwapPulls ==
    ASSUME NEW t \in Storage, Lasting(t), seq \in Nat \ {0},
           NEW from \in Party, NEW to \in Party, NEW n \in Int,
           NEW v \in transfer_from(t, seq, Swap, from, to, n)
    PROVE  /\ v \in Storage /\ Lasting(v)
           /\ v.bal[Swap] = t.bal[Swap]
           /\ from = to => v.bal = t.bal
           /\ from # to => v.bal = [t.bal EXCEPT ![from] = @ - n, ![to] = @ + n]
           /\ v.allow[<<from, Swap>>].amount = t.allow[<<from, Swap>>].amount - n
           /\ \A q \in Pair : q # <<from, Swap>> => v.allow[q] = t.allow[q]
<1>. DEFINE m == <<from, Swap>>
<1>1. from \in Address /\ to \in Address /\ Swap \in Address /\ from # Swap /\ to # Swap /\ m \in Pair
  BY SwapAssumption DEF Party, Pair
<1>2. /\ n \in Nat
      /\ v \in Storage
      /\ Lasting(v)
      /\ \E u \in spend_allowance(t, seq, <<from, Swap>>, n) :
             u \in Storage /\ u.bal = t.bal /\ v.allow = u.allow /\ v \in transfer(u, from, to, n)
  BY <1>1, TransferFromOutcome
<1>3. PICK u \in spend_allowance(t, seq, m, n) :
          u \in Storage /\ u.bal = t.bal /\ v.allow = u.allow /\ v \in transfer(u, from, to, n)
  BY <1>2
<1>4. /\ u \in Storage
      /\ Lasting(u)
      /\ u.bal = t.bal
      /\ n = 0 => u = t
      /\ n > 0 => /\ t.allow[m].expiration >= seq
                  /\ n <= t.allow[m].amount
                  /\ u.allow[m].amount = t.allow[m].amount - n
                  /\ u.allow[m].expiration = t.allow[m].expiration
                  /\ \A q \in Pair : q # m => u.allow[q] = t.allow[q]
  BY <1>1, <1>2, <1>3, SpendAllowanceOutcome
<1>5. /\ from = to => v.bal = u.bal
      /\ from # to => v.bal = [u.bal EXCEPT ![from] = @ - n, ![to] = @ + n]
  BY <1>1, <1>3, TransferBalances
<1>6. /\ t.allow[m].amount \in Nat
      /\ t.bal \in [Address -> Nat]
  BY <1>1, WidthAssumption DEF Storage, Entry, Held
<1>7. v.bal[Swap] = t.bal[Swap]
  BY <1>1, <1>3, <1>5, <1>6
<1>8. v.allow[m].amount = t.allow[m].amount - n
      /\ \A q \in Pair : q # m => v.allow[q] = t.allow[q]
  BY <1>2, <1>3, <1>4, <1>6
<1>. QED  BY <1>2, <1>3, <1>5, <1>7, <1>8

(* An approval by a party leaves the contract exactly that allowance.      *)
LEMMA SwapApproves ==
    ASSUME NEW t \in Storage, Lasting(t), seq \in Nat \ {0}, live \in Nat,
           NEW from \in Party, NEW n \in Int, n <= MaxI128,
           NEW u \in approve(t, seq, from, Swap, n, live)
    PROVE  /\ u \in Storage /\ Lasting(u)
           /\ u.bal = t.bal /\ n \in Held
           /\ u.allow[<<from, Swap>>].amount = n
           /\ \A q \in Pair : q # <<from, Swap>> => u.allow[q] = t.allow[q]
<1>. DEFINE m == <<from, Swap>>
<1>1. m \in Pair
  BY SwapAssumption DEF Party, Pair
<1>2. n \in Held /\ u \in write_allowance(t, seq, m, n, live)
  BY WidthAssumption DEF approve, check_nonnegative_amount, Panic, Held
<1>3. /\ u \in Storage
      /\ Lasting(u)
      /\ u.bal = t.bal
      /\ n > 0 => live >= seq
      /\ u.allow[m].amount = n
      /\ u.allow[m].expiration = live
      /\ \A q \in Pair : q # m => u.allow[q] = t.allow[q]
  BY <1>1, <1>2, WriteAllowanceOutcome
<1>. QED  BY <1>2, <1>3

(* The entrant's payment: the approval is used up at once.                 *)
LEMMA AskPaid ==
    ASSUME SwapIInv, NEW id \in DOMAIN offers, NEW entrant \in Party,
           NEW v \in PayAsk(offers[id], entrant)
    PROVE  LET o == offers[id]  t == toks[o.ask_asset] IN
           /\ v \in Storage /\ Lasting(v)
           /\ v.bal[Swap] = t.bal[Swap]
           /\ entrant = o.offerer => v.bal = t.bal
           /\ entrant # o.offerer =>
                 v.bal = [t.bal EXCEPT ![entrant] = @ - o.ask_amount, ![o.offerer] = @ + o.ask_amount]
           /\ v.allow[<<entrant, Swap>>].amount = 0
           /\ \A q \in Pair : q # <<entrant, Swap>> => v.allow[q] = t.allow[q]
<1>1. PICK o : o = offers[id]
  OBVIOUS
<1>2. PICK t, n : t = toks[o.ask_asset] /\ n = o.ask_amount
  OBVIOUS
<1>3. /\ o.offerer \in Party /\ n \in Nat /\ n \in Int /\ n <= MaxI128
      /\ t \in Storage /\ Lasting(t) /\ seq \in Nat \ {0} /\ live \in Nat
  BY <1>1, <1>2, OfferFacts, SwapFacts, WidthAssumption DEF Held
<1>4. PICK u \in approve(t, seq, entrant, Swap, n, live) :
          v \in transfer_from(u, seq, Swap, entrant, o.offerer, n)
  BY <1>1, <1>2 DEF PayAsk
<1>5. /\ u \in Storage /\ Lasting(u)
      /\ u.bal = t.bal /\ n \in Held
      /\ u.allow[<<entrant, Swap>>].amount = n
      /\ \A q \in Pair : q # <<entrant, Swap>> => u.allow[q] = t.allow[q]
  BY <1>3, <1>4, SwapApproves
<1>6. /\ v \in Storage /\ Lasting(v)
      /\ v.bal[Swap] = u.bal[Swap]
      /\ entrant = o.offerer => v.bal = u.bal
      /\ entrant # o.offerer => v.bal = [u.bal EXCEPT ![entrant] = @ - n, ![o.offerer] = @ + n]
      /\ v.allow[<<entrant, Swap>>].amount = u.allow[<<entrant, Swap>>].amount - n
      /\ \A q \in Pair : q # <<entrant, Swap>> => v.allow[q] = u.allow[q]
  BY <1>3, <1>4, <1>5, SwapPulls
<1>7. v.allow[<<entrant, Swap>>].amount = 0
  BY <1>3, <1>5, <1>6
<1>. QED  BY <1>1, <1>2, <1>5, <1>6, <1>7

LEMMA SwapInitIInv == SwapInit => SwapIInv
<1>. SUFFICES ASSUME SwapInit PROVE SwapIInv
  OBVIOUS
<1>1. NoEntry \in Entry /\ NoEntry.amount = 0
  BY WidthAssumption DEF NoEntry, Entry, Held
<1>2. ASSUME NEW a \in Asset
      PROVE  /\ toks[a].bal = Endowments[a]
             /\ \A q \in Pair : toks[a].allow[q] = NoEntry
             /\ toks[a] \in Storage
  <2>1. PICK e : e = Endowments[a]
    OBVIOUS
  <2>2. toks[a] = [bal |-> e, allow |-> [q \in Pair |-> NoEntry]]
    BY <2>1 DEF SwapInit, EmptyStorage
  <2>3. e \in [Address -> Held]
    BY <2>1, EndowmentsAssumption
  <2>. QED  BY <1>1, <2>1, <2>2, <2>3 DEF Storage
<1>3. \A a \in Asset : toks[a] \in Storage
  BY <1>2
<1>4. \A a \in Asset : Lasting(toks[a])
  BY <1>1, <1>2 DEF Lasting
<1>5. SwapTypeOK
  BY <1>3, BoundsAssumption DEF SwapInit, SwapTypeOK
<1>6. PullsAreOffered
  <2>1. ASSUME NEW a \in Asset, NEW p \in Party
        PROVE  toks[a].allow[<<p, Swap>>].amount = 0 /\ toks[a].bal[Swap] = Endowments[a][Swap]
    <3>1. <<p, Swap>> \in Pair
      BY SwapAssumption DEF Party, Pair
    <3>2. toks[a].allow[<<p, Swap>>] = NoEntry /\ toks[a].bal = Endowments[a]
      BY <1>2, <3>1
    <3>. QED  BY <1>1, <3>2
  <2>. QED  BY <2>1 DEF PullsAreOffered
<1>7. DOMAIN offers = {}
  BY DEF SwapInit
<1>. QED  BY <1>4, <1>5, <1>6, <1>7 DEF SwapIInv

(* The offers an action leaves: an offer once published keeps its parties, *)
(* assets and amounts.                                                     *)
SameTerms(o, q) ==
    /\ q.offerer = o.offerer /\ q.offer_asset = o.offer_asset /\ q.offer_amount = o.offer_amount
    /\ q.ask_asset = o.ask_asset

(* Where the terms stay and no allowance grows, the invariant stays.       *)
LEMMA SwapFrame ==
    ASSUME SwapIInv, SwapTypeOK', DOMAIN offers \subseteq DOMAIN offers',
           \A id \in DOMAIN offers : SameTerms(offers[id], offers'[id]),
           \A id \in DOMAIN offers' : id \notin DOMAIN offers =>
               offers'[id].offer_asset # offers'[id].ask_asset,
           \A a \in Asset :
               /\ Lasting(toks'[a])
               /\ toks'[a].bal[Swap] = toks[a].bal[Swap]
               /\ \A p \in Party :
                     LET pull == toks'[a].allow[<<p, Swap>>].amount IN
                     \/ pull <= toks[a].allow[<<p, Swap>>].amount
                     \/ pull = 0
                     \/ \E id \in DOMAIN offers' :
                           /\ offers'[id].offerer = p
                           /\ offers'[id].offer_asset = a
                           /\ pull <= offers'[id].offer_amount
    PROVE  SwapIInv'
<1>1. ASSUME NEW a \in Asset, NEW p \in Party, toks'[a].allow[<<p, Swap>>].amount > 0
      PROVE  \E id \in DOMAIN offers' :
                 /\ offers'[id].offerer = p
                 /\ offers'[id].offer_asset = a
                 /\ toks'[a].allow[<<p, Swap>>].amount <= offers'[id].offer_amount
  <2>. DEFINE was == toks[a].allow[<<p, Swap>>].amount
              is == toks'[a].allow[<<p, Swap>>].amount
  <2>1. was \in Nat /\ is \in Nat
    <3>1. <<p, Swap>> \in Pair
      BY SwapAssumption DEF Party, Pair
    <3>2. toks[a] \in Storage /\ toks'[a] \in Storage
      BY DEF SwapIInv, SwapTypeOK
    <3>3. toks[a].allow[<<p, Swap>>] \in Entry /\ toks'[a].allow[<<p, Swap>>] \in Entry
      BY <3>1, <3>2 DEF Storage
    <3>. QED  BY <3>3, WidthAssumption DEF Entry, Held
  <2>2. CASE is <= was
    <3>1. was > 0
      BY <1>1, <2>1, <2>2
    <3>2. PICK id \in DOMAIN offers :
              /\ offers[id].offerer = p /\ offers[id].offer_asset = a
              /\ was <= offers[id].offer_amount
      BY <3>1 DEF SwapIInv, PullsAreOffered
    <3>3. offers[id].offer_amount \in Nat
      BY OfferFacts
    <3>4. is <= offers[id].offer_amount
      BY <2>1, <2>2, <3>2, <3>3
    <3>. QED  BY <3>2, <3>4 DEF SameTerms
  <2>3. CASE ~(is <= was)
    BY <1>1, <2>3
  <2>. QED  BY <2>2, <2>3
<1>2. PullsAreOffered'
  <2>1. \A a \in Asset, p \in Party : toks'[a].bal[Swap] = Endowments[a][Swap]
    BY DEF SwapIInv, PullsAreOffered
  <2>. QED  BY <1>1, <2>1 DEF PullsAreOffered
<1>3. \A id \in DOMAIN offers' : offers'[id].offer_asset # offers'[id].ask_asset
  BY DEF SwapIInv, SameTerms
<1>. QED  BY <1>2, <1>3 DEF SwapIInv

LEMMA CreateStep ==
    ASSUME SwapIInv, NEW offerer \in Party, NEW give \in Asset, NEW ask \in Asset,
           NEW m \in OfferAmounts, NEW n \in OfferAmounts, CreateOffer(offerer, give, m, ask, n)
    PROVE  /\ SwapIInv'
           /\ \A a \in Asset : toks'[a].bal = toks[a].bal
           /\ \A id \in DOMAIN offers : offers'[id] = offers[id]
<1>1. /\ toks \in [Asset -> Storage]
      /\ \A a \in Asset : toks[a] \in Storage /\ Lasting(toks[a])
      /\ offers \in Seq(Offer) /\ DOMAIN offers = 1..Len(offers) /\ Len(offers) \in Nat
      /\ seq \in 1..MaxSeq /\ seq \in Nat \ {0} /\ live \in Nat
      /\ Swap \in Address
  BY SwapFacts
<1>2. m \in Int /\ n \in Int /\ m <= MaxI128 /\ n <= MaxI128
  BY TermsAssumption, WidthAssumption
<1>3. give # ask /\ m > 0 /\ n > 0 /\ seq' = seq
  BY DEF CreateOffer, ValidTerms
<1>4. PICK t \in approve(toks[give], seq, offerer, Swap, m, live) :
          toks' = [toks EXCEPT ![give] = t]
  BY DEF CreateOffer
<1>5. PICK o : /\ o = [offerer |-> offerer, offer_asset |-> give, offer_amount |-> m,
                       ask_asset |-> ask, ask_amount |-> n, active |-> TRUE]
               /\ offers' = Append(offers, o)
  BY DEF CreateOffer, Published
<1>6. o \in Offer
  <2>1. m \in Held /\ n \in Held
    BY <1>2, <1>3, WidthAssumption DEF Held
  <2>. QED  BY <1>5, <2>1 DEF Offer
<1>7. PICK k : k = Len(offers) + 1
  OBVIOUS
<1>8. /\ offers' \in Seq(Offer)
      /\ DOMAIN offers' = DOMAIN offers \cup {k}
      /\ offers'[k] = o
      /\ \A id \in DOMAIN offers : offers'[id] = offers[id]
  BY <1>1, <1>5, <1>6, <1>7
<1>9. PICK s : s = toks[give] /\ s \in Storage /\ Lasting(s)
  BY <1>1
<1>10. /\ t \in Storage /\ Lasting(t)
       /\ t.bal = s.bal /\ m \in Held
       /\ t.allow[<<offerer, Swap>>].amount = m
       /\ \A q \in Pair : q # <<offerer, Swap>> => t.allow[q] = s.allow[q]
  <2>1. t \in approve(s, seq, offerer, Swap, m, live)
    BY <1>4, <1>9
  <2>. QED  BY <1>1, <1>2, <1>9, <2>1, SwapApproves
<1>11. /\ toks' \in [Asset -> Storage] /\ toks'[give] = t
       /\ \A a \in Asset : a # give => toks'[a] = toks[a]
  BY <1>1, <1>4, <1>10
<1>12. SwapTypeOK'
  BY <1>1, <1>3, <1>8, <1>11 DEF SwapTypeOK
<1>13. ASSUME NEW a \in Asset, NEW p \in Party
       PROVE  LET pull == toks'[a].allow[<<p, Swap>>].amount IN
              \/ pull <= toks[a].allow[<<p, Swap>>].amount
              \/ pull = 0
              \/ \E id \in DOMAIN offers' :
                    /\ offers'[id].offerer = p
                    /\ offers'[id].offer_asset = a
                    /\ pull <= offers'[id].offer_amount
  <2>1. CASE a = give /\ p = offerer
    <3>1. /\ offers'[k].offerer = p /\ offers'[k].offer_asset = a /\ offers'[k].offer_amount = m
          /\ k \in DOMAIN offers'
      BY <1>5, <1>8, <2>1
    <3>2. toks'[a].allow[<<p, Swap>>].amount <= m
      BY <1>2, <1>10, <1>11, <2>1
    <3>. QED  BY <3>1, <3>2
  <2>2. CASE ~(a = give /\ p = offerer)
    <3>1. <<p, Swap>> \in Pair /\ (a = give => <<p, Swap>> # <<offerer, Swap>>)
      BY <1>1, <2>2 DEF Party, Pair
    <3>2. toks'[a].allow[<<p, Swap>>] = toks[a].allow[<<p, Swap>>]
      BY <1>9, <1>10, <1>11, <3>1
    <3>3. toks[a].allow[<<p, Swap>>].amount \in Nat
      BY <1>1, <3>1, WidthAssumption DEF Storage, Entry, Held
    <3>. QED  BY <3>2, <3>3
  <2>. QED  BY <2>1, <2>2
<1>14. \A a \in Asset : toks'[a].bal = toks[a].bal /\ Lasting(toks'[a])
  BY <1>1, <1>9, <1>10, <1>11
<1>15. \A id \in DOMAIN offers : SameTerms(offers[id], offers'[id])
  BY <1>8 DEF SameTerms
<1>16. \A id \in DOMAIN offers' : id \notin DOMAIN offers =>
           offers'[id].offer_asset # offers'[id].ask_asset
  BY <1>3, <1>5, <1>8
<1>17. DOMAIN offers \subseteq DOMAIN offers'
  BY <1>8
<1>18. SwapIInv'
  BY <1>12, <1>13, <1>14, <1>15, <1>16, <1>17, SwapFrame
<1>. QED  BY <1>8, <1>14, <1>18

LEMMA SwapPullType ==
    ASSUME SwapIInv, NEW a \in Asset, NEW p \in Party
    PROVE  toks[a].allow[<<p, Swap>>].amount \in Nat
<1>1. <<p, Swap>> \in Pair /\ toks[a] \in Storage
  BY SwapFacts DEF Party, Pair
<1>. QED  BY <1>1, WidthAssumption DEF Storage, Entry, Held

(* Settling an offer changes its flag and nothing else.                    *)
LEMMA OfferCloses ==
    ASSUME SwapIInv, NEW id \in DOMAIN offers, offers[id].active,
           offers' = [offers EXCEPT ![id] = Closed(offers[id])]
    PROVE  /\ offers' \in Seq(Offer) /\ DOMAIN offers' = DOMAIN offers
           /\ Settled(id) /\ offers'[id] = [offers[id] EXCEPT !.active = FALSE]
           /\ \A k \in DOMAIN offers : k # id => offers'[k] = offers[k]
           /\ \A k \in DOMAIN offers : SameTerms(offers[k], offers'[k])
<1>1. PICK o : o = offers[id] /\ o \in Offer /\ o.active
  BY OfferFacts
<1>2. PICK c : c = [o EXCEPT !.active = FALSE]
  OBVIOUS
<1>3. /\ c \in Offer /\ ~c.active
      /\ SameTerms(o, c)
  BY <1>1, <1>2 DEF Offer, SameTerms
<1>4. offers \in Seq(Offer) /\ offers' = [offers EXCEPT ![id] = c]
  BY <1>1, <1>2, SwapFacts DEF Closed
<1>5. /\ offers' \in Seq(Offer) /\ DOMAIN offers' = DOMAIN offers
      /\ offers'[id] = c
      /\ \A k \in DOMAIN offers : k # id => offers'[k] = offers[k]
  BY <1>3, <1>4
<1>6. \A k \in DOMAIN offers : SameTerms(offers[k], offers'[k])
  BY <1>1, <1>3, <1>5 DEF SameTerms
<1>. QED  BY <1>1, <1>2, <1>3, <1>5, <1>6 DEF Settled

(* An execution moves the two amounts the offer names, and nothing else.   *)
LEMMA ExecuteStep ==
    ASSUME SwapIInv, NEW entrant \in Party, NEW id \in DOMAIN offers, Execute(entrant, id)
    PROVE  LET o == offers[id] IN
           /\ SwapIInv'
           /\ o.active /\ offers' = [offers EXCEPT ![id] = Closed(o)]
           /\ \A a \in Asset : a # o.ask_asset /\ a # o.offer_asset => toks'[a] = toks[a]
           /\ entrant = o.offerer => \A a \in Asset : toks'[a].bal = toks[a].bal
           /\ entrant # o.offerer =>
                 /\ toks'[o.ask_asset].bal = [toks[o.ask_asset].bal EXCEPT
                        ![entrant] = @ - o.ask_amount, ![o.offerer] = @ + o.ask_amount]
                 /\ toks'[o.offer_asset].bal = [toks[o.offer_asset].bal EXCEPT
                        ![o.offerer] = @ - o.offer_amount, ![entrant] = @ + o.offer_amount]
<1>1. PICK o : o = offers[id]
  OBVIOUS
<1>2. /\ o.active /\ offers' = [offers EXCEPT ![id] = Closed(o)] /\ seq' = seq
      /\ \E paid \in PayAsk(o, entrant), given \in GiveOffer(o, entrant) :
             toks' = [toks EXCEPT ![o.ask_asset] = paid, ![o.offer_asset] = given]
  BY <1>1 DEF Execute
<1>3. PICK paid \in PayAsk(o, entrant) : \E given \in GiveOffer(o, entrant) :
          toks' = [toks EXCEPT ![o.ask_asset] = paid, ![o.offer_asset] = given]
  BY <1>2
<1>4. PICK given \in GiveOffer(o, entrant) :
          toks' = [toks EXCEPT ![o.ask_asset] = paid, ![o.offer_asset] = given]
  BY <1>3
<1>5. /\ o \in Offer
      /\ o.offerer \in Party /\ o.offer_asset \in Asset
      /\ o.ask_asset \in Asset /\ o.active \in BOOLEAN
      /\ o.offer_asset # o.ask_asset
      /\ o.offer_amount \in Held /\ o.offer_amount \in Nat
      /\ o.ask_amount \in Held /\ o.ask_amount \in Nat
  BY <1>1, OfferFacts
<1>6. /\ toks \in [Asset -> Storage]
      /\ \A a \in Asset : toks[a] \in Storage /\ Lasting(toks[a])
      /\ offers \in Seq(Offer) /\ DOMAIN offers = 1..Len(offers) /\ Len(offers) \in Nat
      /\ seq \in 1..MaxSeq /\ seq \in Nat \ {0} /\ live \in Nat
      /\ Swap \in Address
  BY SwapFacts
<1>7. PICK ask, give : ask = toks[o.ask_asset] /\ give = toks[o.offer_asset]
  OBVIOUS
<1>8. /\ paid \in Storage /\ Lasting(paid)
      /\ paid.bal[Swap] = ask.bal[Swap]
      /\ entrant = o.offerer => paid.bal = ask.bal
      /\ entrant # o.offerer => paid.bal = [ask.bal EXCEPT
             ![entrant] = @ - o.ask_amount, ![o.offerer] = @ + o.ask_amount]
      /\ paid.allow[<<entrant, Swap>>].amount = 0
      /\ \A q \in Pair : q # <<entrant, Swap>> => paid.allow[q] = ask.allow[q]
  BY <1>1, <1>7, AskPaid
<1>9. PICK n : n = o.offer_amount
  OBVIOUS
<1>10. /\ given \in Storage /\ Lasting(given)
       /\ given.bal[Swap] = give.bal[Swap]
       /\ o.offerer = entrant => given.bal = give.bal
       /\ o.offerer # entrant => given.bal = [give.bal EXCEPT ![o.offerer] = @ - n, ![entrant] = @ + n]
       /\ given.allow[<<o.offerer, Swap>>].amount = give.allow[<<o.offerer, Swap>>].amount - n
       /\ \A q \in Pair : q # <<o.offerer, Swap>> => given.allow[q] = give.allow[q]
  <2>1. /\ give \in Storage /\ Lasting(give) /\ seq \in Nat \ {0} /\ o.offerer \in Party
        /\ n \in Int /\ given \in transfer_from(give, seq, Swap, o.offerer, entrant, n)
    BY <1>4, <1>5, <1>6, <1>7, <1>9 DEF GiveOffer
  <2>. QED  BY <2>1, SwapPulls
<1>11. /\ toks' \in [Asset -> Storage]
       /\ toks'[o.ask_asset] = paid /\ toks'[o.offer_asset] = given
       /\ \A a \in Asset : a # o.ask_asset /\ a # o.offer_asset => toks'[a] = toks[a]
  BY <1>4, <1>5, <1>6, <1>8, <1>10
<1>12. /\ offers' \in Seq(Offer) /\ DOMAIN offers' = DOMAIN offers
       /\ Settled(id) /\ offers'[id] = [offers[id] EXCEPT !.active = FALSE]
       /\ \A k \in DOMAIN offers : k # id => offers'[k] = offers[k]
       /\ \A k \in DOMAIN offers : SameTerms(offers[k], offers'[k])
  BY <1>1, <1>2, OfferCloses
<1>13. SwapTypeOK'
  BY <1>2, <1>6, <1>11, <1>12 DEF SwapTypeOK
<1>14. ASSUME NEW a \in Asset
       PROVE  Lasting(toks'[a]) /\ toks'[a].bal[Swap] = toks[a].bal[Swap]
  BY <1>6, <1>7, <1>8, <1>10, <1>11
<1>15. ASSUME NEW a \in Asset, NEW p \in Party
       PROVE  \/ toks'[a].allow[<<p, Swap>>].amount <= toks[a].allow[<<p, Swap>>].amount
              \/ toks'[a].allow[<<p, Swap>>].amount = 0
  <2>1. <<p, Swap>> \in Pair
    BY <1>6 DEF Party, Pair
  <2>2. toks[a].allow[<<p, Swap>>].amount \in Nat
    BY <1>6, <2>1, WidthAssumption DEF Storage, Entry, Held
  <2>3. CASE a = o.ask_asset
    <3>1. p = entrant => toks'[a].allow[<<p, Swap>>].amount = 0
      BY <1>8, <1>11, <2>3
    <3>2. p # entrant => toks'[a].allow[<<p, Swap>>] = toks[a].allow[<<p, Swap>>]
      <4>1. p # entrant => <<p, Swap>> # <<entrant, Swap>>
        OBVIOUS
      <4>. QED  BY <1>7, <1>8, <1>11, <2>1, <2>3, <4>1
    <3>. QED  BY <2>2, <3>1, <3>2
  <2>4. CASE a = o.offer_asset
    <3>1. p = o.offerer => toks'[a].allow[<<p, Swap>>].amount = toks[a].allow[<<p, Swap>>].amount - n
      BY <1>7, <1>10, <1>11, <2>4
    <3>2. p # o.offerer => toks'[a].allow[<<p, Swap>>] = toks[a].allow[<<p, Swap>>]
      <4>1. p # o.offerer => <<p, Swap>> # <<o.offerer, Swap>>
        OBVIOUS
      <4>. QED  BY <1>7, <1>10, <1>11, <2>1, <2>4, <4>1
    <3>. QED  BY <1>5, <1>9, <2>2, <3>1, <3>2
  <2>5. CASE a # o.ask_asset /\ a # o.offer_asset
    BY <1>11, <2>2, <2>5
  <2>. QED  BY <2>3, <2>4, <2>5
<1>16. SwapIInv'
  BY <1>12, <1>13, <1>14, <1>15, SwapFrame
<1>17. entrant = o.offerer => \A a \in Asset : toks'[a].bal = toks[a].bal
  BY <1>7, <1>8, <1>10, <1>11
<1>18. entrant # o.offerer =>
          /\ toks'[o.ask_asset].bal = [toks[o.ask_asset].bal EXCEPT
                 ![entrant] = @ - o.ask_amount, ![o.offerer] = @ + o.ask_amount]
          /\ toks'[o.offer_asset].bal = [toks[o.offer_asset].bal EXCEPT
                 ![o.offerer] = @ - o.offer_amount, ![entrant] = @ + o.offer_amount]
  BY <1>7, <1>8, <1>9, <1>10, <1>11
<1>. QED  BY <1>1, <1>2, <1>11, <1>16, <1>17, <1>18

LEMMA CancelStep ==
    ASSUME SwapIInv, NEW offerer \in Party, NEW id \in DOMAIN offers, CancelOffer(offerer, id)
    PROVE  /\ SwapIInv'
           /\ offers[id].active /\ offers' = [offers EXCEPT ![id] = Closed(offers[id])]
           /\ toks' = toks
<1>1. /\ offers[id].active /\ offers' = [offers EXCEPT ![id] = Closed(offers[id])]
      /\ toks' = toks /\ seq' = seq
  BY DEF CancelOffer
<1>2. /\ offers' \in Seq(Offer) /\ DOMAIN offers' = DOMAIN offers
      /\ Settled(id) /\ offers'[id] = [offers[id] EXCEPT !.active = FALSE]
      /\ \A k \in DOMAIN offers : k # id => offers'[k] = offers[k]
      /\ \A k \in DOMAIN offers : SameTerms(offers[k], offers'[k])
  BY <1>1, OfferCloses
<1>3. SwapTypeOK'
  BY <1>1, <1>2 DEF SwapIInv, SwapTypeOK
<1>4. \A a \in Asset : Lasting(toks'[a]) /\ toks'[a].bal[Swap] = toks[a].bal[Swap]
  BY <1>1 DEF SwapIInv
<1>5. ASSUME NEW a \in Asset, NEW p \in Party
      PROVE  toks'[a].allow[<<p, Swap>>].amount <= toks[a].allow[<<p, Swap>>].amount
  BY <1>1, SwapPullType
<1>6. SwapIInv'
  BY <1>2, <1>3, <1>4, <1>5, SwapFrame
<1>. QED  BY <1>1, <1>6

(* Owners move their balances; no allowance is involved.                   *)
LEMMA OwnTransferStep ==
    ASSUME SwapIInv, NEW asset \in Asset, NEW from \in Party, NEW to \in Party,
           NEW n \in Payments, TokenTransfer(asset, from, to, n)
    PROVE  /\ SwapIInv'
           /\ offers' = offers /\ n \in Nat
           /\ \A a \in Asset : a # asset => toks'[a] = toks[a]
           /\ from = to => toks'[asset].bal = toks[asset].bal
           /\ from # to =>
                 toks'[asset].bal = [toks[asset].bal EXCEPT ![from] = @ - n, ![to] = @ + n]
<1>1. /\ toks \in [Asset -> Storage]
      /\ \A a \in Asset : toks[a] \in Storage /\ Lasting(toks[a])
      /\ offers \in Seq(Offer) /\ DOMAIN offers = 1..Len(offers) /\ Len(offers) \in Nat
      /\ seq \in 1..MaxSeq /\ seq \in Nat \ {0} /\ live \in Nat
      /\ Swap \in Address
  BY SwapFacts
<1>2. /\ n \in Int /\ from \in Address /\ to \in Address /\ from # Swap /\ to # Swap
  BY TermsAssumption, WidthAssumption DEF Party
<1>3. PICK t \in transfer(toks[asset], from, to, n) : toks' = [toks EXCEPT ![asset] = t]
  BY DEF TokenTransfer
<1>4. PICK s : s = toks[asset] /\ s \in Storage /\ Lasting(s)
  BY <1>1
<1>5. /\ n \in Nat
      /\ t \in Storage
      /\ t.allow = s.allow
      /\ n <= s.bal[from]
      /\ Total(t.bal) = Total(s.bal)
  BY <1>2, <1>3, <1>4, TransferOutcome
<1>6. /\ from = to => t.bal = s.bal
      /\ from # to => t.bal = [s.bal EXCEPT ![from] = @ - n, ![to] = @ + n]
  BY <1>2, <1>3, <1>4, TransferBalances
<1>7. /\ toks' \in [Asset -> Storage] /\ toks'[asset] = t
      /\ \A a \in Asset : a # asset => toks'[a] = toks[a]
      /\ offers' = offers /\ seq' = seq
  BY <1>1, <1>3, <1>5 DEF TokenTransfer
<1>8. t.bal[Swap] = s.bal[Swap] /\ Lasting(t)
  BY <1>1, <1>2, <1>4, <1>5, <1>6 DEF Storage, Lasting
<1>9. \A a \in Asset : Lasting(toks'[a]) /\ toks'[a].bal[Swap] = toks[a].bal[Swap]
  BY <1>1, <1>4, <1>7, <1>8
<1>10. \A a \in Asset : toks'[a].allow = toks[a].allow
  BY <1>4, <1>5, <1>7
<1>11. ASSUME NEW a \in Asset, NEW p \in Party
       PROVE  toks'[a].allow[<<p, Swap>>].amount <= toks[a].allow[<<p, Swap>>].amount
  BY <1>10, SwapPullType
<1>12. SwapTypeOK'
  BY <1>1, <1>7 DEF SwapTypeOK
<1>13. SwapIInv'
  BY <1>7, <1>9, <1>11, <1>12, SwapFrame DEF SameTerms
<1>. QED  BY <1>4, <1>5, <1>6, <1>7, <1>13

LEMMA SwapIdle ==
    ASSUME SwapIInv, toks' = toks, offers' = offers, seq' \in 1..MaxSeq
    PROVE  SwapIInv'
BY DEF SwapIInv, SwapTypeOK, PullsAreOffered

LEMMA SwapNextIInv ==
    ASSUME SwapIInv, [SwapNext]_swapVars
    PROVE  SwapIInv'
<1>1. CASE \E offerer \in Party, give, ask \in Asset, m, n \in OfferAmounts :
               CreateOffer(offerer, give, m, ask, n)
  BY <1>1, CreateStep
<1>2. CASE \E entrant \in Party, id \in DOMAIN offers : Execute(entrant, id)
  BY <1>2, ExecuteStep
<1>3. CASE \E offerer \in Party, id \in DOMAIN offers : CancelOffer(offerer, id)
  BY <1>3, CancelStep
<1>4. CASE \E asset \in Asset, from, to \in Party, n \in Payments :
               TokenTransfer(asset, from, to, n)
  BY <1>4, OwnTransferStep
<1>5. CASE CloseLedger
  BY <1>5, SwapFacts, BoundsAssumption, SwapIdle DEF CloseLedger
<1>6. CASE UNCHANGED swapVars
  BY <1>6, SwapFacts, SwapIdle DEF swapVars
<1>. QED  BY <1>1, <1>2, <1>3, <1>4, <1>5, <1>6 DEF SwapNext

LEMMA SwapInvariance == SwapSpec => []SwapIInv
<1>1. SwapIInv /\ [SwapNext]_swapVars => SwapIInv'
  BY SwapNextIInv
<1>. QED  BY <1>1, SwapInitIInv, PTL DEF SwapSpec

(* Storages and offers stay well typed: no offer is ever published on      *)
(* terms a token refuses.                                                  *)
THEOREM SwapTyped == SwapSpec => []SwapTypeOK
<1>1. SwapIInv => SwapTypeOK
  BY DEF SwapIInv
<1>. QED  BY <1>1, SwapInvariance, PTL

(* Whatever the parties offer, execute, cancel and transfer, and however   *)
(* many offers share one allowance, the contract itself holds what it held *)
(* at deployment and can pull from a party at most one of the amounts that *)
(* party offered of that asset (lib.rs:75-84, 126-151).                    *)
THEOREM PullsStayOffered == SwapSpec => []PullsAreOffered
<1>1. SwapIInv => PullsAreOffered
  BY DEF SwapIInv
<1>. QED  BY <1>1, SwapInvariance, PTL

LEMMA OffersStep ==
    ASSUME SwapIInv, [SwapNext]_swapVars, NEW id \in DOMAIN offers
    PROVE  \/ offers'[id] = offers[id]
           \/ Settled(id) /\ offers'[id] = [offers[id] EXCEPT !.active = FALSE]
<1>0. ASSUME NEW k \in DOMAIN offers, offers[k].active,
             offers' = [offers EXCEPT ![k] = Closed(offers[k])]
      PROVE  \/ offers'[id] = offers[id]
             \/ Settled(id) /\ offers'[id] = [offers[id] EXCEPT !.active = FALSE]
  <2>1. /\ offers' \in Seq(Offer) /\ DOMAIN offers' = DOMAIN offers
        /\ Settled(k) /\ offers'[k] = [offers[k] EXCEPT !.active = FALSE]
        /\ \A j \in DOMAIN offers : j # k => offers'[j] = offers[j]
        /\ \A j \in DOMAIN offers : SameTerms(offers[j], offers'[j])
    BY <1>0, OfferCloses
  <2>2. CASE k = id
    BY <2>1, <2>2
  <2>. QED  BY <2>1, <2>2
<1>1. CASE \E offerer \in Party, give, ask \in Asset, m, n \in OfferAmounts :
               CreateOffer(offerer, give, m, ask, n)
  BY <1>1, CreateStep
<1>2. CASE \E entrant \in Party, k \in DOMAIN offers : Execute(entrant, k)
  <2>1. PICK k \in DOMAIN offers :
            offers[k].active /\ offers' = [offers EXCEPT ![k] = Closed(offers[k])]
    BY <1>2 DEF Execute
  <2>. QED  BY <1>0, <2>1
<1>3. CASE \E offerer \in Party, k \in DOMAIN offers : CancelOffer(offerer, k)
  <2>1. PICK k \in DOMAIN offers :
            offers[k].active /\ offers' = [offers EXCEPT ![k] = Closed(offers[k])]
    BY <1>3 DEF CancelOffer
  <2>. QED  BY <1>0, <2>1
<1>4. CASE offers' = offers
  BY <1>4
<1>. QED  BY <1>1, <1>2, <1>3, <1>4 DEF SwapNext, TokenTransfer, CloseLedger, swapVars

(* An offer is settled once, on the terms it was published with.           *)
THEOREM OffersSettleOnce == SwapSpec => OffersAreImmutable
<1>1. SwapIInv /\ [SwapNext]_swapVars =>
          [ \A id \in DOMAIN offers :
                \/ offers'[id] = offers[id]
                \/ Settled(id) /\ offers'[id] = [offers[id] EXCEPT !.active = FALSE] ]_swapVars
  BY OffersStep
<1>. QED  BY <1>1, SwapInvariance, PTL DEF SwapSpec, OffersAreImmutable

LEMMA SwapBalanceType ==
    ASSUME SwapIInv, NEW a \in Asset, NEW p \in Party
    PROVE  /\ toks[a].bal \in [Address -> Held] /\ toks[a].bal[p] \in Nat /\ p \in Address
BY SwapFacts, WidthAssumption DEF Storage, Held, Party

(* What a party is paid for a loss in the asset a by an action.            *)
Exchanged(a, p) ==
    LET gain(asset) == toks'[asset].bal[p] - toks[asset].bal[p] IN
    \/ \E to \in Party : TokenTransfer(a, p, to, -gain(a))
    \/ \E id \in DOMAIN offers :
         LET o == offers[id] IN
         /\ Settled(id)
         /\ \/ /\ p = o.offerer
               /\ a = o.offer_asset /\ gain(a) = -o.offer_amount
               /\ gain(o.ask_asset) = o.ask_amount
            \/ /\ p # o.offerer
               /\ a = o.ask_asset /\ gain(a) = -o.ask_amount
               /\ gain(o.offer_asset) = o.offer_amount

LEMMA ExecuteExchanges ==
    ASSUME SwapIInv, NEW entrant \in Party, NEW id \in DOMAIN offers, Execute(entrant, id),
           NEW a \in Asset, NEW p \in Party, toks'[a].bal[p] < toks[a].bal[p]
    PROVE  Exchanged(a, p)
<1>1. PICK o : o = offers[id]
  OBVIOUS
<1>2. /\ o \in Offer
      /\ o.offerer \in Party /\ o.offer_asset \in Asset
      /\ o.ask_asset \in Asset /\ o.active \in BOOLEAN
      /\ o.offer_asset # o.ask_asset
      /\ o.offer_amount \in Held /\ o.offer_amount \in Nat
      /\ o.ask_amount \in Held /\ o.ask_amount \in Nat
  BY <1>1, OfferFacts
<1>3. LET q == offers[id] IN
      /\ SwapIInv'
      /\ q.active /\ offers' = [offers EXCEPT ![id] = Closed(q)]
      /\ \A x \in Asset : x # q.ask_asset /\ x # q.offer_asset => toks'[x] = toks[x]
      /\ entrant = q.offerer => \A x \in Asset : toks'[x].bal = toks[x].bal
      /\ entrant # q.offerer =>
            /\ toks'[q.ask_asset].bal = [toks[q.ask_asset].bal EXCEPT
                   ![entrant] = @ - q.ask_amount, ![q.offerer] = @ + q.ask_amount]
            /\ toks'[q.offer_asset].bal = [toks[q.offer_asset].bal EXCEPT
                   ![q.offerer] = @ - q.offer_amount, ![entrant] = @ + q.offer_amount]
  BY ExecuteStep
<1>4. Settled(id)
  BY <1>1, <1>3, OfferCloses
<1>5. /\ toks[o.ask_asset].bal \in [Address -> Held]
      /\ toks[o.offer_asset].bal \in [Address -> Held]
      /\ toks[o.ask_asset].bal[p] \in Nat /\ toks[o.offer_asset].bal[p] \in Nat
      /\ toks[a].bal[p] \in Nat /\ p \in Address /\ o.offerer \in Address /\ entrant \in Address
  BY <1>2, SwapBalanceType
<1>6. entrant # o.offerer
  BY <1>1, <1>3, <1>5
<1>7. PICK ask, ask2, give, give2 :
          /\ ask = toks[o.ask_asset].bal /\ ask2 = toks'[o.ask_asset].bal
          /\ give = toks[o.offer_asset].bal /\ give2 = toks'[o.offer_asset].bal
  OBVIOUS
<1>8. /\ ask2 = [ask EXCEPT ![entrant] = @ - o.ask_amount, ![o.offerer] = @ + o.ask_amount]
      /\ give2 = [give EXCEPT ![o.offerer] = @ - o.offer_amount, ![entrant] = @ + o.offer_amount]
      /\ ask \in [Address -> Held] /\ give \in [Address -> Held]
      /\ ask[p] \in Nat /\ give[p] \in Nat
  BY <1>1, <1>3, <1>5, <1>6, <1>7
<1>9. /\ p = entrant => ask2[p] = ask[p] - o.ask_amount /\ give2[p] = give[p] + o.offer_amount
      /\ p = o.offerer => ask2[p] = ask[p] + o.ask_amount /\ give2[p] = give[p] - o.offer_amount
      /\ p # entrant /\ p # o.offerer => ask2[p] = ask[p] /\ give2[p] = give[p]
  BY <1>5, <1>6, <1>8
<1>10. a = o.ask_asset \/ a = o.offer_asset
  BY <1>1, <1>3, <1>5
<1>11. PICK m, n, i, j, i2, j2 :
           /\ m = o.ask_amount /\ n = o.offer_amount
           /\ i = toks[o.ask_asset].bal[p] /\ i2 = toks'[o.ask_asset].bal[p]
           /\ j = toks[o.offer_asset].bal[p] /\ j2 = toks'[o.offer_asset].bal[p]
  OBVIOUS
<1>12. /\ i \in Nat /\ j \in Nat /\ m \in Nat /\ n \in Nat
       /\ p = entrant => i2 = i - m /\ j2 = j + n
       /\ p = o.offerer => i2 = i + m /\ j2 = j - n
       /\ p # entrant /\ p # o.offerer => i2 = i /\ j2 = j
  BY <1>2, <1>5, <1>7, <1>9, <1>11
<1>13. /\ a = o.ask_asset => i2 < i
       /\ a = o.offer_asset => j2 < j
  BY <1>11
<1>14. CASE p = entrant
  <2>1. a = o.ask_asset /\ i2 - i = -m /\ j2 - j = n
    BY <1>10, <1>12, <1>13, <1>14
  <2>. QED  BY <1>1, <1>4, <1>6, <1>11, <1>14, <2>1 DEF Exchanged
<1>15. CASE p = o.offerer
  <2>1. a = o.offer_asset /\ j2 - j = -n /\ i2 - i = m
    BY <1>10, <1>12, <1>13, <1>15
  <2>. QED  BY <1>1, <1>4, <1>11, <1>15, <2>1 DEF Exchanged
<1>16. CASE p # entrant /\ p # o.offerer
  BY <1>10, <1>12, <1>13, <1>16
<1>. QED  BY <1>14, <1>15, <1>16

LEMMA TransferExchanges ==
    ASSUME SwapIInv, NEW asset \in Asset, NEW from \in Party, NEW to \in Party,
           NEW n \in Payments, TokenTransfer(asset, from, to, n),
           NEW a \in Asset, NEW p \in Party, toks'[a].bal[p] < toks[a].bal[p]
    PROVE  Exchanged(a, p)
<1>1. /\ SwapIInv'
      /\ offers' = offers /\ n \in Nat
      /\ \A x \in Asset : x # asset => toks'[x] = toks[x]
      /\ from = to => toks'[asset].bal = toks[asset].bal
      /\ from # to =>
            toks'[asset].bal = [toks[asset].bal EXCEPT ![from] = @ - n, ![to] = @ + n]
  BY OwnTransferStep
<1>2. /\ toks[asset].bal \in [Address -> Held] /\ toks[a].bal[p] \in Nat
      /\ p \in Address /\ from \in Address /\ to \in Address
  BY SwapBalanceType
<1>3. a = asset /\ from # to
  BY <1>1, <1>2
<1>4. p = from /\ toks'[a].bal[p] = toks[a].bal[p] - n
  BY <1>1, <1>2, <1>3
<1>5. -(toks'[a].bal[p] - toks[a].bal[p]) = n
  BY <1>1, <1>2, <1>4
<1>. QED  BY <1>3, <1>4, <1>5 DEF Exchanged

LEMMA LossStep ==
    ASSUME SwapIInv, [SwapNext]_swapVars, NEW a \in Asset, NEW p \in Party,
           toks'[a].bal[p] - toks[a].bal[p] < 0
    PROVE  Exchanged(a, p)
<1>1. toks[a].bal[p] \in Nat /\ toks'[a].bal[p] \in Nat
  <2>1. SwapIInv'
    BY SwapNextIInv
  <2>2. toks'[a] \in Storage /\ toks[a] \in Storage /\ p \in Address
    BY <2>1, SwapBalanceType DEF SwapIInv, SwapTypeOK
  <2>. QED  BY <2>2, WidthAssumption DEF Storage, Held
<1>2. toks'[a].bal[p] < toks[a].bal[p]
  BY <1>1
<1>3. CASE \E offerer \in Party, give, ask \in Asset, m, n \in OfferAmounts :
               CreateOffer(offerer, give, m, ask, n)
  <2>1. toks'[a].bal = toks[a].bal
    BY <1>3, CreateStep
  <2>. QED  BY <1>1, <1>2, <2>1
<1>4. CASE \E entrant \in Party, id \in DOMAIN offers : Execute(entrant, id)
  BY <1>2, <1>4, ExecuteExchanges
<1>5. CASE \E asset \in Asset, from, to \in Party, n \in Payments :
               TokenTransfer(asset, from, to, n)
  BY <1>2, <1>5, TransferExchanges
<1>6. CASE toks' = toks
  BY <1>1, <1>2, <1>6
<1>. QED  BY <1>3, <1>4, <1>5, <1>6 DEF SwapNext, CancelOffer, CloseLedger, swapVars

(* Nobody loses by a swap: where a party is left with less of an asset, it *)
(* transferred that much itself, or an offer settled in the same step and  *)
(* gave the party exactly what the offer names in the other asset.         *)
THEOREM LossesAreExchanged == SwapSpec => LossIsExchanged
<1>1. SwapIInv /\ [SwapNext]_swapVars =>
        [ \A a \in Asset, p \in Party :
          LET gain(asset) == toks'[asset].bal[p] - toks[asset].bal[p] IN
          gain(a) < 0 =>
            \/ \E to \in Party : TokenTransfer(a, p, to, -gain(a))
            \/ \E id \in DOMAIN offers :
                 LET o == offers[id] IN
                 /\ Settled(id)
                 /\ \/ /\ p = o.offerer
                       /\ a = o.offer_asset /\ gain(a) = -o.offer_amount
                       /\ gain(o.ask_asset) = o.ask_amount
                    \/ /\ p # o.offerer
                       /\ a = o.ask_asset /\ gain(a) = -o.ask_amount
                       /\ gain(o.offer_asset) = o.offer_amount ]_swapVars
  BY LossStep DEF Exchanged
<1>. QED  BY <1>1, SwapInvariance, PTL DEF SwapSpec, LossIsExchanged

=============================================================================
