------------------------------- MODULE Staking -------------------------------
(***************************************************************************)
(* The single-asset staking pool (contracts/staking).  Stakes and rewards  *)
(* are the same asset in one balance of the contract; rewards accrue by    *)
(* the second at a rate fixed when they are funded, in proportion to the   *)
(* stakes, through an accumulated reward per token.                        *)
(*                                                                         *)
(* As in Sep41, a computation that can overflow i128 is the set of its     *)
(* results, empty when it panics.                                          *)
(***************************************************************************)
EXTENDS Sep41

CONSTANTS
    Pool,           \* the contract's own address
    PRECISION,      \* 10^18
    Duration,       \* length of a reward period in seconds
    Endowment,      \* what each address holds at deployment
    Amounts,        \* the amounts an invocation may carry
    MaxTime         \* bound: the last second explored

ASSUME PoolAssumption      == Pool \in Address
ASSUME ScaleAssumption     == PRECISION \in Nat \ {0} /\ Duration \in Nat \ {0}
ASSUME EndowmentAssumption == Endowment \in [Address -> Held]
ASSUME AmountsAssumption   == Amounts \subseteq (-MaxI128 - 1) .. MaxI128
ASSUME TimeAssumption      == MaxTime \in Nat \ {0}

VARIABLES
    tok,            \* the asset's storage
    pool,           \* the contract's instance storage
    now             \* the ledger timestamp

vars == <<tok, pool, now>>

User == Address \ {Pool}

PoolState == [rate : Held, finish : Nat, last : Nat, total : Held, rpt : Held,
              balances : [User -> Held], rewards : [User -> Held], paid : [User -> Held]]

(* A duration of zero is refused by the constructor.                       *)
Init ==
    /\ now = 1
    /\ tok = [EmptyStorage EXCEPT !.bal = Endowment]
    /\ LET zero == [u \in User |-> 0] IN
       pool = [rate |-> 0, finish |-> 0, last |-> now, total |-> 0, rpt |-> 0,
               balances |-> zero, rewards |-> zero, paid |-> zero]

-----------------------------------------------------------------------------
(* Accrual *)

Fits(S) == {n \in S : n <= MaxI128}

\* mutant: the end of the period is ignored
last_time_uncapped(s) == now

last_time_applicable(s) == IF now < s.finish THEN now ELSE s.finish

\* mutant: the rate is not shared among the stakes
reward_per_token_unshared(s) ==
    IF s.total = 0 THEN {s.rpt}
    ELSE LET dt == last_time_applicable(s) - s.last IN
         Fits({s.rpt + scaled : scaled \in Fits({dt * s.rate * PRECISION})})

reward_per_token(s) ==
    IF s.total = 0 THEN {s.rpt}
    ELSE LET dt == last_time_applicable(s) - s.last IN
         Fits({s.rpt + (scaled \div s.total) : scaled \in Fits({dt * s.rate * PRECISION})})

accrued(s, u) ==
    Fits({s.rewards[u] + (scaled \div PRECISION) :
              scaled \in Fits({s.balances[u] * (rpt - s.paid[u]) : rpt \in reward_per_token(s)})})

\* mutant: the user's checkpoint is not moved
update_reward_unpaid(s, u) ==
    UNION { LET global == [s EXCEPT !.rpt = rpt, !.last = last_time_applicable(s)] IN
            {[global EXCEPT !.rewards[u] = due] : due \in accrued(global, u)} :
            rpt \in reward_per_token(s) }

(* The global accumulator is stored before the user's share is computed    *)
(* from it.                                                                *)
update_reward(s, u) ==
    UNION { LET global == [s EXCEPT !.rpt = rpt, !.last = last_time_applicable(s)] IN
            {[global EXCEPT !.rewards[u] = due, !.paid[u] = rpt] : due \in accrued(global, u)} :
            rpt \in reward_per_token(s) }

-----------------------------------------------------------------------------
(* The operations: the sets of [pool, tok] they can leave behind.          *)

World(s, T) == {[pool |-> s, tok |-> t] : t \in T}

\* mutant: what is left of the period is dropped
RateAfter_dropped(s, n) == {n \div Duration}

RateAfter(s, n) ==
    IF now >= s.finish THEN {n \div Duration}
    ELSE {funds \div Duration :
              funds \in Fits({n + leftover : leftover \in Fits({(s.finish - now) * s.rate})})}

\* mutant: the rate changes before the accrual is stored
fund_rewards_unstored(from, n) ==
    IF n <= 0 THEN Panic
    ELSE UNION { World([pool EXCEPT !.rate = rate, !.finish = now + Duration, !.last = now],
                       transfer(tok, from, Pool, n)) : rate \in RateAfter(pool, n) }

fund_rewards(from, n) ==
    IF n <= 0 THEN Panic
    ELSE UNION { UNION { World([s EXCEPT !.rate = rate, !.finish = now + Duration, !.last = now],
                               transfer(tok, from, Pool, n)) : rate \in RateAfter(s, n) } :
                 s \in update_reward(pool, from) }

Deposited(s, from, n) == [s EXCEPT !.balances[from] = @ + n, !.total = @ + n]

stake(from, n) ==
    IF n <= 0 THEN Panic
    ELSE UNION { World(Deposited(s, from, n), transfer(tok, from, Pool, n)) :
                 s \in {s \in update_reward(pool, from) : s.total + n <= MaxI128} }

(* What is pending is zeroed and paid; nothing pending makes no call.      *)
pay_pending(s, t, to) ==
    World([s EXCEPT !.rewards[to] = 0],
          IF s.rewards[to] > 0 THEN transfer(t, Pool, to, s.rewards[to]) ELSE {t})

claim(from) == UNION {pay_pending(s, tok, from) : s \in update_reward(pool, from)}

Out(n, current) == IF n > current THEN current ELSE n

unstake(from, n) ==
    IF n <= 0 THEN Panic
    ELSE UNION { LET out == Out(n, w.pool.balances[from])
                 IN  World([w.pool EXCEPT !.balances[from] = @ - out, !.total = @ - out],
                           IF out > 0 THEN transfer(w.tok, Pool, from, out) ELSE {w.tok}) :
                 w \in claim(from) }

-----------------------------------------------------------------------------
Becomes(W) == \E w \in W : pool' = w.pool /\ tok' = w.tok

\* authorized by from, whoever that is
FundRewards(from, n) == Becomes(fund_rewards(from, n)) /\ UNCHANGED now

Stake(from, n) == Becomes(stake(from, n)) /\ UNCHANGED now

Unstake(from, n) == Becomes(unstake(from, n)) /\ UNCHANGED now

Claim(from) == Becomes(claim(from)) /\ UNCHANGED now

(* A ledger that closes several seconds later is several of these.         *)
Second ==
    /\ now < MaxTime
    /\ now' = now + 1
    /\ UNCHANGED <<tok, pool>>

Next ==
    \/ \E from \in User, n \in Amounts : FundRewards(from, n)
    \/ \E from \in User, n \in Amounts : Stake(from, n)
    \/ \E from \in User, n \in Amounts : Unstake(from, n)
    \/ \E from \in User : Claim(from)
    \/ Second

Spec == Init /\ [][Next]_vars

-----------------------------------------------------------------------------
(* The pool's record is well typed: nothing goes below zero or wraps.      *)
TypeOK ==
    /\ tok \in Storage
    /\ pool \in PoolState
    /\ now \in 1..MaxTime

(* What a user would be paid now; no overflow is assumed.                  *)
earned(u) == CHOOSE n \in accrued(pool, u) : TRUE

(* The rest of the running period, at its rate.                            *)
Undistributed == IF now < pool.finish THEN (pool.finish - now) * pool.rate ELSE 0

(* The contract holds every stake, everything earned and the rest of the   *)
(* period: rounding, top-ups, late and early stakers never make it promise *)
(* more than it has, so no reward is ever paid from a stake                *)
(* (lib.rs:174-239).                                                       *)
Solvent ==
    tok.bal[Pool] >= pool.total + Total([u \in User |-> earned(u)]) + Undistributed

(* What the contract holds besides the stakes. *)
RewardFunds == tok.bal[Pool] - pool.total

(* What a user has earned is kept: whatever anyone does, at that instant   *)
(* nobody's earnings change, unless they are paid out in full; and while   *)
(* time passes they do not fall (lib.rs:195-207, 271-279).  So is what is  *)
(* yet to be earned: a top-up spreads what it brings and all that was left *)
(* of the period over the new one, to less than a unit per second, and     *)
(* nothing else changes what is left (lib.rs:218-239).                     *)
EarningsAreKept ==
    [][ /\ \A u \in User :
             \/ earned(u)' = earned(u)
             \/ earned(u)' > earned(u) /\ now' > now
             \/ earned(u)' = 0 /\ tok'.bal[u] >= tok.bal[u] + earned(u)
        /\ LET funded == RewardFunds' - RewardFunds
               lost   == Undistributed + funded - Undistributed'
           IN  now' = now =>
                   IF funded > 0 THEN lost \in 0..(Duration - 1)
                   ELSE Undistributed' = Undistributed ]_vars

(* In a second of the period a user earns its share of the rate, to less   *)
(* than one unit on either side plus the precision's rounding              *)
(* (lib.rs:5-9).                                                           *)
AccrualIsProportional ==
    [][ now' > now =>
          \A u \in User :
              LET gain  == (earned(u)' - earned(u)) * pool.total * PRECISION
                  share == IF now < pool.finish THEN pool.balances[u] * pool.rate * PRECISION ELSE 0
                  slack == pool.total * (pool.balances[u] + PRECISION)
              IN  pool.total > 0 => gain - share \in (-slack) .. slack ]_vars

(* A staker can always have its stake back (lib.rs:261-263).               *)
StakeIsReturned ==
    \A u \in User : pool.balances[u] > 0 => unstake(u, pool.balances[u]) # Panic

=============================================================================
