--------------------------- MODULE CrowdfundProofs ---------------------------
(***************************************************************************)
(* The campaigns of one asset share one balance and stay apart to the unit,*)
(* for every number of campaigns, people and assets.                       *)
(***************************************************************************)
EXTENDS Crowdfund, Sep41Proofs

(* The record agrees with itself: only what succeeded was withdrawn, and   *)
(* the recorded total is the sum of the contributions until refunds start. *)
Consistent(c) ==
    /\ c.withdrawn => Ended(c) /\ goal_reached(c)
    /\ ~Ended(c) \/ goal_reached(c) => c.total = Total(c.contributions)

Typed ==
    /\ TypeOK
    /\ \A a \in Asset : Lasting(toks[a])

Kept ==
    /\ Typed
    /\ NoStandingApproval
    /\ \A id \in DOMAIN campaigns : Consistent(campaigns[id])

Balanced == HoldingsAreOwed /\ EveryoneIsWhole

-----------------------------------------------------------------------------
(* What a call does to the asset *)

(* Funds paid out of the pool.                                             *)
LEMMA PaidOut ==
    ASSUME NEW t \in Storage, Lasting(t), NEW p \in Person, NEW n \in Held,
           NEW u \in transfer(t, Fund, p, n)
    PROVE  /\ u \in Storage /\ Lasting(u)
           /\ u.allow = t.allow
           /\ n <= t.bal[Fund]
           /\ u.bal[Fund] = t.bal[Fund] - n
           /\ u.bal[p] = t.bal[p] + n
           /\ \A q \in Person : q # p => u.bal[q] = t.bal[q]
           /\ Total(u.bal) = Total(t.bal)
<1>1. n \in Int /\ Fund \in Address /\ p \in Address /\ p # Fund
  BY FundAssumption, WidthAssumption DEF Held, Person
<1>2. /\ n \in Nat
      /\ u \in Storage
      /\ u.allow = t.allow
      /\ n <= t.bal[Fund]
      /\ Total(u.bal) = Total(t.bal)
  BY <1>1, TransferOutcome
<1>3. /\ Fund = p => u.bal = t.bal
      /\ Fund # p => u.bal = [t.bal EXCEPT ![Fund] = @ - n, ![p] = @ + n]
  BY <1>1, TransferBalances
<1>4. t.bal \in [Address -> Held]
  BY DEF Storage
<1>5. Lasting(u)
  BY <1>2 DEF Lasting
<1>. QED  BY <1>1, <1>2, <1>3, <1>4, <1>5 DEF Person

(* A contribution: the approval is used up by the pull.                    *)
LEMMA PulledIn ==
    ASSUME NEW t \in Storage, Lasting(t), \A p \in Person : t.allow[<<p, Fund>>].amount = 0,
           now \in Nat \ {0}, NEW q \in Person, NEW n \in Held, n > 0, NEW x \in Nat,
           NEW v \in Pulled(t, q, n, x)
    PROVE  /\ v \in Storage /\ Lasting(v)
           /\ \A p \in Person : v.allow[<<p, Fund>>].amount = 0
           /\ n <= t.bal[q]
           /\ v.bal[Fund] = t.bal[Fund] + n
           /\ v.bal[q] = t.bal[q] - n
           /\ \A p \in Person : p # q => v.bal[p] = t.bal[p]
           /\ Total(v.bal) = Total(t.bal)
<1>1. /\ n \in Int /\ n \in Nat /\ Fund \in Address /\ q \in Address /\ q # Fund
      /\ <<q, Fund>> \in Pair
  BY FundAssumption, WidthAssumption DEF Held, Person, Pair
<1>2. PICK u \in write_allowance(t, now, <<q, Fund>>, n, x) :
          v \in transfer_from(u, now, Fund, q, Fund, n)
  BY DEF Pulled, approve, Panic
<1>3. /\ u \in Storage
      /\ Lasting(u)
      /\ u.bal = t.bal
      /\ n > 0 => x >= now
      /\ u.allow[<<q, Fund>>].amount = n
      /\ u.allow[<<q, Fund>>].expiration = x
      /\ \A r \in Pair : r # <<q, Fund>> => u.allow[r] = t.allow[r]
  BY <1>1, <1>2, WriteAllowanceOutcome
<1>4. /\ n \in Nat
      /\ v \in Storage
      /\ Lasting(v)
      /\ \E w \in spend_allowance(u, now, <<q, Fund>>, n) :
             w \in Storage /\ w.bal = u.bal /\ v.allow = w.allow /\ v \in transfer(w, q, Fund, n)
  BY <1>1, <1>2, <1>3, TransferFromOutcome
<1>5. PICK w \in spend_allowance(u, now, <<q, Fund>>, n) :
          w \in Storage /\ w.bal = u.bal /\ v.allow = w.allow /\ v \in transfer(w, q, Fund, n)
  BY <1>4
<1>6. /\ w \in Storage
      /\ Lasting(w)
      /\ w.bal = u.bal
      /\ n = 0 => w = u
      /\ n > 0 => /\ u.allow[<<q, Fund>>].expiration >= now
                  /\ n <= u.allow[<<q, Fund>>].amount
                  /\ w.allow[<<q, Fund>>].amount = u.allow[<<q, Fund>>].amount - n
                  /\ w.allow[<<q, Fund>>].expiration = u.allow[<<q, Fund>>].expiration
                  /\ \A r \in Pair : r # <<q, Fund>> => w.allow[r] = u.allow[r]
  BY <1>1, <1>3, <1>5, SpendAllowanceOutcome
<1>7. \A p \in Person : v.allow[<<p, Fund>>].amount = 0
  <2>1. v.allow[<<q, Fund>>].amount = 0
    BY <1>1, <1>3, <1>5, <1>6
  <2>2. \A p \in Person : p # q => v.allow[<<p, Fund>>].amount = 0
    <3>1. TAKE p \in Person
    <3>2. HAVE p # q
    <3>3. <<p, Fund>> \in Pair /\ <<p, Fund>> # <<q, Fund>>
      BY <1>1, <3>2 DEF Pair, Person
    <3>4. v.allow[<<p, Fund>>] = t.allow[<<p, Fund>>]
      BY <1>3, <1>5, <1>6, <3>3
    <3>. QED  BY <3>4
  <2>. QED  BY <2>1, <2>2
<1>8. n <= w.bal[q] /\ Total(v.bal) = Total(w.bal)
  <2>1. /\ n \in Nat
        /\ v \in Storage
        /\ v.allow = w.allow
        /\ n <= w.bal[q]
        /\ Total(v.bal) = Total(w.bal)
    BY <1>1, <1>5, TransferOutcome
  <2>. QED  BY <2>1
<1>9. /\ q = Fund => v.bal = w.bal
      /\ q # Fund => v.bal = [w.bal EXCEPT ![q] = @ - n, ![Fund] = @ + n]
  BY <1>1, <1>5, TransferBalances
<1>10. w.bal = t.bal /\ t.bal \in [Address -> Held]
  BY <1>3, <1>5 DEF Storage
<1>. QED  BY <1>1, <1>4, <1>7, <1>8, <1>9, <1>10 DEF Person

-----------------------------------------------------------------------------
(* Sums over the campaigns *)

LEMMA Finite ==
    ASSUME TypeOK
    PROVE  /\ IsFiniteSet(Person)
           /\ \A a \in Asset : IsFiniteSet(InAsset(a))
<1>1. IsFiniteSet(Person)
  BY AddressAssumption, FS_Subset DEF Person
<1>2. DOMAIN campaigns = 1..Len(campaigns) /\ Len(campaigns) \in Nat
  BY DEF TypeOK
<1>3. IsFiniteSet(DOMAIN campaigns)
  BY <1>2, FS_Interval
<1>4. \A a \in Asset : InAsset(a) \in SUBSET DOMAIN campaigns
  BY DEF InAsset
<1>. QED  BY <1>1, <1>3, <1>4, FS_Subset

LEMMA CampaignType ==
    ASSUME NEW c \in Campaign
    PROVE  /\ c.owner \in Person /\ c.asset \in Asset /\ c.goal \in Nat /\ c.deadline \in Nat
           /\ c.total \in Held /\ c.total \in Nat /\ c.withdrawn \in BOOLEAN
           /\ c.contributions \in [Person -> Held]
           /\ c.contributions \in [Person -> Nat]
           /\ Total(c.contributions) \in Nat
           /\ Owed(c) \in Nat
<1>1. IsFiniteSet(Person)
  BY AddressAssumption, FS_Subset DEF Person
<1>2. /\ c.owner \in Person /\ c.asset \in Asset /\ c.goal \in Nat /\ c.deadline \in Nat
      /\ c.total \in Held /\ c.total \in Nat /\ c.withdrawn \in BOOLEAN
      /\ c.contributions \in [Person -> Held]
      /\ c.contributions \in [Person -> Nat]
  BY WidthAssumption DEF Campaign, Held
<1>3. Total(c.contributions) \in Nat
  BY <1>1, <1>2, TotalType
<1>. QED  BY <1>2, <1>3 DEF Owed

Taken(c, p) == IF c.withdrawn /\ c.owner = p THEN c.total ELSE 0

(* A step that replaces the record c of one campaign of the asset a by d    *)
(* moves each measure of that asset by the difference in that campaign.     *)
Moves(a, c, d) ==
    /\ Total(OwedIn(a)) \in Nat
    /\ Total(OwedIn(a)') = Total(OwedIn(a)) - Owed(c) + Owed(d)
    /\ \A p \in Person :
          /\ Total(GivenBy(a, p)) \in Nat /\ Total(WithdrawnBy(a, p)) \in Nat
          /\ Total(GivenBy(a, p)') = Total(GivenBy(a, p)) - c.contributions[p] + d.contributions[p]
          /\ Total(WithdrawnBy(a, p)') = Total(WithdrawnBy(a, p)) - Taken(c, p) + Taken(d, p)
    /\ \A b \in Asset : b # a =>
          /\ OwedIn(b)' = OwedIn(b)
          /\ \A p \in Person : /\ GivenBy(b, p)' = GivenBy(b, p)
                               /\ WithdrawnBy(b, p)' = WithdrawnBy(b, p)

LEMMA Replaced ==
    ASSUME TypeOK, NEW id \in DOMAIN campaigns, NEW d \in Campaign,
           NEW c \in Campaign, c = campaigns[id], NEW a \in Asset, a = c.asset, d.asset = a,
           campaigns' = [campaigns EXCEPT ![id] = d], TypeOK'
    PROVE  Moves(a, c, d)
<1>1. /\ DOMAIN campaigns' = DOMAIN campaigns
      /\ campaigns'[id] = d
      /\ \A i \in DOMAIN campaigns : i # id => campaigns'[i] = campaigns[i]
  BY DEF TypeOK
<1>2. \A b \in Asset : InAsset(b)' = InAsset(b)
  BY <1>1 DEF InAsset
<1>3. c \in Campaign /\ a \in Asset /\ id \in InAsset(a) /\ IsFiniteSet(InAsset(a))
  <2>1. c \in Campaign
    BY DEF TypeOK
  <2>. QED  BY <2>1, CampaignType, Finite DEF InAsset
<1>4. \A i \in InAsset(a) : campaigns[i] \in Campaign /\ campaigns'[i] \in Campaign
  BY <1>1 DEF TypeOK, InAsset
<1>5. \A i \in InAsset(a) : i # id => campaigns'[i] = campaigns[i]
  BY <1>1 DEF InAsset
<1>6. Total(OwedIn(a)) \in Nat /\ Total(OwedIn(a)') = Total(OwedIn(a)) - Owed(c) + Owed(d)
  <2>. DEFINE f == OwedIn(a)
              g == OwedIn(a)'
  <2>1. \A i \in InAsset(a) : Owed(campaigns[i]) \in Nat /\ Owed(campaigns'[i]) \in Nat
    BY <1>4, CampaignType
  <2>2. f = [i \in InAsset(a) |-> Owed(campaigns[i])]
    BY DEF OwedIn
  <2>3. g = [i \in InAsset(a) |-> Owed(campaigns'[i])]
    BY <1>2, <1>3 DEF OwedIn, Owed
  <2>. HIDE DEF f, g
  <2>4. /\ f \in [InAsset(a) -> Nat] /\ g \in [InAsset(a) -> Nat]
        /\ \A i \in InAsset(a) : i # id => g[i] = f[i]
        /\ f[id] = Owed(c) /\ g[id] = Owed(d)
    BY <1>1, <1>3, <1>5, <2>1, <2>2, <2>3
  <2>5. /\ Total(f) \in Nat /\ Total(g) \in Nat
        /\ Total(g) = Total(f) - f[id] + g[id]
    BY <1>3, <2>4, TotalChange
  <2>. QED  BY <2>4, <2>5 DEF f, g
<1>7. ASSUME NEW p \in Person
      PROVE  /\ Total(GivenBy(a, p)) \in Nat
             /\ Total(GivenBy(a, p)')
                  = Total(GivenBy(a, p)) - c.contributions[p] + d.contributions[p]
  <2>. DEFINE f == GivenBy(a, p)
              g == GivenBy(a, p)'
  <2>1. \A i \in InAsset(a) : /\ campaigns[i].contributions[p] \in Nat
                              /\ campaigns'[i].contributions[p] \in Nat
    BY <1>4, CampaignType
  <2>2. f = [i \in InAsset(a) |-> campaigns[i].contributions[p]]
    BY DEF GivenBy
  <2>3. g = [i \in InAsset(a) |-> campaigns'[i].contributions[p]]
    BY <1>2, <1>3 DEF GivenBy
  <2>. HIDE DEF f, g
  <2>4. /\ f \in [InAsset(a) -> Nat] /\ g \in [InAsset(a) -> Nat]
        /\ \A i \in InAsset(a) : i # id => g[i] = f[i]
        /\ f[id] = c.contributions[p] /\ g[id] = d.contributions[p]
    BY <1>1, <1>3, <1>5, <2>1, <2>2, <2>3
  <2>5. /\ Total(f) \in Nat /\ Total(g) \in Nat
        /\ Total(g) = Total(f) - f[id] + g[id]
    BY <1>3, <2>4, TotalChange
  <2>. QED  BY <2>4, <2>5 DEF f, g
<1>8. ASSUME NEW p \in Person
      PROVE  /\ Total(WithdrawnBy(a, p)) \in Nat
             /\ Total(WithdrawnBy(a, p)')
                  = Total(WithdrawnBy(a, p)) - Taken(c, p) + Taken(d, p)
  <2>. DEFINE f == WithdrawnBy(a, p)
              g == WithdrawnBy(a, p)'
  <2>1. \A i \in InAsset(a) : Taken(campaigns[i], p) \in Nat /\ Taken(campaigns'[i], p) \in Nat
    BY <1>4, CampaignType DEF Taken
  <2>2. f = [i \in InAsset(a) |-> Taken(campaigns[i], p)]
    BY DEF WithdrawnBy, Taken
  <2>3. g = [i \in InAsset(a) |-> Taken(campaigns'[i], p)]
    BY <1>2, <1>3 DEF WithdrawnBy, Taken
  <2>. HIDE DEF f, g
  <2>4. /\ f \in [InAsset(a) -> Nat] /\ g \in [InAsset(a) -> Nat]
        /\ \A i \in InAsset(a) : i # id => g[i] = f[i]
        /\ f[id] = Taken(c, p) /\ g[id] = Taken(d, p)
    BY <1>1, <1>3, <1>5, <2>1, <2>2, <2>3
  <2>5. /\ Total(f) \in Nat /\ Total(g) \in Nat
        /\ Total(g) = Total(f) - f[id] + g[id]
    BY <1>3, <2>4, TotalChange
  <2>. QED  BY <2>4, <2>5 DEF f, g
<1>9. ASSUME NEW b \in Asset, b # a
      PROVE  /\ OwedIn(b)' = OwedIn(b)
             /\ \A p \in Person : /\ GivenBy(b, p)' = GivenBy(b, p)
                                  /\ WithdrawnBy(b, p)' = WithdrawnBy(b, p)
  <2>1. \A i \in InAsset(b) : campaigns'[i] = campaigns[i]
    BY <1>1, <1>3, <1>9 DEF InAsset
  <2>2. OwedIn(b)' = OwedIn(b)
    BY <1>2, <2>1 DEF OwedIn, Owed
  <2>3. \A p \in Person : GivenBy(b, p)' = GivenBy(b, p)
    BY <1>2, <2>1 DEF GivenBy
  <2>4. \A p \in Person : WithdrawnBy(b, p)' = WithdrawnBy(b, p)
    BY <1>2, <2>1 DEF WithdrawnBy
  <2>. QED  BY <2>2, <2>3, <2>4
<1>. QED  BY <1>6, <1>7, <1>8, <1>9 DEF Moves

-----------------------------------------------------------------------------
(* What the calls have in common *)

(* One campaign's record and the pool of its asset move together.          *)
Settles(id, d, v) ==
    LET c == campaigns[id]
        t == toks[c.asset]
    IN  /\ toks' = [toks EXCEPT ![c.asset] = v]
        /\ campaigns' = [campaigns EXCEPT ![id] = d]
        /\ now' = now
        /\ Lasting(v)
        /\ \A p \in Person : v.allow[<<p, Fund>>].amount = 0
        /\ d.asset = c.asset /\ d.deadline = c.deadline /\ d.goal = c.goal
        /\ Ended(c) => d.total = c.total
        /\ c.withdrawn => d.withdrawn
        /\ Consistent(d)
        /\ Total(v.bal) = Total(t.bal)
        /\ v.bal[Fund] = t.bal[Fund] - Owed(c) + Owed(d)
        /\ \A p \in Person : v.bal[p] - Taken(d, p) + d.contributions[p]
                             = t.bal[p] - Taken(c, p) + c.contributions[p]

LEMMA KeptFacts ==
    ASSUME Kept, NEW id \in DOMAIN campaigns
    PROVE  /\ campaigns[id] \in Campaign /\ Consistent(campaigns[id])
           /\ campaigns[id].asset \in Asset
           /\ toks[campaigns[id].asset] \in Storage /\ Lasting(toks[campaigns[id].asset])
           /\ \A p \in Person : toks[campaigns[id].asset].allow[<<p, Fund>>].amount = 0
           /\ \A a \in Address : toks[campaigns[id].asset].bal[a] \in Nat
           /\ Fund \in Address /\ Person \subseteq Address
           /\ now \in Nat \ {0}
<1>1. campaigns[id] \in Campaign /\ campaigns[id].asset \in Asset
  <2>1. campaigns[id] \in Campaign
    BY DEF Kept, Typed, TypeOK
  <2>. QED  BY <2>1, CampaignType
<1>2. toks[campaigns[id].asset] \in Storage
  BY <1>1 DEF Kept, Typed, TypeOK
<1>3. \A a \in Address : toks[campaigns[id].asset].bal[a] \in Nat
  BY <1>2, WidthAssumption DEF Storage, Held
<1>. QED
  BY <1>1, <1>2, <1>3, FundAssumption, BoundsAssumption
     DEF Kept, Typed, TypeOK, NoStandingApproval, Person

LEMMA ContributeSettles ==
    ASSUME Kept, NEW id \in DOMAIN campaigns, NEW q \in Person, NEW n \in Amounts,
           NEW ahead \in Expirations, Contribute(id, q, n, now + ahead)
    PROVE  \E d \in Campaign, v \in Storage : Settles(id, d, v)
<1>. DEFINE c == campaigns[id]
            t == toks[c.asset]
            x == now + ahead
            d == Contributed(c, q, n)
<1>1. /\ c \in Campaign /\ Consistent(c)
      /\ c.asset \in Asset
      /\ t \in Storage /\ Lasting(t)
      /\ \A p \in Person : t.allow[<<p, Fund>>].amount = 0
      /\ \A a \in Address : t.bal[a] \in Nat
      /\ Fund \in Address /\ Person \subseteq Address
      /\ now \in Nat \ {0}
  BY KeptFacts
<1>2. /\ c.owner \in Person /\ c.asset \in Asset /\ c.goal \in Nat /\ c.deadline \in Nat
      /\ c.total \in Held /\ c.total \in Nat /\ c.withdrawn \in BOOLEAN
      /\ c.contributions \in [Person -> Held]
      /\ c.contributions \in [Person -> Nat]
      /\ Total(c.contributions) \in Nat
      /\ Owed(c) \in Nat
  BY <1>1, CampaignType
<1>3. n \in Held /\ n \in Nat /\ n > 0 /\ x \in Nat
  <2>1. n > 0 /\ x > now
    BY DEF Contribute, check_expiration
  <2>. QED  BY <1>1, <2>1, AmountsAssumption, TimesAssumption, WidthAssumption DEF Held
<1>4. PICK v \in Pulled(t, q, n, x) : toks' = [toks EXCEPT ![c.asset] = v]
  BY DEF Contribute
<1>5. /\ v \in Storage /\ Lasting(v)
      /\ \A p \in Person : v.allow[<<p, Fund>>].amount = 0
      /\ n <= t.bal[q]
      /\ v.bal[Fund] = t.bal[Fund] + n
      /\ v.bal[q] = t.bal[q] - n
      /\ \A p \in Person : p # q => v.bal[p] = t.bal[p]
      /\ Total(v.bal) = Total(t.bal)
  BY <1>1, <1>3, PulledIn
<1>6. ~Ended(c) /\ ~c.withdrawn /\ c.total = Total(c.contributions)
  <2>1. ~Ended(c)
    BY <1>1, <1>2 DEF Contribute, IsOpen, Ended
  <2>. QED  BY <1>1, <1>2, <2>1 DEF Consistent
<1>7. /\ d.contributions = [c.contributions EXCEPT ![q] = @ + n] /\ d.total = c.total + n
      /\ d.owner = c.owner /\ d.asset = c.asset /\ d.goal = c.goal
      /\ d.deadline = c.deadline /\ d.withdrawn = c.withdrawn
  BY <1>1 DEF Contributed, Campaign
<1>8. d \in Campaign
  <2>1. c.total + n \in Held /\ c.contributions[q] + n \in Held
    BY <1>2, <1>3, WidthAssumption DEF Contribute, Held
  <2>2. [c.contributions EXCEPT ![q] = @ + n] \in [Person -> Held]
    BY <1>2, <2>1
  <2>. QED  BY <1>1, <1>2, <2>1, <2>2 DEF Contributed, Campaign
<1>9. Total(d.contributions) = Total(c.contributions) + n
  <2>1. IsFiniteSet(Person)
    BY AddressAssumption, FS_Subset DEF Person
  <2>. DEFINE m == c.contributions[q] + n
  <2>2. m \in Nat /\ c.contributions[q] \in Nat
    BY <1>2, <1>3
  <2>. HIDE DEF m
  <2>3. Total([c.contributions EXCEPT ![q] = m])
          = Total(c.contributions) - c.contributions[q] + m
    BY <1>2, <2>1, <2>2, TotalUpdate
  <2>4. d.contributions = [c.contributions EXCEPT ![q] = m]
    BY <1>7 DEF m
  <2>. QED  BY <1>2, <1>3, <2>2, <2>3, <2>4 DEF m
<1>10. campaigns' = [campaigns EXCEPT ![id] = d] /\ now' = now
  BY DEF Contribute
<1>. HIDE DEF c, d, t, x
<1>11. Owed(d) = Owed(c) + n /\ Owed(c) = Total(c.contributions)
  BY <1>6, <1>7, <1>9 DEF Owed
<1>12. Consistent(d)
  BY <1>6, <1>7, <1>9 DEF Consistent
<1>13. \A p \in Person : v.bal[p] - Taken(d, p) + d.contributions[p]
                         = t.bal[p] - Taken(c, p) + c.contributions[p]
  <2>1. TAKE p \in Person
  <2>2. Taken(d, p) = 0 /\ Taken(c, p) = 0
    BY <1>6, <1>7 DEF Taken
  <2>3. /\ v.bal[p] = IF p = q THEN t.bal[p] - n ELSE t.bal[p]
        /\ d.contributions[p] = IF p = q THEN c.contributions[p] + n ELSE c.contributions[p]
    BY <1>2, <1>5, <1>7
  <2>4. t.bal[p] \in Nat /\ c.contributions[p] \in Nat
    BY <1>1, <1>2
  <2>. QED  BY <1>3, <2>2, <2>3, <2>4
<1>14. v.bal[Fund] = t.bal[Fund] - Owed(c) + Owed(d)
  BY <1>1, <1>2, <1>3, <1>5, <1>11
<1>15. Settles(id, d, v)
  BY <1>4, <1>5, <1>6, <1>7, <1>10, <1>12, <1>13, <1>14 DEF Settles, c, t
<1>. QED  BY <1>5, <1>8, <1>15

LEMMA WithdrawSettles ==
    ASSUME Kept, NEW id \in DOMAIN campaigns, NEW p \in Person, Withdraw(id, p)
    PROVE  \E d \in Campaign, v \in Storage : Settles(id, d, v)
<1>. DEFINE c == campaigns[id]
            t == toks[c.asset]
            d == [c EXCEPT !.withdrawn = TRUE]
<1>1. /\ c \in Campaign /\ Consistent(c)
      /\ c.asset \in Asset
      /\ t \in Storage /\ Lasting(t)
      /\ \A r \in Person : t.allow[<<r, Fund>>].amount = 0
      /\ \A a \in Address : t.bal[a] \in Nat
      /\ Fund \in Address /\ Person \subseteq Address
      /\ now \in Nat \ {0}
  BY KeptFacts
<1>2. /\ c.owner \in Person /\ c.asset \in Asset /\ c.goal \in Nat /\ c.deadline \in Nat
      /\ c.total \in Held /\ c.total \in Nat /\ c.withdrawn \in BOOLEAN
      /\ c.contributions \in [Person -> Held]
      /\ c.contributions \in [Person -> Nat]
      /\ Total(c.contributions) \in Nat
      /\ Owed(c) \in Nat
  BY <1>1, CampaignType
<1>3. p = c.owner /\ Ended(c) /\ goal_reached(c) /\ ~c.withdrawn
  BY DEF Withdraw, Withdrawable
<1>4. PICK v \in transfer(t, Fund, p, c.total) : toks' = [toks EXCEPT ![c.asset] = v]
  BY DEF Withdraw
<1>5. /\ v \in Storage /\ Lasting(v)
      /\ v.allow = t.allow
      /\ c.total <= t.bal[Fund]
      /\ v.bal[Fund] = t.bal[Fund] - c.total
      /\ v.bal[p] = t.bal[p] + c.total
      /\ \A q \in Person : q # p => v.bal[q] = t.bal[q]
      /\ Total(v.bal) = Total(t.bal)
  BY <1>1, <1>2, <1>4, PaidOut
<1>6. /\ d.contributions = c.contributions /\ d.total = c.total
      /\ d.owner = c.owner /\ d.asset = c.asset /\ d.goal = c.goal
      /\ d.deadline = c.deadline /\ d.withdrawn = TRUE
  BY <1>1 DEF Campaign
<1>7. d \in Campaign
  BY <1>1 DEF Campaign
<1>8. campaigns' = [campaigns EXCEPT ![id] = d] /\ now' = now
  BY DEF Withdraw
<1>. HIDE DEF c, d, t
<1>9. c.total = Total(c.contributions)
  BY <1>1, <1>3 DEF Consistent
<1>10. Owed(d) = 0 /\ Owed(c) = c.total
  BY <1>3, <1>6, <1>9 DEF Owed
<1>11. Consistent(d)
  BY <1>3, <1>6, <1>9 DEF Consistent, Ended, goal_reached
<1>12. \A q \in Person : v.bal[q] - Taken(d, q) + d.contributions[q]
                         = t.bal[q] - Taken(c, q) + c.contributions[q]
  <2>1. TAKE q \in Person
  <2>2. Taken(d, q) = (IF q = p THEN c.total ELSE 0) /\ Taken(c, q) = 0
    BY <1>3, <1>6 DEF Taken
  <2>3. v.bal[q] = IF q = p THEN t.bal[q] + c.total ELSE t.bal[q]
    BY <1>5
  <2>4. t.bal[q] \in Nat /\ c.contributions[q] \in Nat
    BY <1>1, <1>2
  <2>. QED  BY <1>2, <1>6, <2>2, <2>3, <2>4
<1>13. v.bal[Fund] = t.bal[Fund] - Owed(c) + Owed(d)
  BY <1>1, <1>2, <1>5, <1>10
<1>14. \A q \in Person : v.allow[<<q, Fund>>].amount = 0
  BY <1>1, <1>5
<1>15. Settles(id, d, v)
  BY <1>4, <1>5, <1>6, <1>8, <1>11, <1>12, <1>13, <1>14 DEF Settles, c, t
<1>. QED  BY <1>5, <1>7, <1>15

LEMMA RefundSettles ==
    ASSUME Kept, NEW id \in DOMAIN campaigns, NEW p \in Person, ClaimRefund(id, p)
    PROVE  \E d \in Campaign, v \in Storage : Settles(id, d, v)
<1>. DEFINE c == campaigns[id]
            t == toks[c.asset]
            n == c.contributions[p]
            d == Refunded(c, p)
<1>1. /\ c \in Campaign /\ Consistent(c)
      /\ c.asset \in Asset
      /\ t \in Storage /\ Lasting(t)
      /\ \A r \in Person : t.allow[<<r, Fund>>].amount = 0
      /\ \A a \in Address : t.bal[a] \in Nat
      /\ Fund \in Address /\ Person \subseteq Address
      /\ now \in Nat \ {0}
  BY KeptFacts
<1>2. /\ c.owner \in Person /\ c.asset \in Asset /\ c.goal \in Nat /\ c.deadline \in Nat
      /\ c.total \in Held /\ c.total \in Nat /\ c.withdrawn \in BOOLEAN
      /\ c.contributions \in [Person -> Held]
      /\ c.contributions \in [Person -> Nat]
      /\ Total(c.contributions) \in Nat
      /\ Owed(c) \in Nat
  BY <1>1, CampaignType
<1>3. Ended(c) /\ ~goal_reached(c) /\ ~c.withdrawn
  BY <1>1 DEF ClaimRefund, Consistent
<1>4. PICK v \in transfer(t, Fund, p, n) : toks' = [toks EXCEPT ![c.asset] = v]
  BY DEF ClaimRefund
<1>5. n \in Held /\ n \in Nat
  BY <1>2
<1>6. /\ v \in Storage /\ Lasting(v)
      /\ v.allow = t.allow
      /\ n <= t.bal[Fund]
      /\ v.bal[Fund] = t.bal[Fund] - n
      /\ v.bal[p] = t.bal[p] + n
      /\ \A q \in Person : q # p => v.bal[q] = t.bal[q]
      /\ Total(v.bal) = Total(t.bal)
  BY <1>1, <1>4, <1>5, PaidOut
<1>7. /\ d.contributions = [c.contributions EXCEPT ![p] = 0] /\ d.total = c.total
      /\ d.owner = c.owner /\ d.asset = c.asset /\ d.goal = c.goal
      /\ d.deadline = c.deadline /\ d.withdrawn = c.withdrawn
  BY <1>1 DEF Refunded, Campaign
<1>8. d \in Campaign
  <2>1. [c.contributions EXCEPT ![p] = 0] \in [Person -> Held]
    BY <1>2, WidthAssumption DEF Held
  <2>. QED  BY <1>1, <2>1 DEF Refunded, Campaign
<1>9. campaigns' = [campaigns EXCEPT ![id] = d] /\ now' = now
  BY DEF ClaimRefund
<1>10. Total(d.contributions) = Total(c.contributions) - n
  <2>1. IsFiniteSet(Person)
    BY AddressAssumption, FS_Subset DEF Person
  <2>2. Total([c.contributions EXCEPT ![p] = 0])
          = Total(c.contributions) - c.contributions[p] + 0
    BY <1>2, <2>1, TotalUpdate
  <2>. QED  BY <1>2, <1>5, <1>7, <2>2
<1>. HIDE DEF c, d, t
<1>11. Owed(d) = Owed(c) - n /\ Owed(c) = Total(c.contributions)
  BY <1>3, <1>7, <1>10 DEF Owed
<1>12. Consistent(d)
  BY <1>3, <1>7 DEF Consistent, Ended, goal_reached
<1>13. \A q \in Person : v.bal[q] - Taken(d, q) + d.contributions[q]
                         = t.bal[q] - Taken(c, q) + c.contributions[q]
  <2>1. TAKE q \in Person
  <2>2. Taken(d, q) = 0 /\ Taken(c, q) = 0
    BY <1>3, <1>7 DEF Taken
  <2>3. /\ v.bal[q] = IF q = p THEN t.bal[q] + n ELSE t.bal[q]
        /\ d.contributions[q] = IF q = p THEN 0 ELSE c.contributions[q]
    BY <1>2, <1>6, <1>7
  <2>4. t.bal[q] \in Nat /\ c.contributions[q] \in Nat
    BY <1>1, <1>2
  <2>. QED  BY <1>5, <2>2, <2>3, <2>4
<1>14. v.bal[Fund] = t.bal[Fund] - Owed(c) + Owed(d)
  BY <1>1, <1>2, <1>5, <1>6, <1>11
<1>15. \A q \in Person : v.allow[<<q, Fund>>].amount = 0
  BY <1>1, <1>6
<1>16. Settles(id, d, v)
  BY <1>3, <1>4, <1>6, <1>7, <1>9, <1>12, <1>13, <1>14, <1>15 DEF Settles, c, t
<1>. QED  BY <1>6, <1>8, <1>16

Blank(d) == ~d.withdrawn /\ d.total = 0 /\ d.contributions = [p \in Person |-> 0]

(* A step creates a campaign that owes nothing, settles one, or lets time  *)
(* pass.                                                                   *)
LEMMA Steps ==
    ASSUME Kept, [Next]_vars
    PROVE  \/ \E d \in Campaign : /\ Blank(d)
                                  /\ campaigns' = Append(campaigns, d)
                                  /\ toks' = toks /\ now' = now
           \/ \E id \in DOMAIN campaigns, d \in Campaign, v \in Storage : Settles(id, d, v)
           \/ toks' = toks /\ campaigns' = campaigns /\ now' \in 1..MaxTime /\ now <= now'
<1>1. ASSUME NEW owner \in Person, NEW a \in Asset, NEW goal \in Goals, NEW deadline \in Deadlines,
             CreateCampaign(owner, a, goal, deadline)
      PROVE  \E d \in Campaign : /\ Blank(d)
                                 /\ campaigns' = Append(campaigns, d)
                                 /\ toks' = toks /\ now' = now
  <2>. DEFINE d == NewCampaign(owner, a, goal, deadline)
  <2>1. goal \in 1..MaxI128 /\ deadline \in Nat
    BY <1>1, AmountsAssumption, TimesAssumption, WidthAssumption DEF CreateCampaign
  <2>2. d \in Campaign /\ Blank(d)
    BY <2>1, WidthAssumption DEF NewCampaign, Campaign, Held, Blank
  <2>3. campaigns' = Append(campaigns, d) /\ toks' = toks /\ now' = now
    BY <1>1 DEF CreateCampaign
  <2>. QED  BY <2>2, <2>3
<1>2. ASSUME CloseLedger \/ UNCHANGED vars
      PROVE  toks' = toks /\ campaigns' = campaigns /\ now' \in 1..MaxTime /\ now <= now'
  BY <1>2, BoundsAssumption DEF CloseLedger, vars, Kept, Typed, TypeOK
<1>3. ASSUME NEW id \in DOMAIN campaigns, NEW p \in Person, Withdraw(id, p) \/ ClaimRefund(id, p)
      PROVE  \E d \in Campaign, v \in Storage : Settles(id, d, v)
  BY <1>3, WithdrawSettles, RefundSettles
<1>. QED  BY <1>1, <1>2, <1>3, ContributeSettles DEF Next

-----------------------------------------------------------------------------
(* The records *)

LEMMA BlankOwesNothing ==
    ASSUME NEW d \in Campaign, Blank(d)
    PROVE  /\ Total(d.contributions) = 0 /\ Owed(d) = 0
           /\ \A p \in Person : d.contributions[p] = 0 /\ Taken(d, p) = 0
<1>1. Total([p \in Person |-> 0]) = 0
  BY TotalZero
<1>. QED  BY <1>1 DEF Blank, Owed, Taken

LEMMA InitKept == Init => Kept
<1>. SUFFICES ASSUME Init PROVE Kept
  OBVIOUS
<1>1. /\ EmptyStorage \in Storage
      /\ \A q \in Pair : EmptyStorage.allow[q].amount = 0
  BY WidthAssumption DEF EmptyStorage, Storage, NoEntry, Entry, Held
<1>2. ASSUME NEW a \in Asset
      PROVE  /\ toks[a] \in Storage
             /\ \A q \in Pair : toks[a].allow[q].amount = 0
  <2>1. toks[a] = [EmptyStorage EXCEPT !.bal = Endowment[a]] /\ Endowment[a] \in [Address -> Held]
    BY EndowmentAssumption DEF Init
  <2>. QED  BY <1>1, <2>1 DEF Storage
<1>3. TypeOK
  BY <1>2, BoundsAssumption DEF Init, TypeOK
<1>4. \A a \in Asset : Lasting(toks[a])
  BY <1>2 DEF Lasting
<1>5. NoStandingApproval
  BY <1>2, FundAssumption DEF NoStandingApproval, Pair, Person
<1>6. DOMAIN campaigns = {}
  BY DEF Init
<1>. QED  BY <1>3, <1>4, <1>5, <1>6 DEF Kept, Typed

LEMMA NextKept ==
    ASSUME Kept, [Next]_vars
    PROVE  Kept'
<1>1. ASSUME NEW d \in Campaign, Blank(d),
             campaigns' = Append(campaigns, d), toks' = toks, now' = now
      PROVE  Kept'
  <2>1. d.total = Total(d.contributions) /\ ~d.withdrawn
    BY <1>1, BlankOwesNothing DEF Blank
  <2>2. campaigns \in Seq(Campaign) /\ campaigns' = Append(campaigns, d)
    BY <1>1 DEF Kept, Typed, TypeOK
  <2>3. /\ campaigns' \in Seq(Campaign)
        /\ \A i \in DOMAIN campaigns' :
               (i \in DOMAIN campaigns /\ campaigns'[i] = campaigns[i]) \/ campaigns'[i] = d
    BY <2>1, <2>2
  <2>4. \A i \in DOMAIN campaigns' : Consistent(campaigns'[i])
    BY <2>1, <2>3 DEF Kept, Consistent
  <2>5. (\A i \in DOMAIN campaigns : Consistent(campaigns[i]))'
    BY <1>1, <2>4 DEF Consistent, Ended
  <2>. QED  BY <1>1, <2>3, <2>5 DEF Kept, Typed, TypeOK, NoStandingApproval, Lasting
<1>2. ASSUME NEW id \in DOMAIN campaigns, NEW d \in Campaign, NEW v \in Storage,
             Settles(id, d, v)
      PROVE  Kept'
  <2>. DEFINE a == campaigns[id].asset
  <2>1. a \in Asset
    BY KeptFacts
  <2>2. /\ toks' = [toks EXCEPT ![a] = v] /\ now' = now
        /\ campaigns' = [campaigns EXCEPT ![id] = d]
        /\ Lasting(v) /\ Consistent(d)
        /\ \A p \in Person : v.allow[<<p, Fund>>].amount = 0
    BY <1>2 DEF Settles
  <2>. HIDE DEF a
  <2>3. \A b \in Asset : toks'[b] = IF b = a THEN v ELSE toks[b]
    BY <2>1, <2>2 DEF Kept, Typed, TypeOK
  <2>4. TypeOK'
    <3>1. toks' \in [Asset -> Storage] /\ now' \in 1..MaxTime
      BY <2>2 DEF Kept, Typed, TypeOK
    <3>2. campaigns \in Seq(Campaign)
      BY DEF Kept, Typed, TypeOK
    <3>3. campaigns' \in Seq(Campaign)
      BY <2>2, <3>2
    <3>. QED  BY <3>1, <3>3 DEF TypeOK
  <2>5. \A b \in Asset : Lasting(toks'[b])
    BY <2>2, <2>3 DEF Kept, Typed
  <2>6. NoStandingApproval'
    BY <2>2, <2>3 DEF Kept, NoStandingApproval
  <2>7. \A i \in DOMAIN campaigns' : Consistent(campaigns'[i])
    <3>1. \A i \in DOMAIN campaigns' :
              i \in DOMAIN campaigns /\ campaigns'[i] = IF i = id THEN d ELSE campaigns[i]
      BY <2>2 DEF Kept, Typed, TypeOK
    <3>2. \A i \in DOMAIN campaigns : Consistent(campaigns[i])
      BY DEF Kept
    <3>. QED  BY <2>2, <3>1, <3>2
  <2>8. (\A i \in DOMAIN campaigns : Consistent(campaigns[i]))'
    BY <2>2, <2>7 DEF Consistent, Ended
  <2>. QED  BY <2>4, <2>5, <2>6, <2>8 DEF Kept, Typed, Lasting
<1>3. ASSUME toks' = toks, campaigns' = campaigns, now' \in 1..MaxTime, now <= now'
      PROVE  Kept'
  <2>1. ASSUME NEW i \in DOMAIN campaigns PROVE Consistent(campaigns[i])'
    <3>1. /\ campaigns[i] \in Campaign /\ Consistent(campaigns[i]) /\ now \in Nat \ {0}
      BY KeptFacts
    <3>2. campaigns[i].deadline \in Nat
      BY <3>1, CampaignType
    <3>3. now' \in Nat
      BY <1>3, BoundsAssumption
    <3>4. Ended(campaigns[i]) => now' >= campaigns[i].deadline
      BY <1>3, <3>1, <3>2, <3>3 DEF Ended
    <3>. QED  BY <1>3, <3>1, <3>4 DEF Consistent, Ended, goal_reached
  <2>. QED  BY <1>3, <2>1 DEF Kept, Typed, TypeOK, NoStandingApproval, Lasting
<1>. QED  BY <1>1, <1>2, <1>3, Steps

(* Storages and records are well typed: no total or contribution leaves    *)
(* the width of the token (lib.rs:127-155).                                *)
THEOREM TypeCorrect == Spec => []TypeOK
<1>1. Kept => TypeOK
  BY DEF Kept, Typed
<1>2. Kept /\ [Next]_vars => Kept'
  BY NextKept
<1>. QED  BY <1>1, <1>2, InitKept, PTL DEF Spec

(* A contribution pulls all that it approved, so the contract is never left*)
(* with a right to a contributor's funds (lib.rs:144-147).                 *)
THEOREM NoApprovalStands == Spec => []NoStandingApproval
<1>1. Kept => NoStandingApproval
  BY DEF Kept
<1>2. Kept /\ [Next]_vars => Kept'
  BY NextKept
<1>. QED  BY <1>1, <1>2, InitKept, PTL DEF Spec

(* After its deadline a campaign's success or failure stays what it is,    *)
(* whatever is withdrawn or refunded (lib.rs:141-206).                     *)
THEOREM OutcomesFinal == Spec => OutcomeIsFinal
<1>. DEFINE Stays(id) ==
        Ended(campaigns[id]) =>
              /\ Ended(campaigns[id])'
              /\ goal_reached(campaigns'[id]) = goal_reached(campaigns[id])
              /\ campaigns[id].withdrawn => campaigns'[id].withdrawn
<1>1. Kept /\ [Next]_vars => [\A id \in DOMAIN campaigns : Stays(id)]_vars
  <2>. SUFFICES ASSUME Kept, [Next]_vars, NEW i \in DOMAIN campaigns PROVE Stays(i)
    OBVIOUS
  <2>1. /\ campaigns[i] \in Campaign /\ campaigns \in Seq(Campaign) /\ now \in Nat
        /\ campaigns[i].deadline \in Nat
    BY KeptFacts, CampaignType DEF Kept, Typed, TypeOK
  <2>2. ASSUME NEW d \in Campaign, campaigns' = Append(campaigns, d), now' = now
        PROVE  Stays(i)
    <3>1. campaigns'[i] = campaigns[i]
      BY <2>1, <2>2
    <3>. QED  BY <2>2, <3>1 DEF Ended
  <2>3. ASSUME NEW id \in DOMAIN campaigns, NEW d \in Campaign, NEW v \in Storage,
               Settles(id, d, v)
        PROVE  Stays(i)
    <3>1. /\ campaigns' = [campaigns EXCEPT ![id] = d] /\ now' = now
          /\ d.deadline = campaigns[id].deadline /\ d.goal = campaigns[id].goal
          /\ Ended(campaigns[id]) => d.total = campaigns[id].total
          /\ campaigns[id].withdrawn => d.withdrawn
      BY <2>3 DEF Settles
    <3>2. CASE i = id
      <4>1. campaigns'[i] = d
        BY <2>1, <3>1, <3>2
      <4>. QED  BY <3>1, <3>2, <4>1 DEF Ended, goal_reached
    <3>3. CASE i # id
      <4>1. campaigns'[i] = campaigns[i]
        BY <2>1, <3>1, <3>3
      <4>. QED  BY <3>1, <4>1 DEF Ended
    <3>. QED  BY <3>2, <3>3
  <2>4. ASSUME campaigns' = campaigns, now' \in 1..MaxTime, now <= now'
        PROVE  Stays(i)
    <3>1. now' \in Nat
      BY <2>4, BoundsAssumption
    <3>. QED  BY <2>1, <2>4, <3>1 DEF Ended
  <2>. QED  BY <2>2, <2>3, <2>4, Steps
<1>2. Kept /\ [Next]_vars => Kept'
  BY NextKept
<1>. QED  BY <1>1, <1>2, InitKept, PTL DEF Spec, OutcomeIsFinal

-----------------------------------------------------------------------------
(* The books *)

(* A new campaign changes no sum.                                          *)
LEMMA Added ==
    ASSUME TypeOK, NEW d \in Campaign, Blank(d), campaigns' = Append(campaigns, d),
           NEW a \in Asset
    PROVE  /\ Total(OwedIn(a)') = Total(OwedIn(a))
           /\ \A p \in Person : /\ Total(GivenBy(a, p)') = Total(GivenBy(a, p))
                                /\ Total(WithdrawnBy(a, p)') = Total(WithdrawnBy(a, p))
<1>. DEFINE new == Len(campaigns) + 1
<1>1. /\ campaigns'[new] = d
      /\ new \notin DOMAIN campaigns
      /\ DOMAIN campaigns' = DOMAIN campaigns \cup {new}
      /\ \A i \in DOMAIN campaigns : campaigns'[i] = campaigns[i]
  BY DEF TypeOK
<1>2. \A i \in InAsset(a) : campaigns'[i] = campaigns[i]
  BY <1>1 DEF InAsset
<1>3. /\ Owed(d) = 0
      /\ \A p \in Person : d.contributions[p] = 0 /\ Taken(d, p) = 0
  BY BlankOwesNothing
<1>. HIDE DEF new
<1>4. CASE d.asset # a
  <2>1. InAsset(a)' = InAsset(a)
    BY <1>1, <1>4 DEF InAsset
  <2>2. OwedIn(a)' = OwedIn(a)
    BY <1>2, <2>1 DEF OwedIn, Owed
  <2>3. \A p \in Person : GivenBy(a, p)' = GivenBy(a, p)
    BY <1>2, <2>1 DEF GivenBy
  <2>4. \A p \in Person : WithdrawnBy(a, p)' = WithdrawnBy(a, p)
    BY <1>2, <2>1 DEF WithdrawnBy
  <2>. QED  BY <2>2, <2>3, <2>4
<1>5. CASE d.asset = a
  <2>. DEFINE D == InAsset(a)
              E == InAsset(a)'
  <2>1. E = D \cup {new} /\ new \notin D
    BY <1>1, <1>5 DEF InAsset
  <2>. HIDE DEF D, E
  <2>2. \A i \in D : campaigns'[i] = campaigns[i]
    BY <1>2 DEF D
  <2>3. Total(OwedIn(a)') = Total(OwedIn(a))
    <3>0. PICK f, g : f = OwedIn(a) /\ g = OwedIn(a)'
      OBVIOUS
    <3>1. f = [i \in D |-> Owed(campaigns[i])]
      BY <3>0 DEF OwedIn, D
    <3>2. g = [i \in E |-> Owed(campaigns'[i])]
      BY <3>0 DEF OwedIn, Owed, E
    <3>3. DOMAIN f = D /\ DOMAIN g = E /\ D \subseteq E
      BY <2>1, <3>1, <3>2
    <3>4. \A i \in D : g[i] = f[i]
      BY <2>1, <2>2, <3>1, <3>2
    <3>5. \A i \in E : i \notin D => g[i] = 0
      BY <1>1, <1>3, <2>1, <3>2
    <3>6. Total(g) = Total(f)
      BY <3>3, <3>4, <3>5, TotalExtend
    <3>. QED  BY <3>0, <3>6
  <2>4. ASSUME NEW p \in Person PROVE Total(GivenBy(a, p)') = Total(GivenBy(a, p))
    <3>0. PICK f, g : f = GivenBy(a, p) /\ g = GivenBy(a, p)'
      OBVIOUS
    <3>1. f = [i \in D |-> campaigns[i].contributions[p]]
      BY <3>0 DEF GivenBy, D
    <3>2. g = [i \in E |-> campaigns'[i].contributions[p]]
      BY <3>0 DEF GivenBy, E
    <3>3. DOMAIN f = D /\ DOMAIN g = E /\ D \subseteq E
      BY <2>1, <3>1, <3>2
    <3>4. \A i \in D : g[i] = f[i]
      BY <2>1, <2>2, <3>1, <3>2
    <3>5. \A i \in E : i \notin D => g[i] = 0
      BY <1>1, <1>3, <2>1, <3>2
    <3>6. Total(g) = Total(f)
      BY <3>3, <3>4, <3>5, TotalExtend
    <3>. QED  BY <3>0, <3>6
  <2>5. ASSUME NEW p \in Person PROVE Total(WithdrawnBy(a, p)') = Total(WithdrawnBy(a, p))
    <3>0. PICK f, g : f = WithdrawnBy(a, p) /\ g = WithdrawnBy(a, p)'
      OBVIOUS
    <3>1. f = [i \in D |-> Taken(campaigns[i], p)]
      BY <3>0 DEF WithdrawnBy, Taken, D
    <3>2. g = [i \in E |-> Taken(campaigns'[i], p)]
      BY <3>0 DEF WithdrawnBy, Taken, E
    <3>3. DOMAIN f = D /\ DOMAIN g = E /\ D \subseteq E
      BY <2>1, <3>1, <3>2
    <3>4. \A i \in D : g[i] = f[i]
      BY <2>1, <2>2, <3>1, <3>2
    <3>5. \A i \in E : i \notin D => g[i] = 0
      BY <1>1, <1>3, <2>1, <3>2
    <3>6. Total(g) = Total(f)
      BY <3>3, <3>4, <3>5, TotalExtend
    <3>. QED  BY <3>0, <3>6
  <2>. QED  BY <2>3, <2>4, <2>5
<1>. QED  BY <1>4, <1>5

LEMMA InitBalanced == Init => Balanced
<1>. SUFFICES ASSUME Init PROVE Balanced
  OBVIOUS
<1>1. ASSUME NEW a \in Asset
      PROVE  /\ Total(OwedIn(a)) = 0
             /\ \A p \in Person : Total(GivenBy(a, p)) = 0 /\ Total(WithdrawnBy(a, p)) = 0
  <2>1. InAsset(a) = {}
    BY DEF Init, InAsset
  <2>2. OwedIn(a) = [i \in {} |-> 0]
    BY <2>1 DEF OwedIn
  <2>3. \A p \in Person : GivenBy(a, p) = [i \in {} |-> 0]
    BY <2>1 DEF GivenBy
  <2>4. \A p \in Person : WithdrawnBy(a, p) = [i \in {} |-> 0]
    BY <2>1 DEF WithdrawnBy
  <2>5. Total([i \in {} |-> 0]) = 0
    BY TotalZero
  <2>. QED  BY <2>2, <2>3, <2>4, <2>5
<1>2. \A a \in Asset : /\ toks[a].bal = Endowment[a] /\ Endowment[a] \in [Address -> Nat]
                       /\ Endowment[a][Fund] = 0
  <2>1. \A a \in Asset : toks[a] = [EmptyStorage EXCEPT !.bal = Endowment[a]]
    BY DEF Init
  <2>2. \A a \in Asset : toks[a].bal = Endowment[a]
    BY <2>1 DEF EmptyStorage
  <2>. QED  BY <2>2, EndowmentAssumption, WidthAssumption DEF Held
<1>3. HoldingsAreOwed
  BY <1>1, <1>2 DEF HoldingsAreOwed
<1>4. EveryoneIsWhole
  <2>1. ASSUME NEW a \in Asset, NEW p \in Person
        PROVE  toks[a].bal[p] + Total(GivenBy(a, p)) = Endowment[a][p] + Total(WithdrawnBy(a, p))
    <3>1. Total(GivenBy(a, p)) = 0 /\ Total(WithdrawnBy(a, p)) = 0
      BY <1>1, <2>1
    <3>2. toks[a].bal[p] = Endowment[a][p]
      BY <1>2, <2>1
    <3>. QED  BY <3>1, <3>2
  <2>. QED  BY <2>1 DEF EveryoneIsWhole
<1>. QED  BY <1>3, <1>4 DEF Balanced

(* The campaign that a call settles: its asset's pool, and the account of  *)
(* every person in that asset.                                             *)
LEMMA SettledBalances ==
    ASSUME Kept, Kept', Balanced, NEW id \in DOMAIN campaigns, NEW d \in Campaign,
           NEW v \in Storage, Settles(id, d, v)
    PROVE  Balanced'
<1>1. PICK c \in Campaign : c = campaigns[id]
  BY KeptFacts
<1>2. PICK a \in Asset : a = c.asset
  BY CampaignType
<1>3. TypeOK /\ TypeOK' /\ toks \in [Asset -> Storage]
  BY DEF Kept, Typed, TypeOK
<1>4. /\ toks' = [toks EXCEPT ![a] = v]
      /\ campaigns' = [campaigns EXCEPT ![id] = d]
      /\ d.asset = a
      /\ v.bal[Fund] = toks[a].bal[Fund] - Owed(c) + Owed(d)
      /\ \A p \in Person : v.bal[p] - Taken(d, p) + d.contributions[p]
                           = toks[a].bal[p] - Taken(c, p) + c.contributions[p]
  BY <1>1, <1>2 DEF Settles
<1>5. Moves(a, c, d)
  BY <1>1, <1>2, <1>3, <1>4, Replaced
<1>6. toks'[a] = v /\ \A b \in Asset : b # a => toks'[b] = toks[b]
  BY <1>3, <1>4
<1>7. /\ Owed(c) \in Nat /\ Owed(d) \in Nat
      /\ \A p \in Person : /\ c.contributions[p] \in Nat /\ d.contributions[p] \in Nat
                           /\ Taken(c, p) \in Nat /\ Taken(d, p) \in Nat
  BY CampaignType DEF Taken
<1>8. \A p \in Address : toks[a].bal[p] \in Nat /\ v.bal[p] \in Nat
  BY <1>3, WidthAssumption DEF Storage, Held
<1>9. \A b \in Asset : toks'[b].bal[Fund] = Total(OwedIn(b)')
  <2>1. toks[a].bal[Fund] = Total(OwedIn(a))
    BY DEF Balanced, HoldingsAreOwed
  <2>2. v.bal[Fund] = Total(OwedIn(a)')
    BY <1>4, <1>5, <2>1 DEF Moves
  <2>3. \A b \in Asset : b # a => toks'[b].bal[Fund] = Total(OwedIn(b)')
    BY <1>5, <1>6 DEF Moves, Balanced, HoldingsAreOwed
  <2>. QED  BY <1>6, <2>2, <2>3
<1>10. ASSUME NEW b \in Asset, NEW p \in Person
       PROVE  toks'[b].bal[p] + Total(GivenBy(b, p)') = Endowment[b][p] + Total(WithdrawnBy(b, p)')
  <2>1. /\ toks[b].bal[p] + Total(GivenBy(b, p)) = Endowment[b][p] + Total(WithdrawnBy(b, p))
        /\ Endowment[b][p] \in Nat /\ p \in Address
    BY EndowmentAssumption, WidthAssumption DEF Balanced, EveryoneIsWhole, Person, Held
  <2>2. CASE b = a
    <3>1. v.bal[p] \in Nat /\ toks[a].bal[p] \in Nat
      BY <1>8, <2>1
    <3>2. /\ c.contributions[p] \in Nat /\ d.contributions[p] \in Nat
          /\ Taken(c, p) \in Nat /\ Taken(d, p) \in Nat
      BY <1>7
    <3>3. v.bal[p] - Taken(d, p) + d.contributions[p]
             = toks[a].bal[p] - Taken(c, p) + c.contributions[p]
      BY <1>4
    <3>4. /\ Total(GivenBy(a, p)) \in Nat /\ Total(WithdrawnBy(a, p)) \in Nat
          /\ Total(GivenBy(a, p)') = Total(GivenBy(a, p)) - c.contributions[p] + d.contributions[p]
          /\ Total(WithdrawnBy(a, p)')
               = Total(WithdrawnBy(a, p)) - Taken(c, p) + Taken(d, p)
      BY <1>5 DEF Moves
    <3>5. toks[a].bal[p] + Total(GivenBy(a, p)) = Endowment[a][p] + Total(WithdrawnBy(a, p))
      BY <2>1, <2>2
    <3>6. v.bal[p] + Total(GivenBy(a, p)') = Endowment[a][p] + Total(WithdrawnBy(a, p)')
      <4>1. PICK e \in Nat : e = Endowment[a][p]
        BY <2>1, <2>2
      <4>. QED  BY <3>1, <3>2, <3>3, <3>4, <3>5, <4>1
    <3>. QED  BY <1>6, <2>2, <3>6
  <2>3. CASE b # a
    <3>1. /\ GivenBy(b, p)' = GivenBy(b, p)
          /\ WithdrawnBy(b, p)' = WithdrawnBy(b, p)
          /\ toks'[b] = toks[b]
      BY <1>5, <1>6, <2>3 DEF Moves
    <3>. QED  BY <2>1, <3>1
  <2>. QED  BY <2>2, <2>3
<1>11. HoldingsAreOwed'
  BY <1>9 DEF HoldingsAreOwed
<1>12. EveryoneIsWhole'
  BY <1>10 DEF EveryoneIsWhole
<1>. QED  BY <1>11, <1>12 DEF Balanced

LEMMA NextBalanced ==
    ASSUME Kept, Balanced, [Next]_vars
    PROVE  Balanced'
<1>1. Kept' /\ TypeOK
  BY NextKept DEF Kept, Typed
<1>2. ASSUME NEW d \in Campaign, Blank(d),
             campaigns' = Append(campaigns, d), toks' = toks, now' = now
      PROVE  Balanced'
  <2>1. \A a \in Asset :
            /\ Total(OwedIn(a)') = Total(OwedIn(a))
            /\ \A p \in Person : /\ Total(GivenBy(a, p)') = Total(GivenBy(a, p))
                                 /\ Total(WithdrawnBy(a, p)') = Total(WithdrawnBy(a, p))
    BY <1>1, <1>2, Added
  <2>2. HoldingsAreOwed'
    BY <1>2, <2>1 DEF Balanced, HoldingsAreOwed
  <2>3. EveryoneIsWhole'
    BY <1>2, <2>1 DEF Balanced, EveryoneIsWhole
  <2>. QED  BY <2>2, <2>3 DEF Balanced
<1>3. ASSUME NEW id \in DOMAIN campaigns, NEW d \in Campaign, NEW v \in Storage,
             Settles(id, d, v)
      PROVE  Balanced'
  BY <1>1, <1>3, SettledBalances
<1>4. ASSUME toks' = toks, campaigns' = campaigns PROVE Balanced'
  <2>1. \A a : OwedIn(a)' = OwedIn(a)
    BY <1>4 DEF OwedIn, InAsset, Owed
  <2>2. \A a, p : GivenBy(a, p)' = GivenBy(a, p) /\ WithdrawnBy(a, p)' = WithdrawnBy(a, p)
    BY <1>4 DEF GivenBy, WithdrawnBy, InAsset
  <2>3. HoldingsAreOwed'
    BY <1>4, <2>1 DEF Balanced, HoldingsAreOwed
  <2>4. EveryoneIsWhole'
    BY <1>4, <2>2 DEF Balanced, EveryoneIsWhole
  <2>. QED  BY <2>3, <2>4 DEF Balanced
<1>. QED  BY <1>2, <1>3, <1>4, Steps

(* The pooled balance of an asset is what its campaigns owe, to the unit:  *)
(* no withdrawal or refund is paid out of another campaign's funds, and    *)
(* nothing is stranded (lib.rs:127-207).                                   *)
THEOREM HoldingsOwed == Spec => []HoldingsAreOwed
<1>1. Balanced => HoldingsAreOwed
  BY DEF Balanced
<1>2. Init => Kept /\ Balanced
  BY InitKept, InitBalanced
<1>3. (Kept /\ Balanced) /\ [Next]_vars => (Kept /\ Balanced)'
  BY NextKept, NextBalanced
<1>. QED  BY <1>1, <1>2, <1>3, PTL DEF Spec

(* Nobody gains or loses by a campaign that fails, and an owner gains what *)
(* its campaigns raised, once (lib.rs:127-207).                            *)
THEOREM EveryoneWhole == Spec => []EveryoneIsWhole
<1>1. Balanced => EveryoneIsWhole
  BY DEF Balanced
<1>2. Init => Kept /\ Balanced
  BY InitKept, InitBalanced
<1>3. (Kept /\ Balanced) /\ [Next]_vars => (Kept /\ Balanced)'
  BY NextKept, NextBalanced
<1>. QED  BY <1>1, <1>2, <1>3, PTL DEF Spec

-----------------------------------------------------------------------------
(* Nothing is stuck *)

SuppliesKept == \A a \in Asset : Total(toks[a].bal) = Total(Endowment[a])

LEMMA NextSupplies ==
    ASSUME Kept, SuppliesKept, [Next]_vars
    PROVE  SuppliesKept'
<1>1. ASSUME NEW id \in DOMAIN campaigns, NEW d \in Campaign, NEW v \in Storage,
             Settles(id, d, v)
      PROVE  SuppliesKept'
  <2>. DEFINE a == campaigns[id].asset
  <2>1. a \in Asset
    BY KeptFacts
  <2>2. toks' = [toks EXCEPT ![a] = v] /\ Total(v.bal) = Total(toks[a].bal)
    BY <1>1 DEF Settles
  <2>. HIDE DEF a
  <2>3. \A b \in Asset : toks'[b] = IF b = a THEN v ELSE toks[b]
    BY <2>1, <2>2 DEF Kept, Typed, TypeOK
  <2>. QED  BY <2>2, <2>3 DEF SuppliesKept
<1>2. ASSUME toks' = toks  PROVE SuppliesKept'
  BY <1>2 DEF SuppliesKept
<1>. QED  BY <1>1, <1>2, Steps

(* What is left of an ended campaign can be paid by a call that its owner, *)
(* or somebody with a contribution, is entitled to make; a refund to one   *)
(* contributor never takes the way of another.                             *)
Resolvable(c) ==
    IF goal_reached(c)
    THEN /\ Withdrawable(c, c.owner)
         /\ transfer(toks[c.asset], Fund, c.owner, c.total) # Panic
    ELSE /\ \E p \in Person : c.contributions[p] # 0
         /\ \A p \in Person :
               c.contributions[p] # 0 =>
                   transfer(toks[c.asset], Fund, p, c.contributions[p]) # Panic

NoneIsStuck ==
    \A id \in DOMAIN campaigns :
        Ended(campaigns[id]) /\ Owed(campaigns[id]) # 0 => Resolvable(campaigns[id])

LEMMA OwedIsPayable ==
    ASSUME \A a \in Asset : Total(Endowment[a]) <= MaxI128,
           Kept, HoldingsAreOwed, SuppliesKept,
           NEW id \in DOMAIN campaigns, Ended(campaigns[id]), Owed(campaigns[id]) # 0
    PROVE  Resolvable(campaigns[id])
<1>. DEFINE c == campaigns[id]
            a == campaigns[id].asset
            t == toks[a]
<1>1. /\ c \in Campaign /\ Consistent(c) /\ a \in Asset
      /\ t \in Storage /\ \A x \in Address : t.bal[x] \in Nat
      /\ Fund \in Address /\ Person \subseteq Address
  BY KeptFacts
<1>2. /\ c.owner \in Person /\ c.total \in Nat
      /\ c.contributions \in [Person -> Nat] /\ Total(c.contributions) \in Nat
      /\ Owed(c) \in Nat
  BY <1>1, CampaignType
<1>3. Owed(c) <= t.bal[Fund]
  <2>1. /\ IsFiniteSet(InAsset(a)) /\ id \in InAsset(a)
        /\ \A i \in InAsset(a) : campaigns[i] \in Campaign
    BY <1>1, Finite DEF InAsset, Kept, Typed, TypeOK
  <2>2. \A i \in InAsset(a) : Owed(campaigns[i]) \in Nat
    BY <2>1, CampaignType
  <2>3. OwedIn(a) \in [InAsset(a) -> Nat] /\ OwedIn(a)[id] = Owed(c)
    BY <2>1, <2>2 DEF OwedIn
  <2>4. OwedIn(a)[id] <= Total(OwedIn(a))
    BY <2>1, <2>3, TotalAtLeast
  <2>. QED  BY <1>1, <2>3, <2>4 DEF HoldingsAreOwed
<1>4. ~c.withdrawn /\ Owed(c) = Total(c.contributions)
  BY DEF Owed
<1>5. Total(t.bal) <= MaxI128
  BY <1>1 DEF SuppliesKept
<1>6. ASSUME NEW p \in Person, NEW n \in Nat, n <= t.bal[Fund]
      PROVE  transfer(t, Fund, p, n) # Panic
  BY <1>1, <1>5, <1>6, AffordableGoesThrough
<1>7. CASE goal_reached(c)
  <2>1. c.total = Total(c.contributions)
    BY <1>1, <1>7 DEF Consistent
  <2>2. Withdrawable(c, c.owner)
    BY <1>4, <1>7 DEF Withdrawable
  <2>3. transfer(t, Fund, c.owner, c.total) # Panic
    BY <1>2, <1>3, <1>4, <1>6, <2>1
  <2>. QED  BY <1>7, <2>2, <2>3 DEF Resolvable
<1>8. CASE ~goal_reached(c)
  <2>1. \E p \in Person : c.contributions[p] # 0
    <3>1. SUFFICES ASSUME \A p \in Person : c.contributions[p] = 0 PROVE FALSE
      OBVIOUS
    <3>2. c.contributions = [p \in Person |-> 0]
      BY <1>2, <3>1
    <3>3. Total(c.contributions) = 0
      BY <3>2, TotalZero
    <3>. QED  BY <1>4, <3>3
  <2>2. ASSUME NEW p \in Person
        PROVE  transfer(t, Fund, p, c.contributions[p]) # Panic
    <3>1. IsFiniteSet(Person)
      BY AddressAssumption, FS_Subset DEF Person
    <3>2. c.contributions[p] \in Nat /\ c.contributions[p] <= Total(c.contributions)
      BY <1>2, <3>1, TotalAtLeast
    <3>3. c.contributions[p] <= t.bal[Fund]
      BY <1>1, <1>2, <1>3, <1>4, <3>2
    <3>. QED  BY <1>6, <3>2, <3>3
  <2>. QED  BY <1>8, <2>1, <2>2 DEF Resolvable
<1>. QED  BY <1>7, <1>8

(* No campaign keeps funds that nobody can get out: the withdrawal of one  *)
(* that succeeded and every refund of one that failed go through, whatever *)
(* the other campaigns are paid, if the supply of each asset fits i128     *)
(* (lib.rs:158-207).                                                       *)
THEOREM NothingStuck ==
    ASSUME \A a \in Asset : Total(Endowment[a]) <= MaxI128
    PROVE  Spec => []NoneIsStuck
<1>. DEFINE Inv == Kept /\ Balanced /\ SuppliesKept
<1>1. Init => Inv
  <2>1. Init => SuppliesKept
    <3>. SUFFICES ASSUME Init PROVE SuppliesKept
      OBVIOUS
    <3>1. EmptyStorage \in Storage
      BY WidthAssumption DEF EmptyStorage, Storage, NoEntry, Entry, Held
    <3>. QED  BY <3>1 DEF Init, SuppliesKept, Storage
  <2>. QED  BY <2>1, InitKept, InitBalanced
<1>2. Inv /\ [Next]_vars => Inv'
  BY NextKept, NextBalanced, NextSupplies
<1>3. Inv => NoneIsStuck
  BY OwedIsPayable DEF Balanced, NoneIsStuck
<1>. QED  BY <1>1, <1>2, <1>3, PTL DEF Spec

=============================================================================
