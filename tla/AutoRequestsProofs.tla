------------------------- MODULE AutoRequestsProofs --------------------------
(***************************************************************************)
(* Proofs about AutoRequests: what is chosen, reused, learned and charged, *)
(* for every number of requests, backends, teams and prices.               *)
(***************************************************************************)
EXTENDS AutoRequests, Sums

-----------------------------------------------------------------------------
(* Prices.                                                                 *)

\* Of the rows in effect one comes before all others.
LEMMA FirstRow ==
  ASSUME PricesTypeOK, NEW b, NEW m, InEffect(b, m) # {}
  PROVE  \E row \in InEffect(b, m) : \A other \in InEffect(b, m) \ {row} : Before(m, row, other)
<1> DEFINE S == InEffect(b, m)
           own == {row \in S : row.model = m}
           T == IF own # {} THEN own ELSE S
           days == {row.from : row \in T}
<1>1. \A row \in S : /\ row \in prices /\ row.backend = b /\ row.model \in {m, AnyModel}
                     /\ row.from \in 0..MaxDay
  BY DEF InEffect, PricesTypeOK, PriceTable, Row
<1>2. T # {} /\ T \subseteq S
  OBVIOUS
<1>3. \A row, other \in T : row.model = other.model /\ (row.model = m <=> other.model = m)
  BY <1>1
<1>4. \A row \in T, other \in S \ T : row.model = m /\ other.model # m
  OBVIOUS
<1> HIDE DEF S, T
<1>5. IsFiniteSet(days) /\ days \in SUBSET Int /\ days # {}
  <2>1. days \subseteq 0..MaxDay
    BY <1>1, <1>2
  <2>2. IsFiniteSet(0..MaxDay) /\ 0..MaxDay \subseteq Int
    BY PricesAssumption, FS_Interval
  <2>3. days # {}
    BY <1>2
  <2> HIDE DEF days
  <2>4. QED
    BY <2>1, <2>2, <2>3, FS_Subset
<1>6. PICK row \in T : \A other \in T : row.from >= other.from
  <2>1. PICK n \in days : \A x \in days : n >= x
    BY <1>5, GreatestNumber
  <2>2. QED
    BY <2>1
<1>7. ASSUME NEW other \in S \ {row} PROVE Before(m, row, other)
  <2>1. CASE other \in T
    <3>1. row.from # other.from
      BY <1>1, <1>2, <1>3, <1>6, <1>7, <2>1 DEF PricesTypeOK, PriceTable
    <3>2. row.from > other.from
      BY <1>1, <1>2, <1>6, <2>1, <3>1
    <3>3. QED
      BY <1>3, <2>1, <3>2 DEF Before
  <2>2. CASE other \notin T
    BY <1>4, <2>2 DEF Before
  <2>3. QED
    BY <2>1, <2>2
<1>8. QED
  BY <1>2, <1>7 DEF S

\* The row a price is looked up in.
PriceRow(b, m) == CHOOSE row \in InEffect(b, m) :
                    \A other \in InEffect(b, m) \ {row} : Before(m, row, other)

LEMMA PriceIsOfFirst ==
  ASSUME PricesTypeOK, NEW b, NEW m
  PROVE  IF InEffect(b, m) = {} THEN PriceOf(b, m) = Declared[b]
         ELSE /\ PriceRow(b, m) \in InEffect(b, m)
              /\ \A other \in InEffect(b, m) \ {PriceRow(b, m)} : Before(m, PriceRow(b, m), other)
              /\ PriceOf(b, m) = PriceRow(b, m).price
  BY FirstRow DEF PriceRow, PriceOf

LEMMA PriceType ==
  ASSUME PricesTypeOK, NEW b \in Backends, NEW m
  PROVE  PriceOf(b, m) \in Price
<1>1. CASE InEffect(b, m) = {}
  BY <1>1, PriceIsOfFirst, PricesAssumption
<1>2. CASE InEffect(b, m) # {}
  <2>1. PriceRow(b, m) \in Row /\ PriceOf(b, m) = PriceRow(b, m).price
    BY <1>2, PriceIsOfFirst DEF InEffect, PricesTypeOK, PriceTable
  <2>2. QED
    BY <2>1 DEF Row
<1>3. QED
  BY <1>1, <1>2

\* A model without a price of its own costs what its backend does.
LEMMA NoOwnPrice ==
  ASSUME PricesTypeOK, NEW b \in Backends, NEW m,
         \A row \in InEffect(b, m) : row.model = AnyModel
  PROVE  PriceOf(b, m) = PriceOf(b, AnyModel)
<1>1. InEffect(b, m) = InEffect(b, AnyModel)
  BY DEF InEffect
<1>2. CASE InEffect(b, m) = {}
  BY <1>1, <1>2, PriceIsOfFirst
<1>3. CASE InEffect(b, m) # {}
  <2> DEFINE p == PriceRow(b, m)
             q == PriceRow(b, AnyModel)
  <2>1. /\ p \in InEffect(b, m) /\ \A other \in InEffect(b, m) \ {p} : Before(m, p, other)
        /\ PriceOf(b, m) = p.price
    BY <1>3, PriceIsOfFirst
  <2>2. /\ q \in InEffect(b, m) /\ \A other \in InEffect(b, m) \ {q} : Before(AnyModel, q, other)
        /\ PriceOf(b, AnyModel) = q.price
    BY <1>1, <1>3, PriceIsOfFirst
  <2> HIDE DEF p, q
  <2>3. p = q
    <3>1. SUFFICES ASSUME p # q PROVE FALSE
      OBVIOUS
    <3>2. Before(m, p, q) /\ Before(AnyModel, q, p) /\ p.model = AnyModel /\ q.model = AnyModel
      BY <2>1, <2>2, <3>1
    <3>3. p.from \in Int /\ q.from \in Int
      <4>1. p \in Row /\ q \in Row
        BY <2>1, <2>2 DEF InEffect, PricesTypeOK, PriceTable
      <4>2. QED
        BY <4>1, PricesAssumption DEF Row
    <3>4. QED
      BY <3>2, <3>3 DEF Before
  <2>4. QED
    BY <2>1, <2>2, <2>3
<1>4. QED
  BY <1>2, <1>3

-----------------------------------------------------------------------------
(* The choice of a candidate.                                              *)

\* What the choice reads is well formed.
RouteTypes == PricesTypeOK /\ latency \in [Backends -> Nat \cup {None}]

\* The first of the least is one of them.
LEMMA FirstLeast ==
  ASSUME NEW cands \in SUBSET (DOMAIN Registry), cands # {}, NEW key \in [cands -> Int]
  PROVE  Min({i \in cands : \A j \in cands : key[i] <= key[j]}) \in cands
<1> DEFINE least == {i \in cands : \A j \in cands : key[i] <= key[j]}
<1>1. IsFiniteSet(DOMAIN Registry) /\ DOMAIN Registry \subseteq Int
  BY RouteAssumption, FS_Interval
<1>2. IsFiniteSet(cands)
  BY <1>1, FS_Subset
<1>3. least # {}
  BY <1>2, LeastValue
<1>4. least \in SUBSET Int /\ IsFiniteSet(least) /\ least \subseteq cands
  BY <1>1, <1>2, FS_Subset
<1> HIDE DEF least
<1>5. Min(least) \in least
  BY <1>3, <1>4, MinOf
<1>6. QED
  BY <1>4, <1>5 DEF least

LEMMA FinitelyMany ==
  ASSUME NEW cands \in SUBSET (DOMAIN Registry) PROVE IsFiniteSet(cands)
<1>1. IsFiniteSet(DOMAIN Registry)
  BY RouteAssumption, FS_Interval
<1>2. QED
  BY <1>1, FS_Subset

LEMMA RegisteredAreBackends ==
  ASSUME NEW cands \in SUBSET (DOMAIN Registry)
  PROVE  \A i \in cands : Registry[i] \in Backends
  BY RouteAssumption

LEMMA PicksAreCandidates ==
  ASSUME RouteTypes, NEW cands \in SUBSET (DOMAIN Registry), cands # {}
  PROVE  {Cheapest(cands), Fastest(cands), Strongest(cands)} \subseteq NamesOf(cands)
<1>1. \A i \in cands : Registry[i] \in Backends
  BY RegisteredAreBackends
<1>2. Cheapest(cands) \in NamesOf(cands)
  <2> DEFINE key == [i \in cands |-> PriceOf(Registry[i], ModelOf[Registry[i]]).input]
  <2>1. key \in [cands -> Int]
    <3>1. ASSUME NEW i \in cands
          PROVE  PriceOf(Registry[i], ModelOf[Registry[i]]).input \in Int
      <4>1. PriceOf(Registry[i], ModelOf[Registry[i]]) \in Price
        BY <1>1, PriceType DEF RouteTypes
      <4>2. QED
        BY <4>1 DEF Price
    <3>2. QED
      BY <3>1
  <2>2. Cheapest(cands) = Registry[Min({i \in cands : \A j \in cands : key[i] <= key[j]})]
    BY DEF Cheapest, LeastBy
  <2> HIDE DEF key
  <2>3. QED
    BY <2>1, <2>2, FirstLeast DEF NamesOf
<1>3. Fastest(cands) \in NamesOf(cands)
  <2> DEFINE key == [i \in cands |-> IF latency[Registry[i]] = None THEN Never
                                     ELSE latency[Registry[i]]]
  <2>1. key \in [cands -> Int]
    BY <1>1 DEF RouteTypes, Never
  <2>2. Fastest(cands) = Registry[Min({i \in cands : \A j \in cands : key[i] <= key[j]})]
    BY DEF Fastest, LeastBy
  <2> HIDE DEF key
  <2>3. QED
    BY <2>1, <2>2, FirstLeast DEF NamesOf
<1>4. Strongest(cands) \in NamesOf(cands)
  <2> DEFINE key == [i \in cands |-> -Tier[Registry[i]]]
  <2>1. key \in [cands -> Int]
    BY <1>1, RouteAssumption
  <2>2. Strongest(cands) = Registry[Min({i \in cands : \A j \in cands : key[i] <= key[j]})]
    BY DEF Strongest, LeastBy
  <2> HIDE DEF key
  <2>3. QED
    BY <2>1, <2>2, FirstLeast DEF NamesOf
<1>5. QED
  BY <1>2, <1>3, <1>4

\* Whatever a brain learned or the intent model answers, its plan is a candidate.
LEMMA PlansAreCandidates ==
  ASSUME RouteTypes, NEW cands \in SUBSET (DOMAIN Registry), cands # {},
         NEW difficulty, NEW intent \in Intents, NEW allowed, NEW class,
         NEW who \in {"rules", "llm", "learned"}
  PROVE  BrainPlan(who, difficulty, intent, cands, allowed, class) \in NamesOf(cands)
<1>1. {Cheapest(cands), Fastest(cands), Strongest(cands)} \subseteq NamesOf(cands)
  BY PicksAreCandidates
<1>2. RulesPlan(difficulty, intent, cands) \in NamesOf(cands)
  BY <1>1 DEF RulesPlan, Intents
<1>3. LLMPlan(difficulty, intent, cands, class) \in NamesOf(cands)
  BY <1>1, <1>2 DEF LLMPlan
<1>4. LearnedPlan(difficulty, intent, cands, allowed, class) \in NamesOf(cands)
  BY <1>3 DEF LearnedPlan
<1>5. QED
  BY <1>2, <1>3, <1>4 DEF BrainPlan

-----------------------------------------------------------------------------
(* The scored choice.                                                      *)

\* x is first in S: the greatest by f, then by g, then the least by h.
FirstIn(S, x, f, g, h) ==
  \A y \in S \ {x} : \/ f[x] > f[y]
                     \/ f[x] = f[y] /\ g[x] > g[y]
                     \/ f[x] = f[y] /\ g[x] = g[y] /\ h[x] < h[y]

\* Finitely many things have a first.
LEMMA FirstByThree ==
  ASSUME NEW S, IsFiniteSet(S), S # {},
         NEW f \in [S -> Int], NEW g \in [S -> Int], NEW h \in [S -> Int],
         \A x, y \in S : h[x] = h[y] => x = y
  PROVE  \E x \in S : FirstIn(S, x, f, g, h)
<1> DEFINE A == {x \in S : \A y \in S : f[x] >= f[y]}
           B == {x \in A : \A y \in A : g[x] >= g[y]}
<1>1. A # {}
  <2> DEFINE e == [x \in S |-> -f[x]]
  <2>1. e \in [S -> Int] /\ \A x \in S : e[x] = -f[x]
    OBVIOUS
  <2> HIDE DEF e
  <2>2. PICK x \in S : \A y \in S : e[x] <= e[y]
    BY <2>1, LeastValue
  <2>3. ASSUME NEW y \in S PROVE f[x] >= f[y]
    <3>1. -f[x] <= -f[y] /\ f[x] \in Int /\ f[y] \in Int
      BY <2>1, <2>2
    <3>2. QED
      BY <3>1
  <2>4. QED
    BY <2>3
<1>2. IsFiniteSet(A) /\ A \subseteq S
  BY FS_Subset
<1>3. B # {}
  <2> DEFINE e == [x \in A |-> -g[x]]
  <2>1. e \in [A -> Int] /\ \A x \in A : e[x] = -g[x]
    OBVIOUS
  <2> HIDE DEF e, A
  <2>2. PICK x \in A : \A y \in A : e[x] <= e[y]
    BY <1>1, <1>2, <2>1, LeastValue
  <2>3. ASSUME NEW y \in A PROVE g[x] >= g[y]
    <3>1. -g[x] <= -g[y] /\ g[x] \in Int /\ g[y] \in Int
      BY <1>2, <2>1, <2>2
    <3>2. QED
      BY <3>1
  <2>4. QED
    BY <2>3
<1>4. IsFiniteSet(B) /\ B \subseteq A
  <2> HIDE DEF A
  <2>1. QED
    BY <1>2, FS_Subset
<1>5. PICK x \in B : \A y \in B : h[x] <= h[y]
  <2> DEFINE e == [x \in B |-> h[x]]
  <2>1. e \in [B -> Int] /\ \A x \in B : e[x] = h[x]
    BY <1>2, <1>4
  <2> HIDE DEF e, A, B
  <2>2. PICK x \in B : \A y \in B : e[x] <= e[y]
    BY <1>3, <1>4, <2>1, LeastValue
  <2>3. QED
    BY <2>1, <2>2
<1>6. x \in A /\ x \in S /\ \A y \in S : f[x] >= f[y]
  BY <1>5
<1>7. ASSUME NEW y \in S \ {x}
      PROVE  \/ f[x] > f[y]
             \/ f[x] = f[y] /\ g[x] > g[y]
             \/ f[x] = f[y] /\ g[x] = g[y] /\ h[x] < h[y]
  <2>1. CASE y \notin A
    <3>1. PICK z \in S : ~(f[y] >= f[z])
      BY <2>1
    <3>2. QED
      BY <1>6, <3>1
  <2>2. CASE y \in A /\ y \notin B
    <3>1. PICK z \in A : ~(g[y] >= g[z])
      BY <2>2
    <3>2. g[x] >= g[z]
      BY <1>5
    <3>3. f[x] = f[y] /\ g[x] \in Int /\ g[y] \in Int /\ g[z] \in Int
      BY <1>6, <2>2
    <3>4. QED
      BY <3>1, <3>2, <3>3
  <2>3. CASE y \in B
    <3>1. f[x] = f[y] /\ g[x] = g[y]
      <4>1. /\ f[x] >= f[y] /\ f[y] >= f[x] /\ g[x] >= g[y] /\ g[y] >= g[x]
        BY <1>5, <1>6, <2>3
      <4>2. f[x] \in Int /\ f[y] \in Int /\ g[x] \in Int /\ g[y] \in Int
        BY <1>6
      <4>3. QED
        BY <4>1, <4>2
    <3>2. h[x] <= h[y] /\ h[x] # h[y]
      BY <1>5, <1>6, <2>3
    <3>3. QED
      BY <1>6, <3>1, <3>2
  <2>4. QED
    BY <2>1, <2>2, <2>3
<1>8. QED
  BY <1>6, <1>7 DEF FirstIn

LEMMA Rounding ==
  ASSUME NEW m \in Int, NEW n \in Int, NEW d \in Nat \ {0}
  PROVE  /\ Rounded(m, d) \in Int /\ Rounded(n, d) \in Int
         /\ m <= n => Rounded(m, d) <= Rounded(n, d)
         /\ m + d <= n => Rounded(m, d) < Rounded(n, d)
<1> DEFINE a == 2 * m + d
           c == 2 * n + d
           b == 2 * d
<1>1. /\ a \in Int /\ c \in Int /\ b \in Nat \ {0}
      /\ m <= n => a <= c
      /\ m + d <= n => a + b <= c
  OBVIOUS
<1>2. Rounded(m, d) = a \div b /\ Rounded(n, d) = c \div b
  BY DEF Rounded
<1> HIDE DEF a, b, c
<1>3. QED
  BY <1>1, <1>2, Division

LEMMA Scaled ==
  ASSUME NEW a \in Int, NEW b \in Int, NEW k \in Nat
  PROVE  a * k \in Int /\ (a <= b => a * k <= b * k)
<1>1. a * k \in Int /\ b * k \in Int
  OBVIOUS
<1>2. ASSUME a <= b PROVE a * k <= b * k
  <2>1. b - a \in Nat
    BY <1>2
  <2>2. (b - a) * k \in Nat
    BY <2>1
  <2>3. (b - a) * k = b * k - a * k
    OBVIOUS
  <2>4. QED
    BY <1>1, <2>2, <2>3
<1>3. QED
  BY <1>1, <1>2

\* What a weight of at least two takes off for a cost or a latency.
LEMMA Penalty ==
  ASSUME NEW weight \in Nat, weight >= 2, NEW a \in Int, NEW b \in Int, b <= a,
         NEW unit \in Nat \ {0}, NEW other \in Nat \ {0}
  PROVE  /\ 100 * weight * a * other \in Int /\ 100 * weight * b * other \in Int
         /\ 100 * weight * b * other <= 100 * weight * a * other
         /\ 200 * (a - b) >= unit
              => 100 * weight * b * other + unit * other <= 100 * weight * a * other
<1> DEFINE k == 100 * weight
<1>1. k \in Nat /\ k >= 200
  OBVIOUS
<1> HIDE DEF k
<1>2. k * a \in Int /\ k * b \in Int /\ k * a - k * b = k * (a - b) /\ a - b \in Nat
  BY <1>1
<1>3. 200 * (a - b) <= k * (a - b)
  <2>1. 200 * (a - b) <= k * (a - b)
    BY <1>1, <1>2, Scaled
  <2>2. QED
    BY <2>1
<1>4. k * b <= k * a
  BY <1>2, <1>3
<1>5. k * a * other \in Int /\ k * b * other \in Int /\ k * b * other <= k * a * other
  BY <1>2, <1>4, Scaled
<1>6. ASSUME 200 * (a - b) >= unit PROVE k * b * other + unit * other <= k * a * other
  <2>1. k * b + unit <= k * a /\ k * b + unit \in Int
    BY <1>2, <1>3, <1>6
  <2>2. (k * b + unit) * other <= k * a * other
    BY <1>2, <2>1, Scaled
  <2>3. (k * b + unit) * other = k * b * other + unit * other
    BY <1>2
  <2>4. QED
    BY <2>2, <2>3
<1>7. QED
  BY <1>5, <1>6 DEF k

Candidate == [target : Nat, quality : Nat, cost : Nat, latency : Nat]
Weighting == [quality : Nat, cost : Nat \ {0, 1}, latency : Nat \ {0, 1}]

\* What a cost or a latency is divided by.
Unit(values) == IF Max(values) > Min(values) THEN Max(values) - Min(values) ELSE 1

LEMMA UnitIs ==
  ASSUME NEW values \in SUBSET Nat, IsFiniteSet(values), values # {}
  PROVE  /\ Min(values) \in Int /\ Max(values) \in Int
         /\ Unit(values) \in Nat \ {0} /\ Spread(values) \in Nat
         /\ \A x \in values : Min(values) <= x /\ x <= Max(values)
         /\ Spread(values) # 0 => Unit(values) = Spread(values)
<1>1. values \in SUBSET Int
  OBVIOUS
<1>2. /\ Max(values) \in values /\ \A y \in values : Max(values) >= y
      /\ Min(values) \in values /\ \A y \in values : Min(values) <= y
  BY <1>1, MaxOf, MinOf
<1>3. \A y \in values : y \in Nat
  OBVIOUS
<1>4. /\ Max(values) \in Nat /\ Min(values) \in Nat /\ Min(values) <= Max(values)
  BY <1>2, <1>3
<1>5. QED
  BY <1>2, <1>3, <1>4 DEF Unit, Spread

\* A candidate that has at least the quality for at most the cost and latency
\* does not score less, and scores more when the difference can be seen.
LEMMA ScoreOrder ==
  ASSUME NEW all \in SUBSET Candidate, IsFiniteSet(all), NEW w \in Weighting,
         NEW c \in all, NEW d \in all,
         d.quality >= c.quality, d.cost <= c.cost, d.latency <= c.latency
  PROVE  /\ Score(w, c, all) \in Int /\ Score(w, d, all) \in Int
         /\ Score(w, c, all) <= Score(w, d, all)
         /\ 200 * (c.cost - d.cost) > Spread({x.cost : x \in all})
              => Score(w, c, all) < Score(w, d, all)
         /\ 200 * (c.latency - d.latency) > Spread({x.latency : x \in all})
              => Score(w, c, all) < Score(w, d, all)
<1> DEFINE costs == {x.cost : x \in all}
           lats == {x.latency : x \in all}
           dc == Unit(costs)
           dl == Unit(lats)
           Q(x) == w.quality * x.quality * dc * dl
           C(x) == 100 * w.cost * (x.cost - Min(costs)) * dl
           L(x) == 100 * w.latency * (x.latency - Min(lats)) * dc
           N(x) == Q(x) - C(x) - L(x)
<1>1. \A x : Score(w, x, all) = Rounded(N(x), dc * dl)
  BY DEF Score, Unit
<1>2. /\ costs \in SUBSET Nat /\ IsFiniteSet(costs) /\ costs # {}
      /\ lats \in SUBSET Nat /\ IsFiniteSet(lats) /\ lats # {}
      /\ c.cost \in costs /\ d.cost \in costs /\ c.latency \in lats /\ d.latency \in lats
  <2>1. costs \in SUBSET Nat /\ lats \in SUBSET Nat
    BY DEF Candidate
  <2> DEFINE f == [x \in all |-> x.cost]
             g == [x \in all |-> x.latency]
  <2>2. IsFiniteSet(costs)
    <3>1. costs = {f[x] : x \in all}
      OBVIOUS
    <3> HIDE DEF f, costs
    <3>2. QED
      BY <3>1, FiniteImage
  <2>3. IsFiniteSet(lats)
    <3>1. lats = {g[x] : x \in all}
      OBVIOUS
    <3> HIDE DEF g, lats
    <3>2. QED
      BY <3>1, FiniteImage
  <2>4. QED
    BY <2>1, <2>2, <2>3
<1>3. /\ c.quality \in Nat /\ c.cost \in Nat /\ c.latency \in Nat
      /\ d.quality \in Nat /\ d.cost \in Nat /\ d.latency \in Nat
      /\ w.quality \in Nat /\ w.cost \in Nat /\ w.cost >= 2 /\ w.latency \in Nat /\ w.latency >= 2
  BY DEF Candidate, Weighting
<1> HIDE DEF costs, lats
<1>4. /\ dc \in Nat \ {0} /\ dl \in Nat \ {0}
      /\ c.cost - Min(costs) \in Int /\ d.cost - Min(costs) \in Int
      /\ c.latency - Min(lats) \in Int /\ d.latency - Min(lats) \in Int
      /\ 200 * (c.cost - d.cost) > Spread(costs) => 200 * (c.cost - d.cost) >= dc
      /\ 200 * (c.latency - d.latency) > Spread(lats) => 200 * (c.latency - d.latency) >= dl
  <2>1. /\ Min(costs) \in Int /\ Max(costs) \in Int
        /\ Unit(costs) \in Nat \ {0} /\ Spread(costs) \in Nat
        /\ Min(costs) <= d.cost /\ c.cost <= Max(costs)
        /\ Spread(costs) # 0 => Unit(costs) = Spread(costs)
    BY <1>2, UnitIs
  <2>2. /\ Min(lats) \in Int /\ Max(lats) \in Int
        /\ Unit(lats) \in Nat \ {0} /\ Spread(lats) \in Nat
        /\ Min(lats) <= d.latency /\ c.latency <= Max(lats)
        /\ Spread(lats) # 0 => Unit(lats) = Spread(lats)
    BY <1>2, UnitIs
  <2>3. c.cost - d.cost <= Spread(costs) /\ c.latency - d.latency <= Spread(lats)
    BY <1>3, <2>1, <2>2 DEF Spread
  <2>4. QED
    BY <1>3, <2>1, <2>2, <2>3
<1> HIDE DEF dc, dl
<1>5. Q(c) \in Int /\ Q(d) \in Int /\ Q(c) <= Q(d)
  <2>1. c.quality * w.quality <= d.quality * w.quality
    BY <1>3, Scaled
  <2>2. w.quality * c.quality \in Int /\ w.quality * d.quality \in Int
    BY <1>3
  <2>3. w.quality * c.quality <= w.quality * d.quality
    BY <1>3, <2>1
  <2>4. /\ w.quality * c.quality * dc \in Int /\ w.quality * d.quality * dc \in Int
        /\ w.quality * c.quality * dc <= w.quality * d.quality * dc
    BY <1>4, <2>2, <2>3, Scaled
  <2>5. QED
    BY <1>4, <2>4, Scaled
<1>6. /\ C(c) \in Int /\ C(d) \in Int /\ C(d) <= C(c)
      /\ 200 * (c.cost - d.cost) >= dc => C(d) + dc * dl <= C(c)
  <2> DEFINE a == c.cost - Min(costs)
             b == d.cost - Min(costs)
  <2>1. a \in Int /\ b \in Int /\ b <= a /\ a - b = c.cost - d.cost
    BY <1>2, <1>3, <1>4, UnitIs
  <2> HIDE DEF a, b
  <2>2. /\ 100 * w.cost * a * dl \in Int /\ 100 * w.cost * b * dl \in Int
        /\ 100 * w.cost * b * dl <= 100 * w.cost * a * dl
        /\ 200 * (a - b) >= dc => 100 * w.cost * b * dl + dc * dl <= 100 * w.cost * a * dl
    BY <1>3, <1>4, <2>1, Penalty
  <2>3. QED
    BY <2>1, <2>2 DEF a, b
<1>7. /\ L(c) \in Int /\ L(d) \in Int /\ L(d) <= L(c)
      /\ 200 * (c.latency - d.latency) >= dl => L(d) + dc * dl <= L(c)
  <2> DEFINE a == c.latency - Min(lats)
             b == d.latency - Min(lats)
  <2>1. a \in Int /\ b \in Int /\ b <= a /\ a - b = c.latency - d.latency
    BY <1>2, <1>3, <1>4, UnitIs
  <2> HIDE DEF a, b
  <2>2. /\ 100 * w.latency * a * dc \in Int /\ 100 * w.latency * b * dc \in Int
        /\ 100 * w.latency * b * dc <= 100 * w.latency * a * dc
        /\ 200 * (a - b) >= dl => 100 * w.latency * b * dc + dl * dc <= 100 * w.latency * a * dc
    BY <1>3, <1>4, <2>1, Penalty
  <2>3. dl * dc = dc * dl
    BY <1>4
  <2>4. QED
    BY <2>1, <2>2, <2>3 DEF a, b
<1>8. N(c) \in Int /\ N(d) \in Int /\ dc * dl \in Nat \ {0}
  <2>1. dc * dl \in Nat \ {0}
    BY <1>4
  <2>2. QED
    BY <1>5, <1>6, <1>7, <2>1
<1>9. N(c) <= N(d)
  BY <1>5, <1>6, <1>7
<1>10. 200 * (c.cost - d.cost) > Spread(costs) => N(c) + dc * dl <= N(d)
  BY <1>4, <1>5, <1>6, <1>7, <1>8
<1>11. 200 * (c.latency - d.latency) > Spread(lats) => N(c) + dc * dl <= N(d)
  BY <1>4, <1>5, <1>6, <1>7, <1>8
<1> HIDE DEF N
<1>12. QED
  BY <1>1, <1>8, <1>9, <1>10, <1>11, Rounding DEF costs, lats

\* The candidate that is first by score, quality and name.
Wins(w, c, all) ==
  \A d \in all \ {c} :
    \/ Score(w, c, all) > Score(w, d, all)
    \/ Score(w, c, all) = Score(w, d, all) /\ c.quality > d.quality
    \/ Score(w, c, all) = Score(w, d, all) /\ c.quality = d.quality /\ c.target < d.target

Scoreable(all) ==
  /\ all \in SUBSET Candidate /\ IsFiniteSet(all) /\ all # {}
  /\ \A x, y \in all : x.target = y.target => x = y

LEMMA OneResolves ==
  ASSUME NEW all, Scoreable(all), NEW intent \in {"cheapest", "fastest", "smartest"}
  PROVE  \E c \in all : Wins(Weights(intent), c, all) /\ Resolve(intent, all) = c.target
<1> DEFINE w == Weights(intent)
           f == [x \in all |-> Score(w, x, all)]
           g == [x \in all |-> x.quality]
           h == [x \in all |-> x.target]
<1>1. w \in Weighting
  BY DEF Weights, Weighting
<1> HIDE DEF w
<1>2. all \in SUBSET Candidate /\ IsFiniteSet(all) /\ all # {}
  BY DEF Scoreable
<1>3. \A x \in all : /\ Score(w, x, all) \in Int
                     /\ x.quality \in Nat /\ x.target \in Nat /\ x.cost \in Nat /\ x.latency \in Nat
  <2>1. \A x \in all : x.quality \in Nat /\ x.target \in Nat /\ x.cost \in Nat /\ x.latency \in Nat
    BY <1>2 DEF Candidate
  <2>2. ASSUME NEW x \in all PROVE Score(w, x, all) \in Int
    <3>1. x.quality >= x.quality /\ x.cost <= x.cost /\ x.latency <= x.latency
      BY <2>1
    <3>2. QED
      BY <1>1, <1>2, <3>1, ScoreOrder
  <2>3. QED
    BY <2>1, <2>2
<1>4. f \in [all -> Int] /\ g \in [all -> Int] /\ h \in [all -> Int]
  BY <1>3
<1>5. \A x, y \in all : h[x] = h[y] => x = y
  BY DEF Scoreable
<1>6. \A x \in all : f[x] = Score(w, x, all) /\ g[x] = x.quality /\ h[x] = x.target
  OBVIOUS
<1> HIDE DEF f, g, h
<1>7. PICK x \in all : FirstIn(all, x, f, g, h)
  BY <1>2, <1>4, <1>5, FirstByThree
<1>8. Wins(w, x, all)
  BY <1>6, <1>7 DEF Wins, FirstIn
<1>9. Resolve(intent, all) = (CHOOSE c \in all : Wins(w, c, all)).target
  BY DEF Resolve, Wins, w
<1>10. QED
  BY <1>8, <1>9 DEF w

\* Nothing that was compared is better than what is chosen.
LEMMA ResolvedIsUndominated ==
  ASSUME NEW all, Scoreable(all), NEW intent \in {"cheapest", "fastest", "smartest"}
  PROVE  NothingBetter(Resolve(intent, all), all)
<1>1. PICK best \in all : Wins(Weights(intent), best, all) /\ Resolve(intent, all) = best.target
  BY OneResolves
<1>2. Weights(intent) \in Weighting
  BY DEF Weights, Weighting
<1> DEFINE w == Weights(intent)
<1> HIDE DEF w
<1>3. SUFFICES ASSUME NEW c \in all, NEW d \in all, c.target = Resolve(intent, all),
                      d.quality >= c.quality, d.cost <= c.cost, d.latency <= c.latency
               PROVE  /\ d.quality = c.quality
                      /\ ~(200 * (c.cost - d.cost) > Spread({x.cost : x \in all}))
                      /\ ~(200 * (c.latency - d.latency) > Spread({x.latency : x \in all}))
  BY DEF NothingBetter
<1>4. c = best
  BY <1>1, <1>3 DEF Scoreable
<1>5. all \in SUBSET Candidate /\ IsFiniteSet(all)
  BY DEF Scoreable
<1>6. /\ Score(w, c, all) \in Int /\ Score(w, d, all) \in Int
      /\ Score(w, c, all) <= Score(w, d, all)
      /\ 200 * (c.cost - d.cost) > Spread({x.cost : x \in all})
           => Score(w, c, all) < Score(w, d, all)
      /\ 200 * (c.latency - d.latency) > Spread({x.latency : x \in all})
           => Score(w, c, all) < Score(w, d, all)
  BY <1>2, <1>3, <1>5, ScoreOrder DEF w
<1>7. ~(Score(w, c, all) < Score(w, d, all)) /\ d.quality = c.quality
  <2>1. c.quality \in Nat /\ d.quality \in Nat
    BY <1>5 DEF Candidate
  <2>2. CASE d = c
    BY <1>6, <2>1, <2>2
  <2>3. CASE d # c
    <3>1. \/ Score(w, c, all) > Score(w, d, all)
          \/ Score(w, c, all) = Score(w, d, all) /\ c.quality > d.quality
          \/ Score(w, c, all) = Score(w, d, all) /\ c.quality = d.quality
      BY <1>1, <1>4, <2>3 DEF Wins, w
    <3>2. QED
      BY <1>3, <1>6, <2>1, <3>1
  <2>4. QED
    BY <2>2, <2>3
<1>8. QED
  BY <1>6, <1>7

LEMMA CandidatesAreScoreable ==
  ASSUME RouteTypes, NEW cands \in SUBSET (DOMAIN Registry), cands # {}
  PROVE  Scoreable({Scored(b) : b \in NamesOf(cands)})
<1>1. \A b \in NamesOf(cands) : b \in Backends
  BY RegisteredAreBackends DEF NamesOf
<1>2. ASSUME NEW b \in Backends PROVE Scored(b) \in Candidate /\ Scored(b).target = b
  <2>1. b \in Nat
    BY PricesAssumption
  <2>2. PriceOf(b, ModelOf[b]).input \in Nat /\ PriceOf(b, ModelOf[b]).output \in Nat
    <3>1. PriceOf(b, ModelOf[b]) \in Price
      BY PriceType DEF RouteTypes
    <3>2. QED
      BY <3>1 DEF Price
  <2>3. Quality(b) \in Nat
    <3>1. Tier[b] \in 1..3
      BY RouteAssumption
    <3>2. QED
      BY <3>1 DEF Quality
  <2>4. (IF latency[b] = None THEN 0 ELSE latency[b]) \in Nat
    BY DEF RouteTypes
  <2>5. QED
    BY <2>1, <2>2, <2>3, <2>4 DEF Scored, Candidate
<1>3. IsFiniteSet({Scored(b) : b \in NamesOf(cands)})
  <2> DEFINE f == [i \in cands |-> Scored(Registry[i])]
  <2>1. {Scored(b) : b \in NamesOf(cands)} = {f[i] : i \in cands}
    BY DEF NamesOf
  <2>2. IsFiniteSet(cands)
    BY FinitelyMany
  <2> HIDE DEF f
  <2>3. QED
    BY <2>1, <2>2, FiniteImage
<1>4. {Scored(b) : b \in NamesOf(cands)} # {}
  BY DEF NamesOf
<1>5. QED
  BY <1>1, <1>2, <1>3, <1>4 DEF Scoreable

\* What the two-stage router chooses is a candidate that none dominates.
LEMMA SmartChoice ==
  ASSUME RouteTypes, NEW cands \in SUBSET (DOMAIN Registry), cands # {},
         NEW difficulty, NEW intent \in Intents
  PROVE  /\ SmartTarget(difficulty, intent, cands) \in NamesOf(cands)
         /\ NothingBetter(SmartTarget(difficulty, intent, cands),
                          {Scored(b) : b \in NamesOf(cands)})
<1> DEFINE all == {Scored(b) : b \in NamesOf(cands)}
           goal == CatalogIntent(intent, difficulty)
<1>1. goal \in {"cheapest", "fastest", "smartest"}
  BY DEF CatalogIntent, Intents
<1>2. Scoreable(all)
  BY CandidatesAreScoreable
<1>3. SmartTarget(difficulty, intent, cands) = Resolve(goal, all)
  BY DEF SmartTarget
<1>4. \A c \in all : c.target \in NamesOf(cands)
  BY DEF Scored
<1> HIDE DEF goal, all
<1>5. \E c \in all : Resolve(goal, all) = c.target
  BY <1>1, <1>2, OneResolves
<1>6. NothingBetter(Resolve(goal, all), all)
  BY <1>1, <1>2, ResolvedIsUndominated
<1>7. QED
  BY <1>3, <1>4, <1>5, <1>6 DEF all

-----------------------------------------------------------------------------
(* What was learned.                                                       *)

\* A mean that is not beaten by one that is not beaten by a third is not beaten by
\* the third: ra / na >= rb / nb >= rc / nc.
LEMMA MeansCompare ==
  ASSUME NEW ra \in Int, NEW rb \in Int, NEW rc \in Int,
         NEW na \in Nat \ {0}, NEW nb \in Nat \ {0}, NEW nc \in Nat \ {0},
         rb * na <= ra * nb, rc * nb <= rb * nc
  PROVE  rc * na <= ra * nc
<1>1. rb * na * nc <= ra * nb * nc /\ rb * na * nc \in Int /\ ra * nb * nc \in Int
  <2>1. rb * na \in Int /\ ra * nb \in Int
    OBVIOUS
  <2>2. QED
    BY <2>1, Scaled
<1>2. rc * nb * na <= rb * nc * na /\ rc * nb * na \in Int /\ rb * nc * na \in Int
  <2>1. rc * nb \in Int /\ rb * nc \in Int
    OBVIOUS
  <2>2. QED
    BY <2>1, Scaled
<1>3. rb * na * nc = rb * nc * na
  OBVIOUS
<1>4. rc * nb * na <= ra * nb * nc
  BY <1>1, <1>2, <1>3
<1>5. rc * nb * na = rc * na * nb /\ ra * nb * nc = ra * nc * nb
  OBVIOUS
<1>6. SUFFICES ASSUME ra * nc < rc * na PROVE FALSE
  OBVIOUS
<1>7. ra * nc + 1 <= rc * na /\ ra * nc + 1 \in Int /\ rc * na \in Int
  BY <1>6
<1>8. (ra * nc + 1) * nb <= rc * na * nb
  BY <1>7, Scaled
<1>9. (ra * nc + 1) * nb = ra * nc * nb + nb
  OBVIOUS
<1>10. QED
  BY <1>1, <1>2, <1>4, <1>5, <1>8, <1>9

\* Traces and rewards of a backend in a bucket.
Count(difficulty, b) == Cardinality(Bucket(difficulty, b))
Sum(difficulty, b) == Rewards(Bucket(difficulty, b))

LEMMA RewardsIs ==
  ASSUME NEW S, IsFiniteSet(S), S \subseteq DOMAIN routeTraces
  PROVE  Rewards(S) = Total([id \in DOMAIN routeTraces |-> routeTraces[id].reward], S)
<1> DEFINE w == [id \in DOMAIN routeTraces |-> routeTraces[id].reward]
           Adds(g) ==
             g = [s \in SUBSET S |->
                    IF s = {} THEN 0
                    ELSE routeTraces[CHOOSE x \in s : TRUE].reward + g[s \ {CHOOSE x \in s : TRUE}]]
<1>1. \A s \in SUBSET S : s # {} => w[Pick(s)] = routeTraces[Pick(s)].reward
  BY PickIn
<1>2. \A g : Adds(g) <=> IsSum(g, w, S)
  BY <1>1 DEF IsSum, SumsOn, SumStep, Pick
<1> HIDE DEF w
<1>3. PICK h : IsSum(h, w, S) /\ Total(w, S) = h[S]
  BY TotalIs
<1>4. \E g : Adds(g) /\ Rewards(S) = g[S]
  BY <1>2, <1>3 DEF Rewards, MapThenSumSet, MapThenFoldSet
<1>5. PICK g : IsSum(g, w, S) /\ Rewards(S) = g[S]
  BY <1>2, <1>4
<1>6. \A s \in SUBSET S : g[s] = h[s]
  BY <1>3, <1>5, SumUnique
<1>7. QED
  BY <1>3, <1>5, <1>6 DEF w

LEMMA BucketTypes ==
  ASSUME LearningTypeOK, NEW difficulty, NEW b
  PROVE  /\ Count(difficulty, b) \in Nat /\ Sum(difficulty, b) \in Int
         /\ Count(difficulty, b) = 0 <=> Bucket(difficulty, b) = {}
<1> DEFINE S == Bucket(difficulty, b)
           w == [id \in DOMAIN routeTraces |-> routeTraces[id].reward]
<1>1. IsFiniteSet(S) /\ S \subseteq DOMAIN routeTraces
  BY FS_Subset DEF LearningTypeOK, TraceTable, Bucket
<1>2. \A id \in S : w[id] \in Int
  <2>1. \A id \in DOMAIN routeTraces : routeTraces[id] \in RouteTrace
    BY DEF LearningTypeOK, TraceTable
  <2>2. \A id \in DOMAIN routeTraces : routeTraces[id].reward \in Int
    BY <2>1 DEF RouteTrace
  <2>3. QED
    BY <1>1, <2>2
<1> HIDE DEF S
<1>3. Rewards(S) = Total(w, S)
  BY <1>1, RewardsIs
<1> HIDE DEF w
<1>4. Rewards(S) \in Int
  BY <1>1, <1>2, <1>3, SumIsInt
<1>5. Cardinality(S) \in Nat /\ (Cardinality(S) = 0 <=> S = {})
  BY <1>1, FS_CardinalityType, FS_EmptySet
<1>6. QED
  BY <1>4, <1>5 DEF Count, Sum, S

\* b may be preferred.
Earns(difficulty, allowed, b) ==
  /\ Count(difficulty, b) >= MinTraces
  /\ allowed = None \/ b \in allowed
  /\ Sum(difficulty, b) > 0

\* best is what should be preferred of the backends in s.
BestOf(difficulty, allowed, s, best) ==
  IF \A b \in s : ~Earns(difficulty, allowed, b) THEN best = None
  ELSE /\ best \in s /\ Earns(difficulty, allowed, best)
       /\ \A b \in s : Earns(difficulty, allowed, b) =>
            ~Better(Bucket(difficulty, b), Bucket(difficulty, best))

LEMMA BetterIs ==
  ASSUME NEW difficulty, NEW b, NEW c
  PROVE  Better(Bucket(difficulty, b), Bucket(difficulty, c)) <=>
           Sum(difficulty, b) * Count(difficulty, c) > Sum(difficulty, c) * Count(difficulty, b)
  BY DEF Better, Sum, Count

\* One backend more.
LEMMA OneMorePreferred ==
  ASSUME LearningTypeOK, NEW difficulty, NEW allowed, NEW s \in SUBSET Backends, NEW b \in s,
         NEW best, BestOf(difficulty, allowed, s \ {b}, best)
  PROVE  BestOf(difficulty, allowed, s, Prefer(difficulty, allowed, b, best))
<1> DEFINE N(c) == Count(difficulty, c)
           R(c) == Sum(difficulty, c)
           E(c) == Earns(difficulty, allowed, c)
           Beats(c, d) == Better(Bucket(difficulty, c), Bucket(difficulty, d))
           cond == /\ N(b) >= MinTraces
                   /\ allowed = None \/ b \in allowed
                   /\ IF best = None THEN R(b) > 0 ELSE Beats(b, best)
<1>1. \A c : N(c) \in Nat /\ R(c) \in Int
  BY BucketTypes
<1>2. \A c, d : Beats(c, d) <=> R(c) * N(d) > R(d) * N(c)
  BY BetterIs
<1>3. \A c : E(c) <=> N(c) >= MinTraces /\ (allowed = None \/ c \in allowed) /\ R(c) > 0
  BY DEF Earns
<1>4. MinTraces \in Nat \ {0} /\ None \notin s
  BY RouteAssumption
<1>5. Prefer(difficulty, allowed, b, best) = IF cond THEN b ELSE best
  BY DEF Prefer, Count, Sum
<1>6. IF \A c \in s \ {b} : ~E(c) THEN best = None
      ELSE /\ best \in s \ {b} /\ E(best) /\ \A c \in s \ {b} : E(c) => ~Beats(c, best)
  BY DEF BestOf
<1>7. SUFFICES
        IF \A c \in s : ~E(c) THEN (IF cond THEN b ELSE best) = None
        ELSE /\ (IF cond THEN b ELSE best) \in s /\ E(IF cond THEN b ELSE best)
             /\ \A c \in s : E(c) => ~Beats(c, IF cond THEN b ELSE best)
  BY <1>5 DEF BestOf
<1> HIDE DEF N, R, E, Beats
<1>8. ~Beats(b, b)
  <2>1. R(b) * N(b) \in Int
    BY <1>1
  <2>2. QED
    BY <1>2, <2>1
<1>9. CASE best = None
  <2>1. \A c \in s \ {b} : ~E(c)
    BY <1>4, <1>6, <1>9
  <2>2. cond <=> E(b)
    BY <1>3, <1>9
  <2>3. QED
    BY <1>8, <1>9, <2>1, <2>2
<1>10. CASE best # None
  <2>1. best \in s \ {b} /\ E(best) /\ \A c \in s \ {b} : E(c) => ~Beats(c, best)
    BY <1>6, <1>10
  <2>2. N(best) \in Nat \ {0} /\ R(best) > 0
    BY <1>1, <1>3, <1>4, <2>1
  <2>3. CASE cond
    <3>1. N(b) \in Nat \ {0} /\ Beats(b, best)
      BY <1>1, <1>4, <1>10, <2>3
    <3>2. R(best) * N(b) < R(b) * N(best) /\ R(best) * N(b) \in Int /\ R(b) * N(best) \in Int
      BY <1>1, <1>2, <3>1
    <3>3. R(b) > 0
      <4>1. R(best) * N(b) > 0
        BY <1>1, <2>2, <3>1
      <4>2. SUFFICES ASSUME R(b) <= 0 PROVE FALSE
        BY <1>1
      <4>3. R(b) * N(best) <= 0 * N(best)
        BY <1>1, <4>2, Scaled
      <4>4. 0 * N(best) = 0
        BY <1>1
      <4>5. QED
        BY <3>2, <4>1, <4>3, <4>4
    <3>4. E(b)
      BY <1>3, <2>3, <3>3
    <3>5. ASSUME NEW c \in s, E(c) PROVE ~Beats(c, b)
      <4>1. CASE c = b
        BY <1>8, <4>1
      <4>2. CASE c # b
        <5>1. ~Beats(c, best) /\ N(c) \in Nat \ {0}
          BY <1>1, <1>3, <1>4, <2>1, <3>5, <4>2
        <5>2. R(c) * N(best) <= R(best) * N(c)
          <6>1. R(c) * N(best) \in Int /\ R(best) * N(c) \in Int
            BY <1>1
          <6>2. QED
            BY <1>2, <5>1, <6>1
        <5>3. R(best) * N(b) <= R(b) * N(best)
          BY <3>2
        <5>4. R(c) * N(b) <= R(b) * N(c)
          BY <1>1, <2>2, <3>1, <5>1, <5>2, <5>3, MeansCompare
        <5>5. R(c) * N(b) \in Int /\ R(b) * N(c) \in Int
          BY <1>1
        <5>6. QED
          BY <1>2, <5>4, <5>5
      <4>3. QED
        BY <4>1, <4>2
    <3>6. QED
      BY <2>3, <3>4, <3>5
  <2>4. CASE ~cond
    <3>1. E(b) => ~Beats(b, best)
      BY <1>3, <1>10, <2>4
    <3>2. \A c \in s : E(c) => ~Beats(c, best)
      BY <2>1, <3>1
    <3>3. QED
      BY <2>1, <2>4, <3>2
  <2>5. QED
    BY <2>3, <2>4
<1>11. QED
  BY <1>9, <1>10

\* One step of the loop over the backends in s, given what it prefers of fewer.
PreferOf(difficulty, allowed, h, s) ==
  IF s = {} THEN None ELSE Prefer(difficulty, allowed, Max(s), h[s \ {Max(s)}])

\* h gives what the loop prefers of every set in D.
PrefersOn(difficulty, allowed, h, D) ==
  h = [s \in D |-> PreferOf(difficulty, allowed, h, s)]

LEMMA LastBackend ==
  ASSUME NEW s \in SUBSET Backends, s # {}
  PROVE  Max(s) \in s
<1>1. IsFiniteSet(s)
  BY PricesAssumption, FS_Subset
<1>2. s \in SUBSET Int
  BY PricesAssumption
<1>3. QED
  BY <1>1, <1>2, MaxOf

LEMMA LoopEnds ==
  ASSUME NEW difficulty, NEW allowed
  PROVE  \E h : PrefersOn(difficulty, allowed, h, SUBSET Backends)
<1> DEFINE D(n) == {s \in SUBSET Backends : Cardinality(s) <= n}
           P == {n \in Nat : \E h : PrefersOn(difficulty, allowed, h, D(n))}
<1>0. \A s \in SUBSET Backends : IsFiniteSet(s) /\ Cardinality(s) \in Nat
  BY PricesAssumption, FS_Subset, FS_CardinalityType
<1>1. 0 \in P
  <2>1. D(0) = {{}}
    BY <1>0, FS_EmptySet
  <2> DEFINE h == [s \in D(0) |-> None]
  <2>2. PrefersOn(difficulty, allowed, h, D(0))
    BY <2>1 DEF PrefersOn, PreferOf
  <2>3. QED
    BY <2>2
<1>2. ASSUME NEW n \in Nat, NEW h, PrefersOn(difficulty, allowed, h, D(n))
      PROVE  \E f : PrefersOn(difficulty, allowed, f, D(n + 1))
  <2> DEFINE g == [s \in D(n + 1) |-> PreferOf(difficulty, allowed, h, s)]
  <2>1. \A s \in D(n) : s \in D(n + 1) /\ g[s] = h[s]
    BY <1>0, <1>2 DEF PrefersOn
  <2>2. ASSUME NEW s \in D(n + 1), s # {} PROVE s \ {Max(s)} \in D(n)
    BY <2>2, <1>0, LastBackend, OneLess
  <2>3. \A s \in D(n + 1) :
          PreferOf(difficulty, allowed, h, s) = PreferOf(difficulty, allowed, g, s)
    BY <2>1, <2>2 DEF PreferOf
  <2>4. PrefersOn(difficulty, allowed, g, D(n + 1))
    BY <2>3 DEF PrefersOn
  <2> HIDE DEF g, D
  <2>5. QED
    BY <2>4
<1>3. \A n \in P : n + 1 \in P
  <2> HIDE DEF D
  <2>1. QED
    BY <1>2
<1>4. Cardinality(Backends) \in P
  <2> HIDE DEF P
  <2>1. P \in SUBSET Nat
    BY DEF P
  <2>2. P = Nat
    BY <1>1, <1>3, <2>1, CountingUp
  <2>3. QED
    BY <1>0, <2>2
<1>5. D(Cardinality(Backends)) = SUBSET Backends
  BY <1>0, PricesAssumption, FS_Subset
<1>6. QED
  BY <1>4, <1>5

LEMMA PreferenceIsBest ==
  ASSUME LearningTypeOK, NEW difficulty, NEW allowed
  PROVE  BestOf(difficulty, allowed, Backends, Preference(difficulty, allowed))
<1>1. \E h : /\ PrefersOn(difficulty, allowed, h, SUBSET Backends)
             /\ Preference(difficulty, allowed) = h[Backends]
  <2>1. \E h : PrefersOn(difficulty, allowed, h, SUBSET Backends)
    BY LoopEnds
  <2>2. Preference(difficulty, allowed)
          = (CHOOSE h : PrefersOn(difficulty, allowed, h, SUBSET Backends))[Backends]
    BY DEF Preference, MapThenFoldSet, PrefersOn, PreferOf
  <2>3. QED
    BY <2>1, <2>2
<1>2. PICK h : /\ PrefersOn(difficulty, allowed, h, SUBSET Backends)
               /\ Preference(difficulty, allowed) = h[Backends]
  BY <1>1
<1>3. /\ h[{}] = None
      /\ \A s \in SUBSET Backends :
           s # {} => h[s] = Prefer(difficulty, allowed, Max(s), h[s \ {Max(s)}])
  BY <1>2 DEF PrefersOn, PreferOf
<1>0. \A s \in SUBSET Backends : IsFiniteSet(s) /\ Cardinality(s) \in Nat
  BY PricesAssumption, FS_Subset, FS_CardinalityType
<1> DEFINE Good(s) == BestOf(difficulty, allowed, s, h[s])
           P == {n \in Nat : \A s \in SUBSET Backends : Cardinality(s) <= n => Good(s)}
<1>4. Good({})
  BY <1>3 DEF BestOf
<1>5. ASSUME NEW s \in SUBSET Backends, s # {}, Good(s \ {Max(s)}) PROVE Good(s)
  <2>1. Max(s) \in s
    BY <1>5, LastBackend
  <2>2. BestOf(difficulty, allowed, s,
               Prefer(difficulty, allowed, Max(s), h[s \ {Max(s)}]))
    BY <1>5, <2>1, OneMorePreferred
  <2>3. QED
    BY <1>3, <1>5, <2>2
<1> HIDE DEF Good
<1>6. 0 \in P
  <2>1. \A s \in SUBSET Backends : Cardinality(s) <= 0 => s = {}
    BY <1>0, FS_EmptySet
  <2>2. QED
    BY <1>4, <2>1
<1>7. ASSUME NEW n \in Nat, \A s \in SUBSET Backends : Cardinality(s) <= n => Good(s),
             NEW s \in SUBSET Backends, Cardinality(s) <= n + 1
      PROVE  Good(s)
  <2>1. CASE s = {}
    BY <1>4, <2>1
  <2>2. CASE s # {}
    <3>1. Max(s) \in s
      BY <2>2, LastBackend
    <3>2. Cardinality(s \ {Max(s)}) <= n
      BY <1>0, <1>7, <3>1, OneLess
    <3>3. QED
      BY <1>5, <1>7, <2>2, <3>2
  <2>3. QED
    BY <2>1, <2>2
<1>8. P = Nat
  <2>1. \A n \in P : n + 1 \in P
    BY <1>7
  <2>2. P \in SUBSET Nat
    OBVIOUS
  <2> HIDE DEF P
  <2>3. QED
    BY <1>6, <2>1, <2>2, CountingUp
<1>9. Good(Backends)
  BY <1>0, <1>8
<1>10. QED
  BY <1>2, <1>9 DEF Good

\* What is preferred was earned, whatever the table has and whatever is allowed.
LEMMA PreferencesAreEarned == LearningTypeOK => PreferenceEarned
<1> SUFFICES ASSUME LearningTypeOK PROVE PreferenceEarned
  OBVIOUS
<1> DEFINE known == {routeTraces[id].backend : id \in DOMAIN routeTraces}
           traces(difficulty) == [b \in known |-> Bucket(difficulty, b)]
           earned(difficulty) == {b \in known : /\ Cardinality(traces(difficulty)[b]) >= MinTraces
                                                /\ Rewards(traces(difficulty)[b]) > 0}
           permits(without) == IF without = {} THEN None ELSE known \ without
<1>1. SUFFICES ASSUME NEW difficulty \in {routeTraces[id].difficulty : id \in DOMAIN routeTraces},
                      NEW without \in {{}} \cup {{b} : b \in known}
               PROVE  LET best == Preference(difficulty, permits(without)) IN
                      IF earned(difficulty) \ without = {} THEN best = None
                      ELSE /\ best \in earned(difficulty) \ without
                           /\ \A b \in earned(difficulty) \ without :
                                ~Better(traces(difficulty)[b], traces(difficulty)[best])
  BY DEF PreferenceEarned
<1> DEFINE best == Preference(difficulty, permits(without))
           E(b) == Earns(difficulty, permits(without), b)
           good == earned(difficulty) \ without
<1>2. known \subseteq Backends
  BY DEF LearningTypeOK, TraceTable, RouteTrace
<1>3. \A b \in known : traces(difficulty)[b] = Bucket(difficulty, b)
  OBVIOUS
<1>4. ASSUME NEW b \in Backends PROVE E(b) <=> b \in good
  <2>1. CASE b \in known
    <3>1. b \in earned(difficulty) <=> Count(difficulty, b) >= MinTraces /\ Sum(difficulty, b) > 0
      BY <1>3, <2>1 DEF Count, Sum
    <3>2. (permits(without) = None \/ b \in permits(without)) <=> b \notin without
      <4>1. CASE without = {}
        BY <4>1
      <4>2. CASE without # {}
        <5>1. permits(without) = known \ without /\ permits(without) \in SUBSET Backends
          BY <1>2, <4>2
        <5>2. permits(without) # None
          BY <5>1, RouteAssumption
        <5>3. QED
          BY <2>1, <5>1, <5>2
      <4>3. QED
        BY <4>1, <4>2
    <3> HIDE DEF known, traces, earned, permits
    <3>3. QED
      BY <3>1, <3>2 DEF Earns
  <2>2. CASE b \notin known
    <3>1. Bucket(difficulty, b) = {}
      BY <2>2 DEF Bucket
    <3>2. Count(difficulty, b) = 0
      BY <3>1, BucketTypes
    <3>3. ~E(b)
      BY <3>2, RouteAssumption DEF Earns
    <3>4. QED
      BY <2>2, <3>3
  <2>3. QED
    BY <2>1, <2>2
<1>5. BestOf(difficulty, permits(without), Backends, best)
  BY PreferenceIsBest
<1>6. good \subseteq known
  OBVIOUS
<1> HIDE DEF known, traces, earned, permits, best, good
<1>7. IF good = {} THEN best = None
      ELSE best \in good /\ \A b \in good : ~Better(Bucket(difficulty, b), Bucket(difficulty, best))
  <2>1. IF \A b \in Backends : ~E(b) THEN best = None
        ELSE /\ best \in Backends /\ E(best)
             /\ \A b \in Backends : E(b) => ~Better(Bucket(difficulty, b), Bucket(difficulty, best))
    BY <1>5 DEF BestOf
  <2> HIDE DEF E
  <2>2. QED
    BY <1>2, <1>4, <1>6, <2>1
<1>8. QED
  BY <1>3, <1>6, <1>7 DEF best, good

-----------------------------------------------------------------------------
(* The inductive invariant.                                                *)

Entry == [key : {CacheKey(k) : k \in Kinds}, team : {k.team : k \in Kinds},
          endpoint : Endpoints, backend : Backends, embedded : BOOLEAN,
          hits : Nat, by : Kinds]

\* A row is as the request says that it answers, and that one may be reused.
Honest(e) ==
  /\ e.key = CacheKey(e.by) /\ e.team = e.by.team /\ e.endpoint = e.by.endpoint
  /\ ~e.by.sensitive /\ e.by.deterministic

Same(e, f) == e.key = f.key /\ e.team = f.team

CacheSound ==
  /\ cache \in Seq(Entry) /\ savings \in Seq(Endpoints)
  /\ \A i \in DOMAIN cache : Honest(cache[i])
  /\ \A i, j \in DOMAIN cache : Same(cache[i], cache[j]) => i = j

\* What ReuseScoped says of a request of kind k and the entry it is given.
Reusable(k, e) ==
  /\ e.by.team = k.team /\ e.by.endpoint = k.endpoint
  /\ ~k.sensitive /\ ~e.by.sensitive
  /\ k.deterministic /\ e.by.deterministic
  /\ CacheKey(k) # CacheKey(e.by) =>
       /\ EffectiveStrategy(k) = "semantic" /\ e.embedded
       /\ Similarity[k.question, e.by.question] >= Config(k.endpoint).threshold

\* A hit's row is still there, unless the cache was cleared.
HitOK(x) ==
  /\ x.entry \in Entry /\ Honest(x.entry) /\ Reusable(x.kind, x.entry)
  /\ raced \/ \E i \in DOMAIN cache : Same(cache[i], x.entry)

InferOK(x) ==
  /\ x.plan \in x.eligible /\ x.eligible \subseteq Backends
  /\ x.plan \in NamesOf(DOMAIN Registry)
  /\ sovereign => InBoundary[x.plan]
  /\ IsAuto(x.kind) /\ x.kind.allowed # None => x.plan \in x.kind.allowed
  /\ NothingBetter(x.plan, x.known)
  /\ x.cacheable => ~x.kind.sensitive /\ x.kind.deterministic

\* As long as the day lasts, a trace's cost is what the backend costs.
TracedOK(x) ==
  /\ x.backend \in Backends /\ x.since \in 0..today
  /\ x.since = today => x.traced = CostOf(x.backend, TracedModel(x.kind, x.backend), x.tokens)

ServedOK(x) ==
  IF x.reused THEN x.charged = 0 /\ x.traced = 0
  ELSE ~x.own /\ ~x.late => x.charged = x.traced

ReqOK(r) ==
  /\ req[r].stage \in Stages
  /\ req[r].stage \in {"hit", "traced"} <=> loop = r
  /\ req[r].stage \in {"hit", "inferring", "traced", "served"} => req[r].kind \in Kinds
  /\ req[r].stage = "hit" => HitOK(req[r])
  /\ req[r].stage = "inferring" => InferOK(req[r])
  /\ req[r].stage = "traced" => TracedOK(req[r])
  /\ req[r].stage = "served" => ServedOK(req[r])

ReqSound ==
  /\ req = [r \in Requests |-> req[r]]
  /\ loop \in Requests \cup {None}
  /\ \A r \in Requests : ReqOK(r)

RouteSound == latency \in [Backends -> Latencies \cup {None}] /\ brain \in Brains

Inv ==
  /\ PricesTypeOK /\ RouteSound
  /\ LearningTypeOK /\ LearnsOutcomes
  /\ FeatureTable(features) /\ CacheSound /\ HitsAccounted
  /\ changes \in 0..MaxChanges
  /\ ReqSound


-----------------------------------------------------------------------------
(* The requests.                                                           *)

\* Request r is in its handler: nothing that the other requests rest on changes.
Handles(r) ==
  /\ loop \in {None, r} /\ loop' \in {None, r}
  /\ req' = [req EXCEPT ![r] = req'[r]]
  /\ sovereign' = sovereign

LEMMA OthersKept ==
  ASSUME ReqSound, NEW r \in Requests, Handles(r)
  PROVE  /\ \A q \in Requests \ {r} : req'[q] = req[q] /\ ReqOK(q)'
         /\ req' = [q \in Requests |-> req'[q]]
         /\ loop' \in Requests \cup {None}
<1>1. None \notin Requests
  BY AutoAssumption
<1>2. req' = [q \in Requests |-> req'[q]] /\ \A q \in Requests \ {r} : req'[q] = req[q]
  BY DEF ReqSound, Handles
<1>3. ASSUME NEW q \in Requests \ {r} PROVE ReqOK(q)'
  <2>1. ReqOK(q) /\ req'[q] = req[q]
    BY <1>2 DEF ReqSound
  <2>2. loop # q /\ loop' # q
    BY <1>1 DEF Handles
  <2>3. req[q].stage \notin {"hit", "traced"}
    BY <2>1, <2>2 DEF ReqOK
  <2>4. req[q].stage = "inferring" => InferOK(req[q])'
    BY <2>1 DEF ReqOK, InferOK, Handles
  <2>5. req[q].stage = "served" => ServedOK(req[q])'
    BY <2>1 DEF ReqOK, ServedOK
  <2>6. QED
    BY <2>1, <2>2, <2>3, <2>4, <2>5 DEF ReqOK
<1>4. loop' \in Requests \cup {None}
  BY DEF Handles
<1>5. QED
  BY <1>2, <1>3, <1>4

LEMMA HandledSound ==
  ASSUME ReqSound, NEW r \in Requests, Handles(r), ReqOK(r)'
  PROVE  ReqSound'
<1>1. \A q \in Requests : ReqOK(q)'
  BY OthersKept
<1>2. QED
  BY <1>1, OthersKept DEF ReqSound

\* No request is in the middle of its handler, and none is touched.
LEMMA CalmKept ==
  ASSUME ReqSound, loop = None, loop' = loop, req' = req, sovereign' = sovereign
  PROVE  ReqSound'
<1>1. ASSUME NEW q \in Requests PROVE ReqOK(q)'
  <2>1. ReqOK(q) /\ loop # q
    BY AutoAssumption DEF ReqSound
  <2>2. req[q].stage \notin {"hit", "traced"}
    BY <2>1 DEF ReqOK
  <2>3. req[q].stage = "inferring" => InferOK(req[q])'
    BY <2>1 DEF ReqOK, InferOK
  <2>4. req[q].stage = "served" => ServedOK(req[q])'
    BY <2>1 DEF ReqOK, ServedOK
  <2>5. QED
    BY <2>1, <2>2, <2>3, <2>4 DEF ReqOK
<1>2. QED
  BY <1>1 DEF ReqSound

\* What the lookup finds may be reused.
LEMMA FoundIsReusable ==
  ASSUME CacheSound, NEW k \in Kinds, IsCacheable(k), Lookup(k) # 0
  PROVE  LET e == cache[Lookup(k)] IN
         Lookup(k) \in DOMAIN cache /\ e \in Entry /\ Honest(e) /\ Reusable(k, e)
<1> DEFINE Sim(i) == Similarity[k.question, cache[i].key.question]
           near == {i \in Similar(k) : /\ EffectiveStrategy(k) = "semantic"
                                       /\ Sim(i) >= Config(k.endpoint).threshold}
           i0 == Lookup(k)
<1>1. i0 \in Exact(k) \cup near
  BY DEF Lookup
<1>2. i0 \in DOMAIN cache
  BY <1>1 DEF Exact, Similar
<1>3. cache[i0] \in Entry /\ Honest(cache[i0])
  BY <1>2 DEF CacheSound
<1>4. ~k.sensitive /\ k.deterministic
  BY DEF IsCacheable
<1>5. CASE i0 \in Exact(k)
  <2>1. CacheKey(cache[i0].by) = CacheKey(k) /\ cache[i0].by.team = k.team /\ cache[i0].by \in Kinds
    BY <1>3, <1>5 DEF Exact, Honest, Entry
  <2>2. cache[i0].by.endpoint = k.endpoint
    BY <2>1, AutoAssumption DEF CacheKey
  <2>3. QED
    BY <1>2, <1>3, <1>4, <2>1, <2>2 DEF Reusable, Honest
<1>6. CASE i0 \in near
  <2>1. cache[i0].team = k.team /\ cache[i0].endpoint = k.endpoint /\ cache[i0].embedded
    BY <1>6 DEF Similar
  <2>2. cache[i0].key.question = cache[i0].by.question
    BY <1>3 DEF Honest, CacheKey
  <2>3. QED
    BY <1>2, <1>3, <1>4, <1>6, <2>1, <2>2 DEF Reusable, Honest
<1>7. QED
  BY <1>1, <1>5, <1>6

LEMMA FindHitKeeps ==
  ASSUME Inv, NEW r \in Requests, NEW k \in Kinds, FindHit(r, k)
  PROVE  ReqSound'
<1>1. ReqSound /\ CacheSound /\ None \notin Requests
  BY AutoAssumption DEF Inv
<1>2. IsCacheable(k) /\ Lookup(k) # 0
  BY DEF FindHit
<1>3. PICK e : /\ e = cache[Lookup(k)] /\ Lookup(k) \in DOMAIN cache
               /\ e \in Entry /\ Honest(e) /\ Reusable(k, e)
  BY <1>1, <1>2, FoundIsReusable
<1> DEFINE x == [stage |-> "hit", kind |-> k, entry |-> e]
<1>4. req'[r] = x /\ req' = [req EXCEPT ![r] = x]
  BY <1>1, <1>3 DEF FindHit, ReqSound
<1>5. /\ cache' = cache /\ features' = features /\ raced' = raced /\ loop' = r
      /\ loop = None /\ sovereign' = sovereign
  BY DEF FindHit, reuseVars, routeVars
<1>6. Handles(r)
  BY <1>4, <1>5 DEF Handles
<1>7. HitOK(x)'
  <2>1. Reusable(k, e)'
    BY <1>3, <1>5 DEF Reusable, EffectiveStrategy, Config
  <2>2. \E i \in DOMAIN cache' : Same(cache'[i], e)
    BY <1>3, <1>5 DEF Same
  <2>3. QED
    BY <1>3, <2>1, <2>2 DEF HitOK
<1>8. ReqOK(r)'
  <2>1. x.stage = "hit" /\ x.kind = k
    OBVIOUS
  <2> HIDE DEF x
  <2>2. QED
    BY <1>4, <1>5, <1>7, <2>1 DEF ReqOK, Stages
<1>9. QED
  BY <1>1, <1>6, <1>8, HandledSound

LEMMA ServeHitKeeps ==
  ASSUME Inv, NEW r \in Requests, ServeHit(r)
  PROVE  ReqSound'
<1>1. ReqSound /\ ReqOK(r) /\ None \notin Requests
  BY AutoAssumption DEF Inv, ReqSound
<1>2. /\ req' = [req EXCEPT ![r] = Reused(req[r].kind, 0)] /\ req'[r] = Reused(req[r].kind, 0)
      /\ loop' = None /\ loop = r /\ sovereign' = sovereign
  BY <1>1 DEF ServeHit, ReqSound, routeVars
<1>3. Handles(r)
  BY <1>2 DEF Handles
<1>4. ReqOK(r)'
  <2>1. req[r].kind \in Kinds
    BY <1>1 DEF ReqOK, ServeHit
  <2>2. QED
    BY <1>1, <1>2, <2>1 DEF ReqOK, Stages, Reused, ServedOK
<1>5. QED
  BY <1>1, <1>3, <1>4, HandledSound

\* A request goes to the backend that was chosen of the eligible ones.
LEMMA InferenceStarts ==
  ASSUME ReqSound, NEW r \in Requests, NEW k \in Kinds, NEW plan, NEW eligible, NEW known,
         loop = None, loop' = loop, sovereign' = sovereign,
         req' = [req EXCEPT ![r] = Inferring(k, plan, eligible, known)],
         plan \in eligible, eligible \subseteq Backends, plan \in NamesOf(DOMAIN Registry),
         sovereign => InBoundary[plan],
         IsAuto(k) /\ k.allowed # None => plan \in k.allowed,
         NothingBetter(plan, known)
  PROVE  ReqSound'
<1>1. PICK x : x = Inferring(k, plan, eligible, known)
  OBVIOUS
<1>2. /\ x.stage = "inferring" /\ x.kind = k /\ x.plan = plan /\ x.eligible = eligible
      /\ x.known = known /\ x.cacheable = IsCacheable(k)
  BY <1>1 DEF Inferring
<1>3. req'[r] = x /\ None \notin Requests
  BY <1>1, AutoAssumption DEF ReqSound
<1>4. Handles(r)
  BY <1>1, <1>3 DEF Handles
<1>5. InferOK(x)'
  BY <1>2 DEF InferOK, IsCacheable
<1>6. ReqOK(r)'
  BY <1>2, <1>3, <1>5 DEF ReqOK, Stages
<1>7. QED
  BY <1>4, <1>6, HandledSound

LEMMA StartAutoKeeps ==
  ASSUME Inv, NEW r \in Requests, NEW k \in Kinds, StartAuto(r, k)
  PROVE  ReqSound'
<1> DEFINE cands == Candidates(k.allowed)
           eligible == NamesOf(cands)
           all == {Scored(b) : b \in eligible}
<1>1. /\ ReqSound /\ None \notin Requests /\ loop = None /\ loop' = loop /\ sovereign' = sovereign
      /\ IsAuto(k)
  BY AutoAssumption DEF Inv, StartAuto, routeVars
<1>2. RouteTypes
  <2>1. latency \in [Backends -> Nat \cup {None}]
    BY AutoAssumption DEF Inv, RouteSound
  <2>2. QED
    BY <2>1 DEF Inv, RouteTypes
<1>3. k.intent \in Intents /\ brain \in {"rules", "llm", "learned"}
  BY AutoAssumption DEF Inv, RouteSound
<1>4. cands \in SUBSET (DOMAIN Registry)
  BY DEF Candidates
<1>5. \A b \in eligible : /\ b \in NamesOf(DOMAIN Registry) /\ b \in Backends
                          /\ sovereign => InBoundary[b]
                          /\ k.allowed # None => b \in k.allowed
  BY <1>4, RegisteredAreBackends DEF Candidates, NamesOf
<1>6. ASSUME NEW plan \in eligible, NEW known, NothingBetter(plan, known),
             req' = [req EXCEPT ![r] = Inferring(k, plan, eligible, known)]
      PROVE  ReqSound'
  <2> HIDE DEF cands, eligible
  <2>1. eligible \subseteq Backends
    BY <1>5
  <2>2. QED
    BY <1>1, <1>5, <1>6, <2>1, InferenceStarts
<1>7. CASE req' = [req EXCEPT ![r] = [stage |-> "refused"]]
  <2>1. req'[r] = [stage |-> "refused"]
    BY <1>1, <1>7 DEF ReqSound
  <2>2. Handles(r)
    BY <1>1, <1>7, <2>1 DEF Handles
  <2>3. ReqOK(r)'
    BY <1>1, <2>1 DEF ReqOK, Stages
  <2>4. QED
    BY <1>1, <2>2, <2>3, HandledSound
<1>8. CASE /\ cands # {}
           /\ req' = [req EXCEPT ![r] =
                Inferring(k, SmartTarget(SentDifficulty(k), k.intent, cands), eligible, all)]
  <2> DEFINE plan == SmartTarget(SentDifficulty(k), k.intent, cands)
  <2>1. plan \in eligible /\ NothingBetter(plan, all)
    BY <1>2, <1>3, <1>4, <1>8, SmartChoice
  <2> HIDE DEF plan, eligible, all
  <2>2. QED
    BY <1>6, <1>8, <2>1 DEF plan
<1>9. CASE cands # {} /\ \E b \in BrainPlans(k, cands) :
             req' = [req EXCEPT ![r] = Inferring(k, b, eligible, {})]
  <2>1. PICK b \in BrainPlans(k, cands) : req' = [req EXCEPT ![r] = Inferring(k, b, eligible, {})]
    BY <1>9
  <2>2. b \in eligible
    <3>1. PICK class : b = BrainPlan(brain, SentDifficulty(k), k.intent, cands, k.allowed, class)
      BY <2>1 DEF BrainPlans
    <3>2. QED
      BY <1>2, <1>3, <1>4, <1>9, <3>1, PlansAreCandidates
  <2>3. NothingBetter(b, {})
    BY DEF NothingBetter
  <2> HIDE DEF eligible
  <2>4. QED
    BY <1>6, <2>1, <2>2, <2>3
<1>10. QED
  BY <1>7, <1>8, <1>9 DEF StartAuto

LEMMA StartNamedKeeps ==
  ASSUME Inv, NEW r \in Requests, NEW k \in Kinds, StartNamed(r, k)
  PROVE  ReqSound'
<1>1. ReqSound /\ loop = None /\ loop' = loop /\ sovereign' = sovereign /\ ~IsAuto(k)
  BY DEF Inv, StartNamed, routeVars
<1>2. PICK b : b = k.endpoint
  OBVIOUS
<1>3. /\ b \in NamesOf(DOMAIN Registry)
      /\ sovereign => InBoundary[b]
      /\ req' = [req EXCEPT ![r] = Inferring(k, b, {b}, {})]
  BY <1>1, <1>2 DEF StartNamed, Resolves
<1>4. b \in Backends
  <2>1. PICK i \in DOMAIN Registry : b = Registry[i]
    BY <1>3 DEF NamesOf
  <2>2. QED
    BY <2>1, RouteAssumption
<1>5. NothingBetter(b, {})
  BY DEF NothingBetter
<1>6. PICK eligible : eligible = {b}
  OBVIOUS
<1>7. /\ b \in eligible /\ eligible \subseteq Backends
      /\ req' = [req EXCEPT ![r] = Inferring(k, b, eligible, {})]
  BY <1>3, <1>4, <1>6
<1>8. QED
  BY <1>1, <1>3, <1>5, <1>7, InferenceStarts


\* A clean answer: its trace tells the cost of the day.
LEMMA AnswerKeeps ==
  ASSUME Inv, NEW r \in Requests, NEW b \in Backends, NEW tokens \in Usages,
         Answer(r, b, tokens)
  PROVE  ReqSound'
<1> DEFINE k == req[r].kind
           cost == CostOf(b, TracedModel(k, b), tokens)
<1>1. /\ ReqSound /\ ReqOK(r) /\ None \notin Requests /\ loop = None /\ loop' = r
      /\ sovereign' = sovereign /\ prices' = prices /\ today' = today /\ today \in 0..MaxDay
      /\ req[r].stage = "inferring"
  BY AutoAssumption DEF Inv, ReqSound, Answer, priceVars, PricesTypeOK
<1>2. PICK x : x = [stage |-> "traced", kind |-> k, backend |-> b, plan |-> req[r].plan,
                    tokens |-> tokens, traced |-> cost, since |-> today]
  OBVIOUS
<1>3. req' = [req EXCEPT ![r] = x] /\ req'[r] = x
  BY <1>1, <1>2 DEF Answer, ReqSound
<1>4. Handles(r)
  BY <1>1, <1>3 DEF Handles
<1>5. TracedOK(x)'
  <2>1. x.traced = CostOf(x.backend, TracedModel(x.kind, x.backend), x.tokens)
    BY <1>2
  <2>2. CostOf(x.backend, TracedModel(x.kind, x.backend), x.tokens)'
          = CostOf(x.backend, TracedModel(x.kind, x.backend), x.tokens)
    BY <1>1 DEF CostOf, PriceOf, InEffect, Before, TracedModel
  <2>3. x.backend \in Backends /\ x.since = today
    BY <1>2
  <2>4. x.since \in 0..today
    BY <1>1, <2>3, PricesAssumption
  <2>5. QED
    BY <1>1, <2>1, <2>2, <2>3, <2>4 DEF TracedOK
<1>6. ReqOK(r)'
  <2>1. x.stage = "traced" /\ x.kind \in Kinds
    BY <1>1, <1>2 DEF ReqOK
  <2>2. QED
    BY <1>1, <1>3, <1>5, <2>1 DEF ReqOK, Stages
<1>7. QED
  BY <1>1, <1>4, <1>6, HandledSound

\* The charge is what the trace told, unless the model has a price of its own or
\* the day is over.
LEMMA SettleKeeps ==
  ASSUME Inv, NEW r \in Requests, Settle(r)
  PROVE  ReqSound'
<1> DEFINE k == req[r].kind
           b == req[r].backend
<1>1. /\ ReqSound /\ ReqOK(r) /\ PricesTypeOK /\ None \notin Requests /\ loop = r /\ loop' = None
      /\ sovereign' = sovereign /\ req[r].stage = "traced"
  BY AutoAssumption DEF Inv, ReqSound, Settle
<1>2. PICK x : x = Settled(k, b, req[r].plan, req[r].traced, req[r].tokens, req[r].since)
  OBVIOUS
<1>3. req' = [req EXCEPT ![r] = x] /\ req'[r] = x
  BY <1>1, <1>2 DEF Settle, ReqSound
<1>4. Handles(r)
  BY <1>1, <1>3 DEF Handles
<1>5. ServedOK(x)
  <2>1. SUFFICES ASSUME ~x.own, ~x.late PROVE x.charged = x.traced
    BY <1>2 DEF ServedOK, Settled
  <2>2. TracedOK(req[r])
    BY <1>1 DEF ReqOK
  <2>3. req[r].since = today /\ x.traced = req[r].traced /\ x.charged = CostOf(b, AnyModel, req[r].tokens)
    BY <1>2, <2>1 DEF Settled
  <2>4. b \in Backends /\ req[r].traced = CostOf(b, TracedModel(k, b), req[r].tokens)
    BY <2>2, <2>3 DEF TracedOK
  <2>5. \A row \in InEffect(b, TracedModel(k, b)) : row.model = AnyModel
    BY <1>2, <2>1 DEF Settled
  <2>6. PriceOf(b, TracedModel(k, b)) = PriceOf(b, AnyModel)
    BY <1>1, <2>4, <2>5, NoOwnPrice
  <2>7. QED
    BY <2>3, <2>4, <2>6 DEF CostOf
<1>6. ReqOK(r)'
  <2>1. x.stage = "served" /\ x.kind \in Kinds
    BY <1>1, <1>2 DEF ReqOK, Settled
  <2>2. ServedOK(x)'
    BY <1>5 DEF ServedOK
  <2>3. QED
    BY <1>1, <1>3, <2>1, <2>2 DEF ReqOK, Stages
<1>7. QED
  BY <1>1, <1>4, <1>6, HandledSound

LEMMA FailKeeps ==
  ASSUME Inv, NEW r \in Requests, Fail(r)
  PROVE  ReqSound'
<1>1. /\ ReqSound /\ None \notin Requests /\ loop = None /\ loop' = None /\ sovereign' = sovereign
  BY AutoAssumption DEF Inv, Fail
<1>2. req' = [req EXCEPT ![r] = [stage |-> "refused"]] /\ req'[r] = [stage |-> "refused"]
  BY <1>1 DEF Fail, ReqSound
<1>3. Handles(r)
  BY <1>1, <1>2 DEF Handles
<1>4. ReqOK(r)'
  BY <1>1, <1>2 DEF ReqOK, Stages
<1>5. QED
  BY <1>1, <1>3, <1>4, HandledSound

\* Clearing the cache takes away the row of a hit, and says so.
LEMMA ClearKeeps ==
  ASSUME Inv, ClearCache
  PROVE  ReqSound'
<1>1. /\ ReqSound /\ req' = req /\ loop' = loop /\ sovereign' = sovereign /\ features' = features
      /\ prices' = prices /\ today' = today
      /\ raced' = (loop # None /\ req[loop].stage = "hit") /\ None \notin Requests
  BY AutoAssumption DEF Inv, ClearCache, priceVars, routeVars
<1>2. ASSUME NEW q \in Requests PROVE ReqOK(q)'
  <2>1. ReqOK(q)
    BY <1>1 DEF ReqSound
  <2>2. ASSUME req[q].stage = "hit" PROVE HitOK(req[q])'
    <3>1. HitOK(req[q]) /\ loop = q
      BY <2>1, <2>2 DEF ReqOK
    <3>2. raced'
      BY <1>1, <2>2, <3>1
    <3>3. Reusable(req[q].kind, req[q].entry)'
      BY <1>1, <3>1 DEF HitOK, Reusable, EffectiveStrategy, Config
    <3>4. QED
      BY <1>1, <3>1, <3>2, <3>3 DEF HitOK
  <2>3. ASSUME req[q].stage = "inferring" PROVE InferOK(req[q])'
    BY <1>1, <2>1, <2>3 DEF ReqOK, InferOK
  <2>4. ASSUME req[q].stage = "traced" PROVE TracedOK(req[q])'
    <3>1. TracedOK(req[q])
      BY <2>1, <2>4 DEF ReqOK
    <3>2. CostOf(req[q].backend, TracedModel(req[q].kind, req[q].backend), req[q].tokens)'
            = CostOf(req[q].backend, TracedModel(req[q].kind, req[q].backend), req[q].tokens)
      BY <1>1 DEF CostOf, PriceOf, InEffect, Before, TracedModel
    <3>3. QED
      BY <1>1, <3>1, <3>2 DEF TracedOK
  <2>5. ASSUME req[q].stage = "served" PROVE ServedOK(req[q])'
    BY <1>1, <2>1, <2>5 DEF ReqOK, ServedOK
  <2>6. QED
    BY <1>1, <2>1, <2>2, <2>3, <2>4, <2>5 DEF ReqOK
<1>3. QED
  BY <1>1, <1>2 DEF ReqSound

\* Midnight: a trace that waits for its charge is of an earlier day.
LEMMA MidnightKeeps ==
  ASSUME Inv, NextDay
  PROVE  ReqSound'
<1>1. /\ ReqSound /\ req' = req /\ loop' = loop /\ sovereign' = sovereign /\ features' = features
      /\ cache' = cache /\ raced' = raced /\ today' = today + 1 /\ today \in Nat
  <2>1. today \in Nat
    BY PricesAssumption DEF Inv, PricesTypeOK
  <2>2. QED
    BY <2>1 DEF Inv, NextDay, Midnight, routeVars, reuseVars
<1>2. ASSUME NEW q \in Requests PROVE ReqOK(q)'
  <2>1. ReqOK(q)
    BY <1>1 DEF ReqSound
  <2>2. ASSUME req[q].stage = "hit" PROVE HitOK(req[q])'
    <3>1. HitOK(req[q])
      BY <2>1, <2>2 DEF ReqOK
    <3>2. QED
      BY <1>1, <3>1 DEF HitOK, Reusable, EffectiveStrategy, Config
  <2>3. ASSUME req[q].stage = "inferring" PROVE InferOK(req[q])'
    BY <1>1, <2>1, <2>3 DEF ReqOK, InferOK
  <2>4. ASSUME req[q].stage = "traced" PROVE TracedOK(req[q])'
    <3>1. req[q].since \in 0..today /\ req[q].backend \in Backends
      BY <2>1, <2>4 DEF ReqOK, TracedOK
    <3>2. req[q].since \in 0..today' /\ req[q].since # today'
      BY <1>1, <3>1
    <3>3. QED
      BY <1>1, <3>1, <3>2 DEF TracedOK
  <2>5. ASSUME req[q].stage = "served" PROVE ServedOK(req[q])'
    BY <1>1, <2>1, <2>5 DEF ReqOK, ServedOK
  <2>6. QED
    BY <1>1, <2>1, <2>2, <2>3, <2>4, <2>5 DEF ReqOK
<1>3. QED
  BY <1>1, <1>2 DEF ReqSound

\* A restart: what was under way is refused, what was served stays.
LEMMA RestartKeeps ==
  ASSUME Inv, Restart
  PROVE  ReqSound'
<1>1. ReqSound /\ loop' = None /\ None \notin Requests
  BY AutoAssumption DEF Inv, Restart
<1>2. ASSUME NEW q \in Requests PROVE ReqOK(q)'
  <2>1. ReqOK(q)
    BY <1>1 DEF ReqSound
  <2>2. CASE req[q].stage \in {"unseen", "served"}
    <3>1. req'[q] = req[q]
      BY <2>2 DEF Restart
    <3>2. req[q].stage = "served" => ServedOK(req[q])'
      BY <2>1, <3>1 DEF ReqOK, ServedOK
    <3>3. QED
      BY <1>1, <2>1, <2>2, <3>1, <3>2 DEF ReqOK
  <2>3. CASE req[q].stage \notin {"unseen", "served"}
    <3>1. req'[q] = [stage |-> "refused"]
      BY <2>3 DEF Restart
    <3>2. QED
      BY <1>1, <3>1 DEF ReqOK, Stages
  <2>4. QED
    BY <2>2, <2>3
<1>3. req' = [q \in Requests |-> req'[q]]
  BY DEF Restart
<1>4. QED
  BY <1>1, <1>2, <1>3 DEF ReqSound

-----------------------------------------------------------------------------
(* The learning loop.                                                      *)

Learning == LearningTypeOK /\ LearnsOutcomes

LEMMA RewardRange ==
  ASSUME NEW rating \in -1..1, NEW fell \in BOOLEAN
  PROVE  Reward(rating, fell) \in -10..10
<1> DEFINE base == CASE rating > 0 -> 10 [] rating < 0 -> -10 [] rating = 0 -> 1
           n == base - (IF fell THEN 5 ELSE 0)
<1>1. base \in {10, -10, 1}
  OBVIOUS
<1>2. n \in Int /\ n <= 10
  BY <1>1
<1> HIDE DEF n, base
<1>3. {-10, n} \in SUBSET Int /\ IsFiniteSet({-10, n}) /\ {-10, n} # {}
  <2>1. IsFiniteSet({-10, n})
    <3>1. PICK S : S = {-10}
      OBVIOUS
    <3>2. IsFiniteSet(S)
      BY <3>1, FS_Singleton
    <3>3. IsFiniteSet(S \cup {n}) /\ {-10, n} = S \cup {n}
      BY <3>1, <3>2, FS_AddElement
    <3>4. QED
      BY <3>3
  <2>2. QED
    BY <1>2, <2>1
<1>4. /\ Max({-10, n}) \in {-10, n}
      /\ Max({-10, n}) \in Int
      /\ \A y \in {-10, n} : Max({-10, n}) >= y
  BY <1>3, MaxOf
<1>5. Max({-10, n}) \in -10..10
  BY <1>2, <1>4
<1>6. Reward(rating, fell) = Max({-10, n})
  BY DEF Reward, n, base
<1>7. QED
  BY <1>5, <1>6

\* Without a new trace or rating, what was learned stays: requests that were
\* served are not touched again.
LEMMA LearnKept ==
  ASSUME Learning, routeTraces' = routeTraces,
         \A id \in Requests : req[id].stage = "served" => req'[id] = req[id]
  PROVE  Learning'
<1>1. LearningTypeOK' /\ Rewarded(routeTraces)'
  BY DEF Learning, LearningTypeOK, TraceTable, LearnsOutcomes, Rewarded
<1>2. ASSUME NEW id \in DOMAIN routeTraces \cap Requests PROVE req'[id] = req[id]
  BY DEF Learning, LearnsOutcomes
<1>3. QED
  BY <1>1, <1>2 DEF Learning, LearnsOutcomes, IsAuto

LEMMA SettleLearns ==
  ASSUME Inv, NEW r \in Requests, Settle(r)
  PROVE  Learning'
<1> DEFINE k == req[r].kind
           b == req[r].backend
<1>1. /\ Learning /\ ReqSound /\ ReqOK(r) /\ req[r].stage = "traced" /\ r \in Ids
  BY AutoAssumption DEF Inv, ReqSound, Settle, Learning
<1>2. PICK x : x = Settled(k, b, req[r].plan, req[r].traced, req[r].tokens, req[r].since)
  OBVIOUS
<1>3. req' = [req EXCEPT ![r] = x] /\ req'[r] = x
  BY <1>1, <1>2 DEF Settle, ReqSound
<1>4. \A id \in Requests \ {r} : req'[id] = req[id]
  BY <1>1, <1>3 DEF ReqSound
<1>5. CASE routeTraces' = routeTraces
  BY <1>1, <1>4, <1>5, LearnKept
<1>6. CASE IsAuto(k) /\ routeTraces' = Recorded(r, NewTrace(k.difficulty, b, x.fell))
  <2>1. PICK t : t = NewTrace(k.difficulty, b, x.fell)
    OBVIOUS
  <2>2. /\ x.stage = "served" /\ x.reused = FALSE /\ x.kind = k /\ x.answered = b /\ x.fell \in BOOLEAN
    BY <1>2 DEF Settled
  <2>3. k \in Kinds /\ b \in Backends /\ k.difficulty \in {"easy", "hard"}
    BY <1>1, AutoAssumption DEF ReqOK, TracedOK
  <2>4. t \in RouteTrace /\ t.reward = Reward(t.rating, t.fell)
    <3>1. Reward(0, x.fell) \in -10..10
      BY <2>2, RewardRange
    <3>2. QED
      BY <2>1, <2>2, <2>3, <3>1 DEF NewTrace, RouteTrace
  <2>5. /\ DOMAIN routeTraces' = DOMAIN routeTraces \cup {r} /\ routeTraces'[r] = t
        /\ \A id \in DOMAIN routeTraces : id # r => routeTraces'[id] = routeTraces[id]
    BY <1>6, <2>1 DEF Recorded
  <2>6. LearningTypeOK'
    <3>1. DOMAIN routeTraces' \subseteq Ids /\ IsFiniteSet(DOMAIN routeTraces')
      BY <1>1, <2>5, FS_AddElement DEF Learning, LearningTypeOK, TraceTable
    <3>2. QED
      BY <1>1, <2>4, <2>5, <3>1 DEF Learning, LearningTypeOK, TraceTable
  <2>7. Rewarded(routeTraces)'
    BY <1>1, <2>4, <2>5 DEF Learning, LearnsOutcomes, Rewarded
  <2>8. ASSUME NEW id \in (DOMAIN routeTraces \cap Requests)'
        PROVE  LET u == routeTraces'[id] IN
               /\ req'[id].stage = "served" /\ ~req'[id].reused
               /\ IsAuto(req'[id].kind)
               /\ u.backend = req'[id].answered /\ u.fell = req'[id].fell
               /\ u.difficulty = req'[id].kind.difficulty
    <3>1. CASE id = r
      BY <1>3, <1>6, <2>1, <2>2, <2>5, <3>1 DEF NewTrace
    <3>2. CASE id # r
      BY <1>1, <1>4, <2>5, <3>2 DEF Learning, LearnsOutcomes
    <3>3. QED
      BY <3>1, <3>2
  <2>9. QED
    BY <2>6, <2>7, <2>8 DEF Learning, LearnsOutcomes, IsAuto
<1>7. QED
  BY <1>2, <1>5, <1>6 DEF Settle, Settled

LEMMA FeedbackLearns ==
  ASSUME Inv, NEW id \in Ids, NEW rating \in Ratings, SubmitFeedback(id, rating)
  PROVE  Learning'
<1>1. Learning /\ id \in DOMAIN routeTraces /\ req' = req /\ rating \in -1..1
  BY AutoAssumption DEF Inv, Learning, SubmitFeedback, ApplyFeedback
<1>2. PICK t : t = [routeTraces[id] EXCEPT !.rating = rating,
                                           !.reward = Reward(rating, routeTraces[id].fell)]
  OBVIOUS
<1>3. /\ DOMAIN routeTraces' = DOMAIN routeTraces /\ routeTraces'[id] = t
      /\ \A i \in DOMAIN routeTraces : i # id => routeTraces'[i] = routeTraces[i]
  BY <1>1, <1>2 DEF SubmitFeedback, ApplyFeedback
<1>4. routeTraces[id] \in RouteTrace
  BY <1>1 DEF Learning, LearningTypeOK, TraceTable
<1>5. /\ t \in RouteTrace /\ t.reward = Reward(t.rating, t.fell)
      /\ t.backend = routeTraces[id].backend /\ t.fell = routeTraces[id].fell
      /\ t.difficulty = routeTraces[id].difficulty
  <2>1. Reward(rating, routeTraces[id].fell) \in -10..10
    BY <1>1, <1>4, RewardRange DEF RouteTrace
  <2>2. QED
    BY <1>1, <1>2, <1>4, <2>1 DEF RouteTrace
<1>6. LearningTypeOK'
  BY <1>1, <1>3, <1>5 DEF Learning, LearningTypeOK, TraceTable
<1>7. Rewarded(routeTraces)'
  BY <1>1, <1>3, <1>5 DEF Learning, LearnsOutcomes, Rewarded
<1>8. ASSUME NEW i \in DOMAIN routeTraces
      PROVE  /\ routeTraces'[i].backend = routeTraces[i].backend
             /\ routeTraces'[i].fell = routeTraces[i].fell
             /\ routeTraces'[i].difficulty = routeTraces[i].difficulty
  BY <1>3, <1>5
<1>9. QED
  BY <1>1, <1>3, <1>6, <1>7, <1>8 DEF Learning, LearnsOutcomes, IsAuto

-----------------------------------------------------------------------------
(* The cache.                                                              *)

OfEndpoint(c, ep) == {i \in DOMAIN c : c[i].endpoint = ep}
HitsAt(c, S) == MapThenSumSet(LAMBDA i : c[i].hits, S)
HitsIn(c, ep) == HitsAt(c, OfEndpoint(c, ep))
RowsIn(s, ep) == Cardinality({i \in DOMAIN s : s[i] = ep})

\* The same sum, of a function.
HitsOf(c) == [i \in DOMAIN c |-> c[i].hits]

LEMMA OfFinite ==
  ASSUME NEW c \in Seq(Entry), NEW ep
  PROVE  /\ IsFiniteSet(OfEndpoint(c, ep)) /\ OfEndpoint(c, ep) \subseteq DOMAIN c
         /\ HitsOf(c) \in [DOMAIN c -> Nat]
<1>1. IsFiniteSet(DOMAIN c)
  BY FS_Interval
<1>2. OfEndpoint(c, ep) \subseteq DOMAIN c
  BY DEF OfEndpoint
<1>3. \A i \in DOMAIN c : c[i].hits \in Nat
  <2>1. \A i \in DOMAIN c : c[i] \in Entry
    OBVIOUS
  <2>2. QED
    BY <2>1 DEF Entry
<1>4. QED
  BY <1>1, <1>2, <1>3, FS_Subset DEF HitsOf

LEMMA HitsAre ==
  ASSUME NEW c \in Seq(Entry), NEW ep
  PROVE  HitsIn(c, ep) = Total(HitsOf(c), OfEndpoint(c, ep))
<1> DEFINE S == OfEndpoint(c, ep)
           w == HitsOf(c)
           Adds(g) ==
             g = [s \in SUBSET S |->
                    IF s = {} THEN 0
                    ELSE c[CHOOSE x \in s : TRUE].hits + g[s \ {CHOOSE x \in s : TRUE}]]
<1>1. IsFiniteSet(S) /\ S \subseteq DOMAIN c
  BY OfFinite
<1>2. \A s \in SUBSET S : s # {} => w[Pick(s)] = c[Pick(s)].hits
  BY <1>1, PickIn DEF HitsOf
<1>3. \A g : Adds(g) <=> IsSum(g, w, S)
  BY <1>2 DEF IsSum, SumsOn, SumStep, Pick
<1> HIDE DEF w
<1>4. PICK h : IsSum(h, w, S) /\ Total(w, S) = h[S]
  BY <1>1, TotalIs
<1> HIDE DEF S
<1>5. \E g : Adds(g) /\ HitsAt(c, S) = g[S]
  BY <1>3, <1>4 DEF HitsAt, MapThenSumSet, MapThenFoldSet
<1>6. PICK g : IsSum(g, w, S) /\ HitsAt(c, S) = g[S]
  BY <1>3, <1>5
<1>7. \A s \in SUBSET S : g[s] = h[s]
  BY <1>1, <1>4, <1>6, SumUnique
<1>8. QED
  BY <1>4, <1>6, <1>7 DEF w, S, HitsIn

\* A row more in the savings.
LEMMA RowMore ==
  ASSUME NEW s \in Seq(Endpoints), NEW e \in Endpoints, NEW ep
  PROVE  /\ RowsIn(s, ep) \in Nat
         /\ RowsIn(Append(s, e), ep) = IF e = ep THEN RowsIn(s, ep) + 1 ELSE RowsIn(s, ep)
<1> DEFINE S == {i \in DOMAIN s : s[i] = ep}
           t == Append(s, e)
           T == {i \in DOMAIN t : t[i] = ep}
           n == Len(s) + 1
<1>1. /\ DOMAIN t = DOMAIN s \cup {n} /\ n \notin DOMAIN s /\ t[n] = e
      /\ \A i \in DOMAIN s : t[i] = s[i]
  OBVIOUS
<1>2. IsFiniteSet(S)
  <2>1. IsFiniteSet(DOMAIN s)
    BY FS_Interval
  <2>2. QED
    BY <2>1, FS_Subset
<1>3. T = IF e = ep THEN S \cup {n} ELSE S
  BY <1>1
<1>4. n \notin S
  BY <1>1
<1> HIDE DEF S, T, n
<1>5. Cardinality(S) \in Nat /\ Cardinality(S \cup {n}) = Cardinality(S) + 1
  BY <1>2, <1>4, FS_CardinalityType, FS_AddElement
<1>6. QED
  BY <1>3, <1>5 DEF RowsIn, S, T

\* The sum over a set, when one of its weights is one greater.
LEMMA OneGreater ==
  ASSUME NEW D, NEW w \in [D -> Nat], NEW v \in [D -> Nat], NEW S \in SUBSET D, IsFiniteSet(S),
         NEW j \in D, v[j] = w[j] + 1, \A i \in D \ {j} : v[i] = w[i]
  PROVE  Total(v, S) = IF j \in S THEN Total(w, S) + 1 ELSE Total(w, S)
<1>1. CASE j \notin S
  BY <1>1, SumSame
<1>2. CASE j \in S
  <2> DEFINE R == S \ {j}
  <2>1. IsFiniteSet(R) /\ R \subseteq D /\ R \cup {j} = S /\ j \in D \ R
    BY <1>2, FS_Subset
  <2>2. \A i \in R : w[i] = v[i]
    OBVIOUS
  <2> HIDE DEF R
  <2>3. Total(w, R) = Total(v, R) /\ Total(w, R) \in Nat
    BY <2>1, <2>2, SumSame, SumOfMore
  <2>4. Total(w, R \cup {j}) = w[j] + Total(w, R) /\ Total(v, R \cup {j}) = v[j] + Total(v, R)
    BY <2>1, SumOfMore
  <2>5. Total(w, S) = w[j] + Total(w, R) /\ Total(v, S) = v[j] + Total(w, R)
    BY <2>1, <2>3, <2>4
  <2>6. w[j] \in Nat
    OBVIOUS
  <2>7. Total(v, S) = Total(w, S) + 1
    BY <2>3, <2>5, <2>6
  <2>8. QED
    BY <1>2, <2>7
<1>3. QED
  BY <1>1, <1>2

\* An answer that is stored counts no hit yet; one that is stored again keeps its
\* hits, and the endpoint that its model belongs to.
LEMMA StoredSound ==
  ASSUME CacheSound, NEW k \in Kinds, ~k.sensitive, k.deterministic, NEW b \in Backends,
         NEW embeds \in BOOLEAN, NEW c, c = Stored(k, b, embeds)
  PROVE  /\ c \in Seq(Entry)
         /\ \A i \in DOMAIN c : Honest(c[i])
         /\ \A i, j \in DOMAIN c : Same(c[i], c[j]) => i = j
         /\ \A ep : HitsIn(c, ep) = HitsIn(cache, ep)
<1> DEFINE embedded == EffectiveStrategy(k) = "semantic" /\ embeds
<1>0. cache \in Seq(Entry) /\ k.endpoint \in Endpoints /\ embedded \in BOOLEAN
  BY AutoAssumption DEF CacheSound
<1> HIDE DEF embedded
<1>1. CASE c = cache
  BY <1>1 DEF CacheSound
<1>2. CASE Exact(k) # {} /\ \E i \in Exact(k) :
             c = [cache EXCEPT ![i].by = k, ![i].endpoint = k.endpoint, ![i].embedded = embedded]
  <2>1. PICK i \in Exact(k) :
          c = [cache EXCEPT ![i].by = k, ![i].endpoint = k.endpoint, ![i].embedded = embedded]
    BY <1>2
  <2>2. /\ i \in DOMAIN cache /\ cache[i].key = CacheKey(k) /\ cache[i].team = k.team
    BY DEF Exact
  <2>3. cache[i] \in Entry /\ Honest(cache[i])
    BY <2>2 DEF CacheSound
  <2>4. cache[i].endpoint = k.endpoint
    <3>1. cache[i].by \in Kinds /\ CacheKey(cache[i].by) = CacheKey(k)
      BY <2>2, <2>3 DEF Entry, Honest
    <3>2. cache[i].by.endpoint = k.endpoint
      BY <3>1, AutoAssumption DEF CacheKey
    <3>3. QED
      BY <2>3, <3>2 DEF Honest
  <2>5. PICK e : e = [cache[i] EXCEPT !.by = k, !.endpoint = k.endpoint, !.embedded = embedded]
    OBVIOUS
  <2>6. /\ e \in Entry /\ e.key = CacheKey(k) /\ e.team = k.team /\ e.by = k
        /\ e.endpoint = cache[i].endpoint /\ e.hits = cache[i].hits
        /\ e.key = cache[i].key /\ e.team = cache[i].team
    BY <1>0, <2>2, <2>3, <2>4, <2>5 DEF Entry
  <2>7. c = [cache EXCEPT ![i] = e]
    BY <2>1, <2>2, <2>5
  <2>8. /\ c \in Seq(Entry) /\ DOMAIN c = DOMAIN cache /\ c[i] = e
        /\ \A j \in DOMAIN cache : j # i => c[j] = cache[j]
    BY <1>0, <2>2, <2>6, <2>7
  <2>9. Honest(e)
    BY <2>4, <2>6 DEF Honest
  <2>10. \A j \in DOMAIN c : c[j].key = cache[j].key /\ c[j].team = cache[j].team
    BY <2>6, <2>8
  <2>11. HitsOf(c) = HitsOf(cache) /\ \A ep : OfEndpoint(c, ep) = OfEndpoint(cache, ep)
    BY <2>6, <2>8 DEF HitsOf, OfEndpoint
  <2>12. \A ep : HitsIn(c, ep) = HitsIn(cache, ep)
    BY <1>0, <2>8, <2>11, HitsAre
  <2>13. QED
    BY <2>8, <2>9, <2>10, <2>12 DEF CacheSound, Same
<1>3. CASE Exact(k) = {} /\ c = Append(cache,
             [key |-> CacheKey(k), team |-> k.team, endpoint |-> k.endpoint, backend |-> b,
              embedded |-> embedded, hits |-> 0, by |-> k])
  <2>1. PICK e : e = [key |-> CacheKey(k), team |-> k.team, endpoint |-> k.endpoint, backend |-> b,
                      embedded |-> embedded, hits |-> 0, by |-> k]
    OBVIOUS
  <2>2. e \in Entry /\ Honest(e) /\ e.hits = 0
    BY <1>0, <2>1 DEF Entry, Honest
  <2> DEFINE n == Len(cache) + 1
  <2>3. /\ c \in Seq(Entry) /\ DOMAIN c = DOMAIN cache \cup {n} /\ n \notin DOMAIN cache /\ c[n] = e
        /\ \A i \in DOMAIN cache : c[i] = cache[i]
    BY <1>0, <1>3, <2>1, <2>2
  <2>4. \A i \in DOMAIN cache : ~Same(cache[i], e)
    BY <1>3, <2>1 DEF Exact, Same
  <2> HIDE DEF n
  <2>5. \A i, j \in DOMAIN c : Same(c[i], c[j]) => i = j
    BY <2>3, <2>4 DEF CacheSound, Same
  <2>6. ASSUME NEW ep PROVE HitsIn(c, ep) = HitsIn(cache, ep)
    <3> DEFINE S == OfEndpoint(cache, ep)
               T == OfEndpoint(c, ep)
               w == HitsOf(cache)
               v == HitsOf(c)
    <3>1. /\ IsFiniteSet(S) /\ S \subseteq DOMAIN cache
          /\ v \in [DOMAIN c -> Nat]
      BY <1>0, <2>3, OfFinite
    <3>2. T = S \/ T = S \cup {n}
      BY <2>3 DEF OfEndpoint
    <3>3. \A i \in S : w[i] = v[i]
      BY <2>3, <3>1 DEF HitsOf
    <3>4. v[n] = 0 /\ n \in DOMAIN c \ S
      BY <2>2, <2>3, <3>1 DEF HitsOf
    <3>5. S \subseteq DOMAIN c
      BY <2>3, <3>1
    <3> HIDE DEF S, T, w, v
    <3>6. Total(w, S) = Total(v, S) /\ Total(v, S) \in Nat /\ Total(v, S \cup {n}) = v[n] + Total(v, S)
      BY <3>1, <3>3, <3>4, <3>5, SumSame, SumOfMore
    <3>7. Total(v, T) = Total(w, S)
      BY <3>2, <3>4, <3>6
    <3>8. QED
      BY <1>0, <2>3, <3>7, HitsAre DEF S, T, w, v
  <2>7. QED
    BY <2>2, <2>3, <2>5, <2>6 DEF CacheSound
<1>4. QED
  <2>1. c = IF EffectiveStrategy(k) = "skip" THEN cache
            ELSE IF Exact(k) # {}
              THEN LET i == CHOOSE i \in Exact(k) : TRUE IN
                   [cache EXCEPT ![i].by = k, ![i].endpoint = k.endpoint, ![i].embedded = embedded]
            ELSE Append(cache, [key |-> CacheKey(k), team |-> k.team, endpoint |-> k.endpoint,
                                backend |-> b, embedded |-> embedded, hits |-> 0, by |-> k])
    BY DEF Stored, embedded
  <2>2. QED
    BY <1>1, <1>2, <1>3, <2>1

\* HitsAccounted, of given tables.
Accounted(c, s, cleared) ==
  \A ep \in Endpoints : /\ HitsIn(c, ep) <= RowsIn(s, ep)
                        /\ ~cleared => HitsIn(c, ep) = RowsIn(s, ep)

LEMMA AccountedIs == HitsAccounted <=> Accounted(cache, savings, raced)
  BY DEF HitsAccounted, Accounted, HitsIn, HitsAt, OfEndpoint, RowsIn

Caching == CacheSound /\ HitsAccounted

\* What is to be shown of a step.
LEMMA CachingNext ==
  ASSUME cache' \in Seq(Entry), savings' \in Seq(Endpoints),
         \A i \in DOMAIN cache' : Honest(cache'[i]),
         \A i, j \in DOMAIN cache' : Same(cache'[i], cache'[j]) => i = j,
         Accounted(cache', savings', raced')
  PROVE  Caching'
<1>1. HitsAccounted' <=> Accounted(cache, savings, raced)'
  BY AccountedIs, PTL
<1>2. QED
  BY <1>1 DEF Caching, CacheSound

LEMMA CachingKept ==
  ASSUME Caching, cache' = cache, savings' = savings, raced' = raced
  PROVE  Caching'
<1>1. Accounted(cache', savings', raced')
  BY AccountedIs DEF Caching, Accounted
<1>2. QED
  BY <1>1, CachingNext DEF Caching, CacheSound

LEMMA NoHits ==
  ASSUME NEW ep
  PROVE  HitsIn(<<>>, ep) = 0 /\ RowsIn(<<>>, ep) = 0
<1>1. << >> \in Seq(Entry) /\ OfEndpoint(<<>>, ep) = {}
  BY DEF OfEndpoint
<1>2. Total(HitsOf(<<>>), {}) = 0
  <2>1. HitsOf(<<>>) \in [DOMAIN <<>> -> Nat]
    BY <1>1, OfFinite
  <2>2. QED
    BY <2>1, FS_EmptySet, SumOfMore
<1>3. HitsIn(<<>>, ep) = 0
  BY <1>1, <1>2, HitsAre
<1>4. {i \in DOMAIN <<>> : <<>>[i] = ep} = {}
  OBVIOUS
<1>5. QED
  BY <1>3, <1>4, FS_EmptySet DEF RowsIn

LEMMA AnswerCaches ==
  ASSUME Inv, NEW r \in Requests, NEW b \in Backends, NEW tokens \in Usages,
         Answer(r, b, tokens)
  PROVE  Caching'
<1> DEFINE k == req[r].kind
<1>1. /\ CacheSound /\ HitsAccounted /\ ReqOK(r) /\ req[r].stage = "inferring"
      /\ savings' = savings /\ raced' = raced
  BY DEF Inv, ReqSound, Answer
<1>2. CASE cache' = cache
  BY <1>1, <1>2, CachingKept DEF Caching
<1>3. CASE req[r].cacheable /\ \E embeds \in BOOLEAN : cache' = Stored(k, b, embeds)
  <2>1. PICK embeds \in BOOLEAN : cache' = Stored(k, b, embeds)
    BY <1>3
  <2>2. k \in Kinds /\ ~k.sensitive /\ k.deterministic
    BY <1>1, <1>3 DEF ReqOK, InferOK
  <2>3. PICK c : c = cache'
    OBVIOUS
  <2> HIDE DEF k
  <2>4. /\ c \in Seq(Entry)
        /\ \A i \in DOMAIN c : Honest(c[i])
        /\ \A i, j \in DOMAIN c : Same(c[i], c[j]) => i = j
        /\ \A ep : HitsIn(c, ep) = HitsIn(cache, ep)
    BY <1>1, <2>1, <2>2, <2>3, StoredSound
  <2>5. Accounted(c, savings, raced)
    BY <1>1, <2>4, AccountedIs DEF Accounted
  <2>6. QED
    BY <1>1, <2>3, <2>4, <2>5, CachingNext DEF CacheSound
<1>4. QED
  BY <1>2, <1>3 DEF Answer

\* A hit counts for one row of the cache and one of the savings, unless the row
\* has been cleared; then it leaves the savings' row only.
LEMMA ServeHitCaches ==
  ASSUME Inv, NEW r \in Requests, ServeHit(r)
  PROVE  Caching'
<1>1. /\ CacheSound /\ HitsAccounted /\ ReqOK(r) /\ req[r].stage = "hit" /\ raced' = raced
  BY DEF Inv, ReqSound, ServeHit
<1>2. CASE UNCHANGED <<cache, savings>>
  BY <1>1, <1>2, CachingKept DEF Caching
<1>3. CASE Hit(req[r].entry)
  <2>1. PICK e : e = req[r].entry
    OBVIOUS
  <2>2. /\ e \in Entry /\ Honest(e) /\ e.endpoint \in Endpoints
        /\ raced \/ \E i \in DOMAIN cache : Same(cache[i], e)
    BY <1>1, <2>1 DEF ReqOK, HitOK, Entry
  <2>3. PICK c : c = [i \in DOMAIN cache |-> IF Same(cache[i], e)
                                             THEN [cache[i] EXCEPT !.hits = @ + 1] ELSE cache[i]]
    OBVIOUS
  <2>4. cache' = c /\ savings' = Append(savings, e.endpoint)
    BY <1>3, <2>1, <2>3 DEF Hit, Same
  <2>5. \A i \in DOMAIN cache : cache[i] \in Entry
    BY <1>1 DEF CacheSound
  <2>6. ASSUME NEW i \in DOMAIN cache
        PROVE  /\ c[i] \in Entry /\ c[i].key = cache[i].key /\ c[i].team = cache[i].team
               /\ c[i].by = cache[i].by /\ c[i].endpoint = cache[i].endpoint
               /\ c[i].hits = IF Same(cache[i], e) THEN cache[i].hits + 1 ELSE cache[i].hits
               /\ cache[i].hits \in Nat
    <3>1. cache[i] \in Entry
      BY <2>5
    <3>2. cache[i].hits \in Nat
      BY <3>1 DEF Entry
    <3>3. CASE Same(cache[i], e)
      <4>1. c[i] = [cache[i] EXCEPT !.hits = @ + 1]
        BY <2>3, <3>3
      <4>2. QED
        BY <3>1, <3>2, <3>3, <4>1 DEF Entry
    <3>4. CASE ~Same(cache[i], e)
      BY <2>3, <3>1, <3>2, <3>4
    <3>5. QED
      BY <3>3, <3>4
  <2>7. DOMAIN c = DOMAIN cache /\ c \in Seq(Entry)
    <3>1. DOMAIN c = 1..Len(cache) /\ Len(cache) \in Nat
      BY <1>1, <2>3 DEF CacheSound
    <3>2. c = [i \in 1..Len(cache) |-> c[i]]
      BY <1>1, <2>3 DEF CacheSound
    <3>3. \A i \in 1..Len(cache) : c[i] \in Entry
      BY <1>1, <2>6 DEF CacheSound
    <3>4. QED
      BY <1>1, <3>1, <3>2, <3>3 DEF CacheSound
  <2>8. \A i \in DOMAIN c : Honest(c[i])
    BY <1>1, <2>6, <2>7 DEF CacheSound, Honest
  <2>9. \A i, j \in DOMAIN c : Same(c[i], c[j]) => i = j
    BY <1>1, <2>6, <2>7 DEF CacheSound, Same
  <2>10. savings' \in Seq(Endpoints)
    BY <1>1, <2>2, <2>4 DEF CacheSound
  <2>11. ASSUME NEW ep \in Endpoints
         PROVE  /\ HitsIn(c, ep) <= RowsIn(savings', ep)
                /\ ~raced => HitsIn(c, ep) = RowsIn(savings', ep)
    <3> DEFINE S == OfEndpoint(cache, ep)
               w == HitsOf(cache)
               v == HitsOf(c)
    <3>1. OfEndpoint(c, ep) = S
      BY <2>6, <2>7 DEF OfEndpoint
    <3>2. /\ IsFiniteSet(S) /\ S \in SUBSET (DOMAIN cache)
          /\ w \in [DOMAIN cache -> Nat] /\ v \in [DOMAIN cache -> Nat]
      BY <1>1, <2>7, OfFinite DEF CacheSound
    <3>3. HitsIn(cache, ep) = Total(w, S) /\ HitsIn(c, ep) = Total(v, S)
      BY <1>1, <2>7, <3>1, HitsAre DEF CacheSound
    <3>4. /\ RowsIn(savings, ep) \in Nat
          /\ RowsIn(savings', ep) = IF e.endpoint = ep THEN RowsIn(savings, ep) + 1
                                    ELSE RowsIn(savings, ep)
      BY <1>1, <2>2, <2>4, RowMore DEF CacheSound
    <3>5. /\ HitsIn(cache, ep) <= RowsIn(savings, ep)
          /\ ~raced => HitsIn(cache, ep) = RowsIn(savings, ep)
      BY <1>1, AccountedIs DEF Accounted
    <3>6. Total(w, S) \in Nat
      BY <3>2, SumOfMore
    <3>7. CASE \E j \in DOMAIN cache : Same(cache[j], e)
      <4>1. PICK j \in DOMAIN cache : Same(cache[j], e)
        BY <3>7
      <4>2. \A i \in DOMAIN cache \ {j} : ~Same(cache[i], e)
        BY <1>1, <4>1 DEF CacheSound, Same
      <4>3. v[j] = w[j] + 1 /\ \A i \in DOMAIN cache \ {j} : v[i] = w[i]
        BY <2>6, <2>7, <4>1, <4>2 DEF HitsOf
      <4>4. j \in S <=> e.endpoint = ep
        <5>1. cache[j] \in Entry /\ Honest(cache[j])
          BY <1>1 DEF CacheSound
        <5>2. cache[j].by.model = e.by.model /\ cache[j].by \in Kinds /\ e.by \in Kinds
          BY <2>2, <4>1, <5>1 DEF Honest, Same, CacheKey, Entry
        <5>3. cache[j].endpoint = e.endpoint
          BY <2>2, <5>1, <5>2, AutoAssumption DEF Honest
        <5>4. QED
          BY <5>3 DEF OfEndpoint
      <4> HIDE DEF S, w, v
      <4>5. Total(v, S) = IF j \in S THEN Total(w, S) + 1 ELSE Total(w, S)
        BY <3>2, <4>3, OneGreater
      <4>6. QED
        BY <3>3, <3>4, <3>5, <3>6, <4>4, <4>5
    <3>8. CASE ~\E j \in DOMAIN cache : Same(cache[j], e)
      <4>1. raced
        BY <2>2, <3>8
      <4>2. \A i \in S : v[i] = w[i]
        BY <2>6, <2>7, <3>2, <3>8 DEF HitsOf
      <4> HIDE DEF S, w, v
      <4>3. Total(v, S) = Total(w, S)
        BY <3>2, <4>2, SumSame
      <4>4. QED
        BY <3>3, <3>4, <3>5, <3>6, <4>1, <4>3
    <3>9. QED
      BY <3>7, <3>8
  <2>12. Accounted(c, savings', raced')
    BY <1>1, <2>11 DEF Accounted
  <2>13. QED
    BY <2>4, <2>7, <2>8, <2>9, <2>10, <2>12, CachingNext
<1>4. QED
  BY <1>2, <1>3 DEF ServeHit

LEMMA ClearCaches ==
  ASSUME ClearCache
  PROVE  Caching'
<1>1. cache' = <<>> /\ savings' = <<>>
  BY DEF ClearCache, Clear
<1>2. << >> \in Seq(Entry) /\ << >> \in Seq(Endpoints) /\ DOMAIN << >> = {}
  OBVIOUS
<1>3. Accounted(<<>>, <<>>, raced')
  BY NoHits DEF Accounted
<1>4. QED
  BY <1>1, <1>2, <1>3, CachingNext

-----------------------------------------------------------------------------
(* The invariant holds at the start and is kept by every step.             *)

LEMMA InitInv == Init => Inv
<1> SUFFICES ASSUME Init PROVE Inv
  OBVIOUS
<1>1. PricesTypeOK
  BY AutoAssumption, PricesAssumption DEF Init, PricesTypeOK
<1>2. RouteSound /\ changes \in 0..MaxChanges
  BY AutoAssumption DEF Init, RouteSound
<1>3. LearningTypeOK /\ LearnsOutcomes
  BY AutoAssumption DEF Init, LearningTypeOK, LearnsOutcomes
<1>4. FeatureTable(features)
  BY AutoAssumption DEF Init
<1>5. CacheSound /\ HitsAccounted
  <2>1. cache = <<>> /\ savings = <<>>
    BY DEF Init, ReuseInit
  <2>2. << >> \in Seq(Entry) /\ << >> \in Seq(Endpoints) /\ DOMAIN << >> = {}
    OBVIOUS
  <2>3. Accounted(cache, savings, raced)
    BY <2>1, NoHits DEF Accounted
  <2>4. QED
    BY <2>1, <2>2, <2>3, AccountedIs DEF CacheSound
<1>6. ReqSound
  <2>1. loop = None /\ req = [r \in Requests |-> Unseen] /\ None \notin Requests
    BY AutoAssumption DEF Init
  <2>2. ASSUME NEW r \in Requests PROVE ReqOK(r)
    <3>1. req[r].stage = "unseen"
      BY <2>1 DEF Unseen
    <3>2. QED
      BY <2>1, <3>1 DEF ReqOK, Stages
  <2>3. QED
    BY <2>1, <2>2 DEF ReqSound
<1>7. QED
  BY <1>1, <1>2, <1>3, <1>4, <1>5, <1>6 DEF Inv

\* The prices: one row per backend, model and date, also after an edit.
LEMMA PricesStep ==
  ASSUME Inv, [Next]_vars
  PROVE  PricesTypeOK'
<1>1. PricesTypeOK
  BY DEF Inv
<1>2. CASE UNCHANGED priceVars
  BY <1>1, <1>2 DEF priceVars, PricesTypeOK
<1>3. ASSUME NEW row \in PriceEdits, SetPricing(row) PROVE PricesTypeOK'
  <2>1. row \in Row /\ today' = today
    BY <1>3, AutoAssumption DEF SetPricing
  <2>2. PriceTable(prices')
    BY <1>1, <1>3, <2>1 DEF SetPricing, Upsert, PricesTypeOK, PriceTable
  <2>3. QED
    BY <1>1, <2>1, <2>2 DEF PricesTypeOK
<1>4. CASE NextDay
  BY <1>1, <1>4, PricesAssumption DEF NextDay, Midnight, PricesTypeOK
<1>5. QED
  BY <1>2, <1>3, <1>4
     DEF Next, Handle, Administer, vars, FindHit, StartAuto, StartNamed, ServeHit, Answer,
         Settle, Fail, PutFeatures, SubmitFeedback, ClearCache, Restart

LEMMA RouteStep ==
  ASSUME Inv, [Next]_vars
  PROVE  RouteSound'
<1>1. RouteSound
  BY DEF Inv
<1>2. CASE latency' = latency /\ brain' = brain
  BY <1>1, <1>2 DEF RouteSound
<1>3. ASSUME NEW r, NEW b, Observe(r, b), brain' = brain PROVE RouteSound'
  BY <1>1, <1>3 DEF Observe, RouteSound
<1>4. CASE Restart
  BY <1>1, <1>4 DEF Restart, RouteSound
<1>5. ASSUME NEW r \in Requests, NEW b \in Backends, NEW tokens \in Usages, Answer(r, b, tokens)
      PROVE  RouteSound'
  BY <1>3, <1>5 DEF Answer
<1>6. ASSUME NEW r \in Requests, Fail(r) PROVE RouteSound'
  BY <1>2, <1>3, <1>6 DEF Fail
<1>7. QED
  BY <1>2, <1>4, <1>5, <1>6
     DEF Next, Handle, Administer, vars, routeVars, FindHit, StartAuto, StartNamed, ServeHit,
         Settle, PutFeatures, SetPricing, SubmitFeedback, ClearCache, NextDay

LEMMA FeaturesStep ==
  ASSUME Inv, [Next]_vars
  PROVE  FeatureTable(features)'
<1>1. FeatureTable(features)
  BY DEF Inv
<1>2. CASE features' = features
  BY <1>1, <1>2 DEF FeatureTable
<1>3. ASSUME NEW e \in FeatureEdits, PutFeatures(e[1], e[2]) PROVE FeatureTable(features)'
  <2>1. PICK ep, new : ep = e[1] /\ new = e[2]
    OBVIOUS
  <2>2. PICK f \in Feature : /\ ep \in Endpoints /\ DOMAIN new \subseteq DOMAIN f
                             /\ \A n \in DOMAIN new : new[n] = f[n]
    BY <2>1, ReuseAssumption
  <2>3. PICK row : row = IF ep \in DOMAIN features THEN features[ep] ELSE NewRow
    OBVIOUS
  <2>4. row \in Feature
    BY <1>1, <2>3 DEF FeatureTable, NewRow, Feature
  <2>5. PICK edited : edited = [n \in DOMAIN row |-> IF n \in DOMAIN new THEN new[n] ELSE row[n]]
    OBVIOUS
  <2>6. edited \in Feature
    <3>1. DOMAIN row = DOMAIN f
      BY <2>4 DEF Feature
    <3>2. edited = [n \in DOMAIN row |-> IF n \in DOMAIN new THEN f[n] ELSE row[n]]
      BY <2>2, <2>5
    <3>3. DOMAIN row = {"cache", "strategy", "threshold", "compression", "mode"}
      BY <2>4 DEF Feature
    <3>4. edited = [cache |-> edited.cache, strategy |-> edited.strategy,
                    threshold |-> edited.threshold, compression |-> edited.compression,
                    mode |-> edited.mode]
      BY <2>5, <3>3
    <3>5. QED
      BY <2>2, <2>4, <3>2, <3>3, <3>4 DEF Feature
  <2>7. features' = [x \in DOMAIN features \cup {ep} |-> IF x = ep THEN edited ELSE features[x]]
    BY <1>3, <2>1, <2>3, <2>5 DEF PutFeatures, Configured
  <2>8. QED
    BY <1>1, <2>2, <2>6, <2>7 DEF FeatureTable
<1>4. QED
  BY <1>2, <1>3
     DEF Next, Handle, Administer, vars, reuseVars, FindHit, StartAuto, StartNamed, ServeHit,
         Answer, Settle, Fail, SetPricing, SubmitFeedback, ClearCache, NextDay, Restart

LEMMA ChangesStep ==
  ASSUME Inv, [Next]_vars
  PROVE  changes' \in 0..MaxChanges
<1>1. changes \in 0..MaxChanges /\ MaxChanges \in Nat
  BY AutoAssumption DEF Inv
<1>2. Changed => changes' \in 0..MaxChanges
  BY <1>1 DEF Changed
<1>3. QED
  BY <1>1, <1>2
     DEF Next, Handle, Administer, vars, FindHit, StartAuto, StartNamed, ServeHit, Answer,
         Settle, Fail, PutFeatures, SetPricing, SubmitFeedback, ClearCache, NextDay, Restart

LEMMA LearningStep ==
  ASSUME Inv, [Next]_vars
  PROVE  Learning'
<1>1. Learning /\ ReqSound
  BY DEF Inv, Learning
<1>2. ASSUME NEW r \in Requests, req[r].stage # "served", routeTraces' = routeTraces,
             \A q \in Requests : q # r => req'[q] = req[q]
      PROVE  Learning'
  BY <1>1, <1>2, LearnKept
<1>3. ASSUME NEW r \in Requests, Handle(r) PROVE Learning'
  <2>1. CASE Settle(r)
    BY <2>1, SettleLearns
  <2>2. CASE ~Settle(r)
    <3>1. routeTraces' = routeTraces
      BY <1>3, <2>2
         DEF Handle, routeVars, FindHit, StartAuto, StartNamed, ServeHit, Answer, Fail
    <3>2. \A q \in Requests : q # r => req'[q] = req[q]
      BY <1>1, <1>3, <2>2
         DEF Handle, FindHit, StartAuto, StartNamed, ServeHit, Answer, Fail, ReqSound
    <3>3. req[r].stage # "served"
      <4>1. req[r] = Unseen => req[r].stage # "served"
        BY DEF Unseen
      <4>2. req[r] = Unseen \/ req[r].stage \in {"hit", "inferring"}
        BY <1>3, <2>2 DEF Handle, FindHit, StartAuto, StartNamed, ServeHit, Answer, Fail
      <4>3. QED
        BY <4>1, <4>2
    <3>4. QED
      BY <1>2, <3>1, <3>2, <3>3
  <2>3. QED
    BY <2>1, <2>2
<1>4. ASSUME NEW id \in Ids, NEW rating \in Ratings, SubmitFeedback(id, rating) PROVE Learning'
  BY <1>4, FeedbackLearns
<1>5. CASE Restart
  BY <1>1, <1>5, LearnKept DEF Restart
<1>6. CASE req' = req /\ routeTraces' = routeTraces
  BY <1>1, <1>6, LearnKept
<1>7. QED
  BY <1>3, <1>4, <1>5, <1>6
     DEF Next, Administer, vars, routeVars, PutFeatures, SetPricing, ClearCache, NextDay

LEMMA CachingStep ==
  ASSUME Inv, [Next]_vars
  PROVE  Caching'
<1>1. Caching
  BY DEF Inv, Caching
<1>2. CASE cache' = cache /\ savings' = savings /\ raced' = raced
  BY <1>1, <1>2, CachingKept
<1>3. ASSUME NEW r \in Requests, NEW b \in Backends, NEW tokens \in Usages, Answer(r, b, tokens)
      PROVE  Caching'
  BY <1>3, AnswerCaches
<1>4. ASSUME NEW r \in Requests, ServeHit(r) PROVE Caching'
  BY <1>4, ServeHitCaches
<1>5. CASE ClearCache
  BY <1>5, ClearCaches
<1>6. QED
  BY <1>2, <1>3, <1>4, <1>5
     DEF Next, Handle, Administer, vars, reuseVars, FindHit, StartAuto, StartNamed, Settle, Fail,
         PutFeatures, SetPricing, SubmitFeedback, NextDay, Restart

LEMMA ReqStep ==
  ASSUME Inv, [Next]_vars
  PROVE  ReqSound'
<1>1. ReqSound
  BY DEF Inv
<1>2. ASSUME NEW r \in Requests, Handle(r) PROVE ReqSound'
  BY <1>2, FindHitKeeps, StartAutoKeeps, StartNamedKeeps, ServeHitKeeps, AnswerKeeps,
     SettleKeeps, FailKeeps DEF Handle
<1>3. CASE Administer
  <2>1. CASE ClearCache
    BY <2>1, ClearKeeps
  <2>2. CASE ~ClearCache
    <3>1. loop = None /\ loop' = loop /\ req' = req /\ sovereign' = sovereign
      BY <1>3, <2>2
         DEF Administer, PutFeatures, SetPricing, SubmitFeedback, routeVars
    <3>2. QED
      BY <1>1, <3>1, CalmKept
  <2>3. QED
    BY <2>1, <2>2
<1>4. CASE NextDay
  BY <1>4, MidnightKeeps
<1>5. CASE Restart
  BY <1>5, RestartKeeps
<1>6. CASE UNCHANGED vars
  <2>1. ASSUME NEW q \in Requests PROVE ReqOK(q)'
    <3>1. ReqOK(q)
      BY <1>1 DEF ReqSound
    <3>2. /\ req' = req /\ loop' = loop /\ prices' = prices /\ today' = today
          /\ sovereign' = sovereign /\ cache' = cache /\ features' = features /\ raced' = raced
      BY <1>6 DEF vars, priceVars, routeVars, reuseVars
    <3>3. HitOK(req[q]) => HitOK(req[q])'
      BY <3>2 DEF HitOK, Reusable, EffectiveStrategy, Config
    <3>4. InferOK(req[q]) => InferOK(req[q])'
      BY <3>2 DEF InferOK
    <3>5. TracedOK(req[q]) => TracedOK(req[q])'
      <4>1. CostOf(req[q].backend, TracedModel(req[q].kind, req[q].backend), req[q].tokens)'
              = CostOf(req[q].backend, TracedModel(req[q].kind, req[q].backend), req[q].tokens)
        BY <3>2 DEF CostOf, PriceOf, InEffect, Before, TracedModel
      <4>2. QED
        BY <3>2, <4>1 DEF TracedOK
    <3>6. ServedOK(req[q]) => ServedOK(req[q])'
      BY <3>2 DEF ServedOK
    <3>7. QED
      BY <3>1, <3>2, <3>3, <3>4, <3>5, <3>6 DEF ReqOK
  <2>2. QED
    BY <1>1, <1>6, <2>1 DEF ReqSound, vars
<1>7. QED
  BY <1>2, <1>3, <1>4, <1>5, <1>6 DEF Next

THEOREM Invariance == Spec => []Inv
<1>1. Inv /\ [Next]_vars => Inv'
  <2> SUFFICES ASSUME Inv, [Next]_vars PROVE Inv'
    OBVIOUS
  <2>1. (LearningTypeOK /\ LearnsOutcomes)'
    BY LearningStep DEF Learning
  <2>2. (CacheSound /\ HitsAccounted)'
    BY CachingStep DEF Caching
  <2>3. QED
    BY <2>1, <2>2, PricesStep, RouteStep, FeaturesStep, ChangesStep, ReqStep DEF Inv
<1>2. QED
  BY <1>1, InitInv, PTL DEF Spec

-----------------------------------------------------------------------------
(* What holds in every state.                                              *)

\* A request is sent to a backend that was eligible and that governance allows,
\* whatever the brain planned (src/app/router/brain.py, candidates and decide).
THEOREM NothingEscapes == Spec => []NeverEscapes
<1>1. Inv => NeverEscapes
  <2> SUFFICES ASSUME Inv, NEW r \in Requests, req[r].stage = "inferring"
               PROVE  LET b == req[r].plan IN
                      /\ b \in NamesOf(DOMAIN Registry)
                      /\ sovereign => InBoundary[b]
                      /\ IsAuto(req[r].kind) /\ req[r].kind.allowed # None
                           => b \in req[r].kind.allowed
    BY DEF NeverEscapes, Waiting
  <2>1. InferOK(req[r])
    BY DEF Inv, ReqSound, ReqOK
  <2>2. QED
    BY <2>1 DEF InferOK
<1>2. QED
  BY <1>1, Invariance, PTL

\* No candidate that was scored beats the chosen one on every count
\* (src/app/router/smart.py, decide, and scoring.py, resolve).
THEOREM ChoicesAreUndominated == Spec => []Undominated
<1>1. Inv => Undominated
  BY DEF Inv, ReqSound, ReqOK, InferOK, Waiting, Undominated
<1>2. QED
  BY <1>1, Invariance, PTL

\* What is learned is what happened, with its last rating, and what is preferred
\* has earned it.
THEOREM LearnsSoundly == Spec => []LearningSound
<1>1. Inv => TypeOK
  <2> SUFFICES ASSUME Inv PROVE TypeOK
    OBVIOUS
  <2>1. ReuseTypeOK
    <3>1. \A i \in DOMAIN cache : cache[i] \in Entry
      BY DEF Inv, CacheSound
    <3>2. \A i \in DOMAIN cache : cache[i].by \in Kinds /\ cache[i].endpoint \in Endpoints
      BY <3>1 DEF Entry
    <3>3. QED
      BY <3>2 DEF Inv, CacheSound, Same, ReuseTypeOK
  <2>2. \A r \in Requests : /\ req[r].stage \in Stages
                            /\ req[r].stage \in {"hit", "traced"} <=> loop = r
    BY DEF Inv, ReqSound, ReqOK
  <2>3. QED
    BY <2>1, <2>2 DEF Inv, RouteSound, TypeOK
<1>2. Inv => PreferenceEarned
  BY PreferencesAreEarned DEF Inv
<1>3. Inv => LearningSound
  BY <1>1, <1>2 DEF Inv, LearningSound
<1>4. QED
  BY <1>3, Invariance, PTL

\* An answer is reused only within its team and endpoint, for a request that is
\* neither sensitive nor random, and for another question only where the endpoint
\* says so (src/app/cache.py, lookup and store).
THEOREM ReuseStaysInScope == Spec => []ReuseScoped
<1>1. Inv => ReuseScoped
  <2> SUFFICES ASSUME Inv, NEW r \in Requests, req[r].stage = "hit"
               PROVE  Reusable(req[r].kind, req[r].entry)
    BY DEF ReuseScoped, Reusable
  <2>1. HitOK(req[r])
    BY DEF Inv, ReqSound, ReqOK
  <2>2. QED
    BY <2>1 DEF HitOK
<1>2. QED
  BY <1>1, Invariance, PTL

\* The counters of the answers and the rows of the savings agree, but for a hit
\* that the clearing of the cache overtook (src/app/cache.py, record_hit and clear).
THEOREM HitsAreAccounted == Spec => []HitsAccounted
<1>1. Inv => HitsAccounted
  BY DEF Inv
<1>2. QED
  BY <1>1, Invariance, PTL

\* A request is charged what its trace tells, nothing for a reused answer
\* (src/app/main.py, chat_completions, and pricing.py).
THEOREM ChargesMatchTraces == Spec => []BilledAsTraced
<1>1. Inv => BilledAsTraced
  <2> SUFFICES ASSUME Inv, NEW r \in Requests, req[r].stage = "served"
               PROVE  IF req[r].reused THEN req[r].charged = 0 /\ req[r].traced = 0
                      ELSE ~req[r].own /\ ~req[r].late => req[r].charged = req[r].traced
    BY DEF BilledAsTraced
  <2>1. ServedOK(req[r])
    BY DEF Inv, ReqSound, ReqOK
  <2>2. QED
    BY <2>1 DEF ServedOK
<1>2. QED
  BY <1>1, Invariance, PTL
=============================================================================
