-------------------------------- MODULE Sums --------------------------------
(***************************************************************************)
(* What the proofs need of the sums the models compute with MapThenSumSet: *)
(* a sum over a finite set does not depend on the order in which the set   *)
(* is run through, and grows by the weight of an element that is added.    *)
(* Beside them, the least and the greatest value of a finite set, and what *)
(* is known of a loop over a sequence (FoldLeft).                          *)
(*                                                                         *)
(* Induction is stated for SETS of numbers and sets of sets, so that it is *)
(* used without instantiating an operator.                                 *)
(***************************************************************************)
EXTENDS Integers, FiniteSets, FiniteSetsExt, FiniteSetTheorems,
        WellFoundedInduction, TLAPS

-----------------------------------------------------------------------------
(* Induction and counting.                                                 *)

\* A nonempty set of numbers has a least element.
LEMMA LeastNumber ==
  ASSUME NEW T \in SUBSET Nat, T # {}
  PROVE  \E n \in T : \A m \in T : n <= m
<1>1. PICK n \in T : \A m \in T : ~(<<m, n>> \in OpToRel(<, Nat))
  BY NatLessThanWellFounded, WFMin
<1>2. \A m \in T : ~(m < n)
  BY <1>1 DEF OpToRel
<1>3. QED
  BY <1>2

\* A set of numbers that holds 0 and with each number the next holds all.
LEMMA CountingUp ==
  ASSUME NEW P \in SUBSET Nat, 0 \in P, \A n \in P : n + 1 \in P
  PROVE  P = Nat
<1>1. SUFFICES ASSUME Nat \ P # {} PROVE FALSE
  OBVIOUS
<1>2. PICK n \in Nat \ P : \A m \in Nat \ P : n <= m
  BY <1>1, LeastNumber
<1>3. n # 0 /\ n - 1 \in Nat /\ n - 1 \in P
  BY <1>2
<1>4. (n - 1) + 1 \in P
  BY <1>3
<1>5. QED
  BY <1>2, <1>4

\* An element more or less in a finite set.
LEMMA OneLess ==
  ASSUME NEW S, IsFiniteSet(S), NEW x \in S
  PROVE  /\ IsFiniteSet(S \ {x})
         /\ Cardinality(S) \in Nat \ {0}
         /\ Cardinality(S \ {x}) = Cardinality(S) - 1
<1>1. Cardinality(S) \in Nat /\ Cardinality(S) # 0
  BY FS_CardinalityType, FS_EmptySet
<1>2. QED
  BY <1>1, FS_RemoveElement, FS_CardinalityType

\* At most one.
LEMMA OneInSmall ==
  ASSUME NEW S, IsFiniteSet(S), NEW x \in S, Cardinality(S) <= 1
  PROVE  S = {x}
<1>1. Cardinality(S \ {x}) = 0 /\ IsFiniteSet(S \ {x})
  BY OneLess
<1>2. S \ {x} = {}
  BY <1>1, FS_EmptySet
<1>3. QED
  BY <1>2

\* At most one more.
LEMMA OneMore ==
  ASSUME NEW S, IsFiniteSet(S), NEW x, NEW T, T \subseteq S \cup {x}
  PROVE  /\ IsFiniteSet(T) /\ Cardinality(T) \in Nat
         /\ Cardinality(T) <= Cardinality(S) + 1
<1>1. /\ IsFiniteSet(S \cup {x}) /\ Cardinality(S) \in Nat
      /\ Cardinality(S \cup {x}) <= Cardinality(S) + 1
  <2>1. /\ IsFiniteSet(S \cup {x})
        /\ Cardinality(S \cup {x}) = Cardinality(S) \/ Cardinality(S \cup {x}) = Cardinality(S) + 1
    BY FS_AddElement
  <2>2. QED
    BY <2>1, FS_CardinalityType
<1>2. IsFiniteSet(T) /\ Cardinality(T) <= Cardinality(S \cup {x})
  BY <1>1, FS_Subset
<1>3. QED
  BY <1>1, <1>2, FS_CardinalityType

\* More requests may spend more.
LEMMA Times ==
  ASSUME NEW a \in Nat, NEW b \in Nat, NEW d \in Nat
  PROVE  /\ a * d \in Nat /\ (a + 1) * d = a * d + d /\ 0 * d = 0
         /\ a <= b => a * d <= b * d
<1>1. a * d \in Nat /\ (a + 1) * d = a * d + d /\ 0 * d = 0
  OBVIOUS
<1>2. ASSUME a <= b PROVE a * d <= b * d
  <2>1. PICK c \in Nat : b = a + c
    BY <1>2
  <2>2. b * d = a * d + c * d /\ c * d \in Nat
    BY <2>1
  <2>3. QED
    BY <1>1, <2>2
<1>3. QED
  BY <1>1, <1>2

\* What is divided by the same number keeps its order, and a step of the divisor
\* shows.
LEMMA Division ==
  ASSUME NEW a \in Int, NEW c \in Int, NEW b \in Nat \ {0}
  PROVE  /\ a \div b \in Int /\ c \div b \in Int
         /\ a <= c => a \div b <= c \div b
         /\ a + b <= c => a \div b < c \div b
<1> DEFINE p == a \div b
           q == c \div b
<1>1. /\ p \in Int /\ b * p <= a /\ a < b * p + b
      /\ q \in Int /\ b * q <= c /\ c < b * q + b
  OBVIOUS
<1> HIDE DEF p, q
<1>2. ASSUME NEW x \in Int, NEW y \in Int, x < y
      PROVE  b * x + b <= b * y
  <2>1. y - x - 1 \in Nat
    BY <1>2
  <2>2. b * (y - x - 1) \in Nat
    BY <2>1
  <2>3. b * (y - x - 1) = b * y - b * x - b
    OBVIOUS
  <2>4. b * x \in Int /\ b * y \in Int
    OBVIOUS
  <2>5. QED
    BY <2>2, <2>3, <2>4
<1>3. ASSUME a <= c PROVE p <= q
  <2>1. SUFFICES ASSUME q < p PROVE FALSE
    BY <1>1
  <2>2. b * q + b <= b * p
    BY <1>1, <1>2, <2>1
  <2>3. b * p \in Int /\ b * q \in Int
    BY <1>1
  <2>4. QED
    BY <1>1, <1>3, <2>2, <2>3
<1>4. ASSUME a + b <= c PROVE p < q
  <2>1. SUFFICES ASSUME q <= p PROVE FALSE
    BY <1>1
  <2>2. b * q <= b * p
    <3>1. CASE q = p
      BY <1>1, <3>1
    <3>2. CASE q < p
      <4>1. b * q + b <= b * p /\ b * p \in Int /\ b * q \in Int
        BY <1>1, <1>2, <3>2
      <4>2. QED
        BY <4>1
    <3>3. QED
      BY <1>1, <2>1, <3>1, <3>2
  <2>3. b * p \in Int /\ b * q \in Int
    BY <1>1
  <2>4. QED
    BY <1>1, <1>4, <2>2, <2>3
<1>5. QED
  BY <1>1, <1>3, <1>4 DEF p, q

\* Of finitely many things one has the least value.
LEMMA LeastValue ==
  ASSUME NEW T, IsFiniteSet(T), T # {}, NEW f \in [T -> Int]
  PROVE  \E x \in T : \A y \in T : f[x] <= f[y]
<1> DEFINE Bounded(S) == \E x \in S : \A y \in S : f[x] <= f[y]
           P == {n \in Nat : \A S \in SUBSET T : S # {} /\ Cardinality(S) <= n => Bounded(S)}
<1>1. \A S \in SUBSET T : IsFiniteSet(S) /\ Cardinality(S) \in Nat
  BY FS_Subset, FS_CardinalityType
<1>2. \A S \in SUBSET T : Cardinality(S) <= 0 => S = {}
  BY <1>1, FS_EmptySet
<1>3. ASSUME NEW n \in P, NEW S \in SUBSET T, S # {}, Cardinality(S) <= n + 1
      PROVE  Bounded(S)
  <2>1. PICK z \in S : TRUE
    BY <1>3
  <2>2. CASE S \ {z} = {}
    <3>1. \A y \in S : y = z /\ f[z] \in Int
      BY <2>1, <2>2
    <3>2. QED
      BY <2>1, <3>1
  <2>3. CASE S \ {z} # {}
    <3>1. Cardinality(S \ {z}) <= n
      BY <1>1, <1>3, <2>1, OneLess
    <3>2. PICK x \in S \ {z} : \A y \in S \ {z} : f[x] <= f[y]
      BY <1>3, <2>3, <3>1
    <3>3. f[x] \in Int /\ f[z] \in Int /\ \A y \in S : f[y] \in Int
      BY <2>1, <3>2
    <3>4. CASE f[x] <= f[z]
      <4>1. \A y \in S : f[x] <= f[y]
        BY <3>2, <3>4
      <4>2. QED
        BY <3>2, <4>1
    <3>5. CASE f[z] <= f[x]
      <4>1. \A y \in S : f[z] <= f[y]
        BY <3>2, <3>3, <3>5
      <4>2. QED
        BY <2>1, <4>1
    <3>6. QED
      BY <3>3, <3>4, <3>5
  <2>4. QED
    BY <2>2, <2>3
<1>4. P = Nat
  <2>1. \A n \in P : n + 1 \in P
    BY <1>3
  <2>2. 0 \in P /\ P \in SUBSET Nat
    BY <1>2
  <2> HIDE DEF P
  <2>3. QED
    BY <2>1, <2>2, CountingUp
<1>5. Cardinality(T) \in P
  BY <1>1, <1>4
<1>6. QED
  BY <1>1, <1>5

\* The values of a function on a finite set are finitely many.
LEMMA FiniteImage ==
  ASSUME NEW S, IsFiniteSet(S), NEW f
  PROVE  IsFiniteSet({f[x] : x \in S})
<1> DEFINE T == {f[x] : x \in S}
           g == [x \in S |-> f[x]]
<1>1. g \in Surjection(S, T)
  BY DEF Surjection
<1>2. QED
  BY <1>1, FS_Surjection

\* A nonempty finite set of numbers has a greatest and a least element.
LEMMA GreatestNumber ==
  ASSUME NEW T \in SUBSET Int, IsFiniteSet(T), T # {}
  PROVE  \E x \in T : \A y \in T : x >= y
<1> DEFINE f == [x \in T |-> -x]
<1>1. f \in [T -> Int]
  OBVIOUS
<1>2. \A x \in T : f[x] = -x
  OBVIOUS
<1> HIDE DEF f
<1>3. PICK x \in T : \A y \in T : f[x] <= f[y]
  BY <1>1, LeastValue
<1>4. \A y \in T : x >= y
  <2> SUFFICES ASSUME NEW y \in T PROVE x >= y
    OBVIOUS
  <2>1. -x <= -y /\ x \in Int /\ y \in Int
    BY <1>2, <1>3
  <2>2. QED
    BY <2>1
<1>5. QED
  BY <1>4

LEMMA SmallestNumber ==
  ASSUME NEW T \in SUBSET Int, IsFiniteSet(T), T # {}
  PROVE  \E x \in T : \A y \in T : x <= y
<1> DEFINE f == [x \in T |-> x]
<1>1. f \in [T -> Int] /\ \A x \in T : f[x] = x
  OBVIOUS
<1> HIDE DEF f
<1>2. PICK x \in T : \A y \in T : f[x] <= f[y]
  BY <1>1, LeastValue
<1>3. QED
  BY <1>1, <1>2

\* Max and Min of a finite set of numbers.
LEMMA MaxOf ==
  ASSUME NEW T \in SUBSET Int, IsFiniteSet(T), T # {}
  PROVE  Max(T) \in T /\ Max(T) \in Int /\ \A y \in T : Max(T) >= y
<1>1. \E x \in T : \A y \in T : x >= y
  BY GreatestNumber
<1>2. QED
  BY <1>1 DEF Max

LEMMA MinOf ==
  ASSUME NEW T \in SUBSET Int, IsFiniteSet(T), T # {}
  PROVE  Min(T) \in T /\ Min(T) \in Int /\ \A y \in T : Min(T) <= y
<1>1. \E x \in T : \A y \in T : x =< y
  BY SmallestNumber
<1>2. QED
  BY <1>1 DEF Min

LEMMA MaxIs ==
  ASSUME NEW T \in SUBSET Int, NEW n \in T, \A m \in T : m <= n
  PROVE  Max(T) = n
<1>1. \E x \in T : \A y \in T : x >= y
  OBVIOUS
<1>2. Max(T) \in T /\ \A y \in T : Max(T) >= y
  BY <1>1 DEF Max
<1>3. Max(T) \in Int /\ n \in Int /\ Max(T) >= n /\ Max(T) <= n
  BY <1>2
<1>4. QED
  BY <1>3

LEMMA MinIs ==
  ASSUME NEW T \in SUBSET Int, NEW n \in T, \A m \in T : n <= m
  PROVE  Min(T) = n
<1>1. \E x \in T : \A y \in T : x =< y
  OBVIOUS
<1>2. Min(T) \in T /\ \A y \in T : Min(T) =< y
  BY <1>1 DEF Min
<1>3. Min(T) \in Int /\ n \in Int /\ Min(T) =< n /\ n <= Min(T)
  BY <1>2
<1>4. QED
  BY <1>3

-----------------------------------------------------------------------------
(* Sums.                                                                   *)

Total(w, S) == MapThenSumSet(LAMBDA x : w[x], S)

Pick(s) == CHOOSE x \in s : TRUE

\* One step of the sum over s, given the sums over smaller sets.
SumStep(h, w, s) == IF s = {} THEN 0 ELSE w[Pick(s)] + h[s \ {Pick(s)}]

\* h gives the sum over every set in D.
SumsOn(h, w, D) == h = [s \in D |-> SumStep(h, w, s)]

\* h gives the sum over every subset of S.
IsSum(h, w, S) == SumsOn(h, w, SUBSET S)

LEMMA PickIn == ASSUME NEW s, s # {} PROVE Pick(s) \in s
BY DEF Pick

\* Sums over the subsets of a finite set exist.
LEMMA SumExists ==
  ASSUME NEW S, IsFiniteSet(S), NEW w
  PROVE  \E h : IsSum(h, w, S)
<1> DEFINE D(n) == {s \in SUBSET S : Cardinality(s) <= n}
           P == {n \in Nat : \E h : SumsOn(h, w, D(n))}
<1>0. \A s \in SUBSET S : IsFiniteSet(s) /\ Cardinality(s) \in Nat
  BY FS_Subset, FS_CardinalityType
<1>1. 0 \in P
  <2>1. D(0) = {{}}
    BY <1>0, FS_EmptySet
  <2> DEFINE h == [s \in D(0) |-> 0]
  <2>2. SumsOn(h, w, D(0))
    BY <2>1 DEF SumsOn, SumStep
  <2>3. QED
    BY <2>2
<1>2. ASSUME NEW n \in Nat, NEW h, SumsOn(h, w, D(n)) PROVE \E f : SumsOn(f, w, D(n + 1))
  <2> DEFINE g == [s \in D(n + 1) |-> SumStep(h, w, s)]
  <2>1. \A s \in D(n) : s \in D(n + 1) /\ g[s] = h[s]
    BY <1>0, <1>2 DEF SumsOn
  <2>2. ASSUME NEW s \in D(n + 1), s # {} PROVE s \ {Pick(s)} \in D(n)
    BY <2>2, <1>0, PickIn, OneLess
  <2>3. \A s \in D(n + 1) : SumStep(h, w, s) = SumStep(g, w, s)
    BY <2>1, <2>2 DEF SumStep
  <2>4. SumsOn(g, w, D(n + 1))
    BY <2>3 DEF SumsOn
  <2> HIDE DEF g, D
  <2>5. QED
    BY <2>4
<1>3. \A n \in P : n + 1 \in P
  <2> HIDE DEF D
  <2> QED BY <1>2
<1>4. Cardinality(S) \in P
  <2> HIDE DEF P
  <2>1. P \in SUBSET Nat
    BY DEF P
  <2>2. P = Nat
    BY <1>1, <1>3, <2>1, CountingUp
  <2>3. QED
    BY <1>0, <2>2
<1>5. D(Cardinality(S)) = SUBSET S
  BY <1>0, FS_Subset
<1>6. QED
  BY <1>4, <1>5 DEF IsSum

\* The sum is the value any such function has at the set.
LEMMA TotalIs ==
  ASSUME NEW S, IsFiniteSet(S), NEW w
  PROVE  \E h : IsSum(h, w, S) /\ Total(w, S) = h[S]
<1>1. PICK h : IsSum(h, w, S)
  BY SumExists
<1>2. QED
  BY <1>1 DEF Total, MapThenSumSet, MapThenFoldSet, IsSum, SumsOn, SumStep, Pick

\* A sum of numbers is a number, negative ones included.
LEMMA SumIsInt ==
  ASSUME NEW S, IsFiniteSet(S), NEW w, \A x \in S : w[x] \in Int
  PROVE  Total(w, S) \in Int
<1>0. \A s \in SUBSET S : IsFiniteSet(s) /\ Cardinality(s) \in Nat
  BY FS_Subset, FS_CardinalityType
<1>1. PICK h : IsSum(h, w, S) /\ Total(w, S) = h[S]
  BY TotalIs
<1>2. /\ h[{}] = 0
      /\ \A s \in SUBSET S : s # {} => h[s] = w[Pick(s)] + h[s \ {Pick(s)}]
  BY <1>1 DEF IsSum, SumsOn, SumStep
<1> DEFINE P == {n \in Nat : \A s \in SUBSET S : Cardinality(s) <= n => h[s] \in Int}
<1>3. 0 \in P
  <2>1. \A s \in SUBSET S : Cardinality(s) <= 0 => s = {}
    BY <1>0, FS_EmptySet
  <2>2. ASSUME NEW s \in SUBSET S, Cardinality(s) <= 0 PROVE h[s] \in Int
    <3>1. s = {} /\ h[{}] \in Int
      BY <1>2, <2>1, <2>2
    <3>2. QED
      BY <3>1, Zenon
  <2>3. QED
    BY <2>2
<1>4. ASSUME NEW n \in Nat, \A s \in SUBSET S : Cardinality(s) <= n => h[s] \in Int,
             NEW s \in SUBSET S, Cardinality(s) <= n + 1
      PROVE  h[s] \in Int
  <2>1. CASE s = {}
    BY <1>2, <2>1
  <2>2. CASE s # {}
    <3>1. Pick(s) \in s
      BY <2>2, PickIn
    <3>2. Cardinality(s \ {Pick(s)}) <= n
      BY <1>0, <1>4, <3>1, OneLess
    <3>3. h[s \ {Pick(s)}] \in Int /\ w[Pick(s)] \in Int
      BY <1>4, <3>1, <3>2
    <3>4. QED
      BY <1>2, <2>2, <3>3
  <2>3. QED
    BY <2>1, <2>2
<1>5. P = Nat
  <2>1. \A n \in P : n + 1 \in P
    BY <1>4
  <2>2. P \in SUBSET Nat
    OBVIOUS
  <2> HIDE DEF P
  <2>3. QED
    BY <1>3, <2>1, <2>2, CountingUp
<1>6. QED
  BY <1>0, <1>1, <1>5

\* The choice of the step does not matter, and sums are numbers.
LEMMA SumAnyOrder ==
  ASSUME NEW S, IsFiniteSet(S), NEW T, S \subseteq T, NEW w \in [T -> Nat],
         NEW h, IsSum(h, w, S)
  PROVE  /\ h[{}] = 0
         /\ \A s \in SUBSET S : h[s] \in Nat
         /\ \A s \in SUBSET S : \A y \in s : h[s] = w[y] + h[s \ {y}]
<1>0. \A s \in SUBSET S : IsFiniteSet(s) /\ Cardinality(s) \in Nat
  BY FS_Subset, FS_CardinalityType
<1>1. /\ h[{}] = 0
      /\ \A s \in SUBSET S : s # {} => h[s] = w[Pick(s)] + h[s \ {Pick(s)}]
  BY DEF IsSum, SumsOn, SumStep
<1> DEFINE Good(s) == h[s] \in Nat /\ \A y \in s : h[s] = w[y] + h[s \ {y}]
           P == {n \in Nat : \A s \in SUBSET S : Cardinality(s) <= n => Good(s)}
<1>2. \A s \in SUBSET S : Cardinality(s) <= 0 => Good(s)
  <2>1. \A s \in SUBSET S : Cardinality(s) <= 0 => s = {}
    BY <1>0, FS_EmptySet
  <2>2. Good({})
    BY <1>1
  <2>3. QED
    BY <2>1, <2>2
<1> HIDE DEF Good
<1>3. ASSUME NEW n \in Nat, \A s \in SUBSET S : Cardinality(s) <= n => Good(s),
             NEW s \in SUBSET S, Cardinality(s) <= n + 1, s # {}
      PROVE  Good(s)
  <2> DEFINE p == Pick(s)
  <2>1. p \in s
    BY <1>3, PickIn
  <2>2. h[s] = w[p] + h[s \ {p}]
    BY <1>1, <1>3
  <2> HIDE DEF p
  <2>3. ASSUME NEW z \in s
        PROVE  Good(s \ {z}) /\ w[z] \in Nat /\ h[s \ {z}] \in Nat
    <3>1. Cardinality(s \ {z}) <= n
      BY <1>0, <1>3, OneLess
    <3>2. Good(s \ {z})
      BY <1>3, <3>1
    <3>3. QED
      BY <3>2 DEF Good
  <2>4. h[s] \in Nat
    BY <2>1, <2>2, <2>3
  <2>5. ASSUME NEW y \in s, y # p PROVE h[s] = w[y] + h[s \ {y}]
    <3> DEFINE rest == h[(s \ {y}) \ {p}]
    <3>1. h[s \ {y}] = w[p] + rest
      BY <2>1, <2>3, <2>5 DEF Good
    <3>2. (s \ {p}) \ {y} = (s \ {y}) \ {p}
      OBVIOUS
    <3>3. h[s \ {p}] = w[y] + rest
      BY <2>1, <2>3, <2>5, <3>2 DEF Good
    <3>4. rest \in Nat
      <4>1. /\ IsFiniteSet(s \ {y}) /\ p \in s \ {y}
            /\ Cardinality(s) \in Nat /\ Cardinality(s \ {y}) = Cardinality(s) - 1
        BY <1>0, <2>1, <2>5, OneLess
      <4>2. Cardinality((s \ {y}) \ {p}) = Cardinality(s \ {y}) - 1
        BY <4>1, OneLess
      <4>3. QED
        BY <1>0, <1>3, <4>1, <4>2 DEF Good
    <3>5. w[y] \in Nat /\ w[p] \in Nat
      BY <2>1, <2>3
    <3> HIDE DEF rest
    <3>6. QED
      BY <2>2, <3>1, <3>3, <3>4, <3>5
  <2>6. QED
    BY <2>2, <2>4, <2>5 DEF Good
<1>4. P = Nat
  <2>1. ASSUME NEW n \in Nat, \A s \in SUBSET S : Cardinality(s) <= n => Good(s),
               NEW s \in SUBSET S, Cardinality(s) <= n + 1
        PROVE  Good(s)
    <3>1. CASE s = {}
      BY <1>2, <3>1, FS_EmptySet
    <3>2. CASE s # {}
      BY <1>3, <2>1, <3>2
    <3>3. QED
      BY <3>1, <3>2
  <2>2. \A n \in P : n + 1 \in P
    BY <2>1
  <2>3. 0 \in P /\ P \in SUBSET Nat
    BY <1>2
  <2> HIDE DEF P
  <2>4. QED
    BY <2>2, <2>3, CountingUp
<1>5. \A s \in SUBSET S : Good(s)
  <2>1. \A s \in SUBSET S : Cardinality(s) \in P
    BY <1>0, <1>4
  <2>2. QED
    BY <1>0, <2>1
<1>6. QED
  BY <1>1, <1>5 DEF Good

\* Sums over common subsets agree when the weights do.
LEMMA SumUnique ==
  ASSUME NEW B, IsFiniteSet(B), NEW A, A \subseteq B,
         NEW w, NEW v, \A x \in A : w[x] = v[x],
         NEW h, IsSum(h, w, A), NEW g, IsSum(g, v, B)
  PROVE  \A s \in SUBSET A : g[s] = h[s]
<1>0. \A s \in SUBSET A : IsFiniteSet(s) /\ Cardinality(s) \in Nat
  BY FS_Subset, FS_CardinalityType
<1>1. \A s \in SUBSET A : h[s] = SumStep(h, w, s) /\ g[s] = SumStep(g, v, s)
  BY DEF IsSum, SumsOn
<1> DEFINE P == {n \in Nat : \A s \in SUBSET A : Cardinality(s) <= n => g[s] = h[s]}
<1>2. g[{}] = h[{}]
  BY <1>1 DEF SumStep
<1>3. ASSUME NEW n \in Nat, \A s \in SUBSET A : Cardinality(s) <= n => g[s] = h[s],
             NEW s \in SUBSET A, Cardinality(s) <= n + 1
      PROVE  g[s] = h[s]
  <2>1. CASE s # {}
    <3>1. Pick(s) \in s
      BY <2>1, PickIn
    <3>2. Cardinality(s \ {Pick(s)}) <= n
      BY <1>0, <1>3, <3>1, OneLess
    <3>3. g[s \ {Pick(s)}] = h[s \ {Pick(s)}]
      BY <1>3, <3>2
    <3>4. w[Pick(s)] = v[Pick(s)]
      BY <3>1
    <3>5. QED
      BY <1>1, <2>1, <3>3, <3>4 DEF SumStep
  <2>2. QED
    BY <1>2, <2>1
<1>4. P = Nat
  <2>1. \A n \in P : n + 1 \in P
    BY <1>3
  <2>2. \A s \in SUBSET A : Cardinality(s) <= 0 => s = {}
    BY <1>0, FS_EmptySet
  <2>3. 0 \in P /\ P \in SUBSET Nat
    BY <1>2, <2>2
  <2> HIDE DEF P
  <2>4. QED
    BY <2>1, <2>3, CountingUp
<1>5. QED
  <2>1. \A s \in SUBSET A : Cardinality(s) \in P
    BY <1>0, <1>4
  <2>2. QED
    BY <1>0, <2>1

\* Weights outside the set do not count.
THEOREM SumSame ==
  ASSUME NEW S, IsFiniteSet(S), NEW w, NEW v, \A x \in S : w[x] = v[x]
  PROVE  Total(w, S) = Total(v, S)
<1>1. PICK h : IsSum(h, w, S) /\ Total(w, S) = h[S]
  BY TotalIs
<1>2. PICK g : IsSum(g, v, S) /\ Total(v, S) = g[S]
  BY TotalIs
<1>3. QED
  BY <1>1, <1>2, SumUnique

\* A sum of numbers is a number, of none it is 0, and it grows by the weight of
\* an element that is added.
THEOREM SumOfMore ==
  ASSUME NEW T, NEW w \in [T -> Nat], NEW S, IsFiniteSet(S), S \subseteq T
  PROVE  /\ Total(w, {}) = 0
         /\ Total(w, S) \in Nat
         /\ \A x \in T \ S : Total(w, S \cup {x}) = w[x] + Total(w, S)
<1>1. Total(w, {}) = 0
  <2>1. PICK h : IsSum(h, w, {}) /\ Total(w, {}) = h[{}]
    BY TotalIs, FS_EmptySet
  <2>2. QED
    BY <2>1 DEF IsSum, SumsOn, SumStep
<1>2. PICK h : IsSum(h, w, S) /\ Total(w, S) = h[S]
  BY TotalIs
<1>3. Total(w, S) \in Nat
  <2>1. \A s \in SUBSET S : h[s] \in Nat
    BY <1>2, SumAnyOrder
  <2>2. QED
    BY <1>2, <2>1
<1>4. ASSUME NEW x \in T \ S PROVE Total(w, S \cup {x}) = w[x] + Total(w, S)
  <2> DEFINE U == S \cup {x}
  <2>1. IsFiniteSet(U)
    BY FS_AddElement
  <2>2. U \subseteq T /\ S \subseteq U
    OBVIOUS
  <2>3. PICK g : IsSum(g, w, U) /\ Total(w, U) = g[U]
    BY <2>1, TotalIs
  <2>4. g[S] = h[S]
    <3> HIDE DEF U
    <3>1. \A s \in SUBSET S : g[s] = h[s]
      BY <1>2, <2>1, <2>2, <2>3, SumUnique
    <3>2. QED
      BY <3>1
  <2>5. g[U] = w[x] + g[U \ {x}]
    <3> HIDE DEF U
    <3>1. /\ g[{}] = 0
          /\ \A s \in SUBSET U : g[s] \in Nat
          /\ \A s \in SUBSET U : \A y \in s : g[s] = w[y] + g[s \ {y}]
      BY <2>1, <2>2, <2>3, SumAnyOrder
    <3>2. QED
      BY <3>1 DEF U
  <2>6. U \ {x} = S
    OBVIOUS
  <2>7. QED
    BY <1>2, <2>3, <2>4, <2>5, <2>6
<1>5. QED
  BY <1>1, <1>3, <1>4

\* A part of a set sums up to no more than the set.
THEOREM SumOfPart ==
  ASSUME NEW T, NEW w \in [T -> Nat], NEW S, IsFiniteSet(S), S \subseteq T, NEW A \in SUBSET S
  PROVE  Total(w, A) <= Total(w, S)
<1> DEFINE Above(n) == \A B \in SUBSET S :
                         A \subseteq B /\ Cardinality(B) <= n => Total(w, A) <= Total(w, B)
           P == {n \in Nat : Above(n)}
<1>1. \A B \in SUBSET S : IsFiniteSet(B) /\ Cardinality(B) \in Nat /\ B \subseteq T
  BY FS_Subset, FS_CardinalityType
<1>2. \A B \in SUBSET S :
        Total(w, B) \in Nat /\ \A x \in T \ B : Total(w, B \cup {x}) = w[x] + Total(w, B)
  BY <1>1, SumOfMore
<1>3. Above(0)
  <2>1. \A B \in SUBSET S : A \subseteq B /\ Cardinality(B) <= 0 => A = B
    BY <1>1, FS_EmptySet
  <2>2. QED
    BY <1>2, <2>1
<1>4. ASSUME NEW n \in Nat, Above(n) PROVE Above(n + 1)
  <2> SUFFICES ASSUME NEW B \in SUBSET S, A \subseteq B, Cardinality(B) <= n + 1
               PROVE  Total(w, A) <= Total(w, B)
    OBVIOUS
  <2>1. CASE B = A
    BY <1>2, <2>1
  <2>2. CASE B # A
    <3>1. PICK x \in B : x \notin A
      BY <2>2
    <3> DEFINE C == B \ {x}
    <3>2. /\ C \in SUBSET S /\ A \subseteq C /\ B = C \cup {x} /\ x \in T \ C
          /\ w[x] \in Nat
      BY <3>1
    <3>3. Cardinality(C) <= n
      BY <1>1, <3>1, OneLess
    <3> HIDE DEF C
    <3>4. Total(w, A) <= Total(w, C)
      BY <1>4, <3>2, <3>3
    <3>5. Total(w, B) = w[x] + Total(w, C)
      BY <1>2, <3>2
    <3>6. Total(w, A) \in Nat /\ Total(w, C) \in Nat
      BY <1>2, <3>2
    <3>7. QED
      BY <3>2, <3>4, <3>5, <3>6
  <2>3. QED
    BY <2>1, <2>2
<1>5. P = Nat
  <2>1. P \in SUBSET Nat /\ 0 \in P /\ \A n \in P : n + 1 \in P
    BY <1>3, <1>4
  <2> HIDE DEF P
  <2>2. QED
    BY <2>1, CountingUp
<1>6. QED
  BY <1>1, <1>5

-----------------------------------------------------------------------------
(* Loops.                                                                  *)

\* The greatest of a nonempty set of positions is in it, above the others.
LEMMA MaxOfSome ==
  ASSUME NEW N \in Nat, NEW s \in SUBSET (1..N), s # {}
  PROVE  Max(s) \in s /\ Max(s) \in Nat /\ \A j \in s \ {Max(s)} : j < Max(s)
<1>1. IsFiniteSet(1..N) /\ s \subseteq 1..N
  BY FS_Interval
<1>2. IsFiniteSet(s)
  BY <1>1, FS_Subset
<1>3. 1..N \subseteq Nat /\ Nat \subseteq Int
  OBVIOUS
<1>4. s \in SUBSET Int /\ s \subseteq Nat
  BY <1>3, Zenon
<1>5. Max(s) \in s /\ \A y \in s : Max(s) >= y
  BY <1>2, <1>4, MaxOf
<1>6. ASSUME NEW j \in s, j # Max(s) PROVE j < Max(s)
  <2>1. j \in Int /\ Max(s) \in Int /\ Max(s) >= j
    BY <1>4, <1>5
  <2> QED BY <1>6, <2>1
<1> QED BY <1>4, <1>5, <1>6

\* h gives what a loop over the first N places has made of base after each set
\* of places: a place's step is applied to what the places before it left.
LoopOn(step, base, N, h) ==
  h = [s \in SUBSET (1..N) |->
         IF s = {} THEN base ELSE step[<<h[s \ {Max(s)}], Max(s)>>]]

\* Without its greatest place, a set of the first n + 1 is one of the first n.
LEMMA WithoutLast ==
  ASSUME NEW n \in Nat, NEW s \in SUBSET (1..(n + 1)), s # {}
  PROVE  Max(s) \in 1..(n + 1) /\ s \ {Max(s)} \in SUBSET (1..n)
<1>1. n + 1 \in Nat
  OBVIOUS
<1>2. Max(s) \in s /\ Max(s) \in Nat /\ \A j \in s \ {Max(s)} : j < Max(s)
  BY <1>1, MaxOfSome
<1>3. Max(s) \in 1..(n + 1)
  BY <1>2
<1>4. ASSUME NEW j \in s \ {Max(s)} PROVE j \in 1..n
  <2>1. /\ j \in 1..(n + 1) /\ Max(s) \in Nat
        /\ j < Max(s) /\ Max(s) <= n + 1
    BY <1>2, <1>3
  <2>2. QED
    BY <2>1
<1>5. QED
  BY <1>3, <1>4

\* What a loop does to values of V exists and stays in V.
LEMMA LoopExists ==
  ASSUME NEW V, NEW base \in V, NEW N \in Nat, NEW step \in [V \X (1..N) -> V]
  PROVE  \E h \in [SUBSET (1..N) -> V] : LoopOn(step, base, N, h)
<1> DEFINE Made(n) == \E h \in [SUBSET (1..n) -> V] : LoopOn(step, base, n, h)
           P == {n \in Nat : n <= N => Made(n)}
<1>1. Made(0)
  <2> DEFINE h == [s \in SUBSET (1..0) |-> base]
  <2>1. \A s \in SUBSET (1..0) : s = {}
    OBVIOUS
  <2>2. h = [s \in SUBSET (1..0) |->
               IF s = {} THEN base ELSE step[<<h[s \ {Max(s)}], Max(s)>>]]
    BY <2>1
  <2>3. h \in [SUBSET (1..0) -> V] /\ LoopOn(step, base, 0, h)
    BY <2>2 DEF LoopOn
  <2>4. QED
    BY <2>3
<1>2. ASSUME NEW n \in Nat, n + 1 <= N,
             NEW h \in [SUBSET (1..n) -> V], LoopOn(step, base, n, h)
      PROVE  \E g \in [SUBSET (1..(n + 1)) -> V] : LoopOn(step, base, n + 1, g)
  <2> DEFINE Stepped(k, s) == IF s = {} THEN base ELSE step[<<k[s \ {Max(s)}], Max(s)>>]
             g == [s \in SUBSET (1..(n + 1)) |-> Stepped(h, s)]
  <2>1. \A s \in SUBSET (1..n) : h[s] = Stepped(h, s) /\ s \in SUBSET (1..(n + 1))
    <3>1. h = [s \in SUBSET (1..n) |-> Stepped(h, s)]
      BY <1>2 DEF LoopOn
    <3>2. \A s \in SUBSET (1..n) : h[s] = Stepped(h, s)
      <4> HIDE DEF Stepped
      <4>1. QED
        BY <3>1
    <3>3. 1..n \subseteq 1..(n + 1)
      OBVIOUS
    <3>4. QED
      BY <3>2, <3>3
  <2>2. \A s \in SUBSET (1..n) : g[s] = h[s]
    <3> HIDE DEF Stepped
    <3>1. QED
      BY <2>1
  <2>3. ASSUME NEW s \in SUBSET (1..(n + 1)) PROVE Stepped(h, s) = Stepped(g, s) /\ Stepped(h, s) \in V
    <3>1. CASE s = {}
      BY <3>1
    <3>2. CASE s # {}
      <4>1. Max(s) \in 1..(n + 1) /\ s \ {Max(s)} \in SUBSET (1..n)
        BY <3>2, WithoutLast
      <4>2. h[s \ {Max(s)}] = g[s \ {Max(s)}] /\ h[s \ {Max(s)}] \in V
        <5> HIDE DEF g
        <5>1. QED
          BY <2>2, <4>1
      <4>3. Max(s) \in 1..N
        BY <1>2, <4>1
      <4> HIDE DEF g
      <4>4. QED
        BY <3>2, <4>2, <4>3
    <3>3. QED
      BY <3>1, <3>2
  <2>4. g = [s \in SUBSET (1..(n + 1)) |-> Stepped(g, s)]
    BY <2>3, Zenon
  <2>5. g \in [SUBSET (1..(n + 1)) -> V]
    <3> HIDE DEF Stepped
    <3>1. QED
      BY <2>3
  <2>6. LoopOn(step, base, n + 1, g)
    BY <2>4 DEF LoopOn
  <2> HIDE DEF g
  <2>7. QED
    BY <2>5, <2>6
<1>3. ASSUME NEW n \in Nat, n + 1 <= N, Made(n) PROVE Made(n + 1)
  BY <1>2, <1>3
<1> HIDE DEF Made
<1>4. P \in SUBSET Nat /\ 0 \in P /\ \A n \in P : n + 1 \in P
  BY <1>1, <1>3
<1>5. P = Nat
  <2> HIDE DEF P
  <2>1. QED
    BY <1>4, CountingUp
<1>6. Made(N)
  BY <1>5
<1>7. QED
  BY <1>6 DEF Made

\* Two accounts of a loop agree when they start and go on alike.
LEMMA SameLoop ==
  ASSUME NEW N \in Nat, NEW h, NEW g, h[{}] = g[{}],
         \A s \in SUBSET (1..N) :
           s # {} /\ h[s \ {Max(s)}] = g[s \ {Max(s)}] => h[s] = g[s]
  PROVE  h[1..N] = g[1..N]
<1> DEFINE P == {n \in Nat : \A s \in SUBSET (1..N) : s \subseteq 1..n => h[s] = g[s]}
<1>1. 0 \in P
  <2>1. \A s \in SUBSET (1..N) : s \subseteq 1..0 => s = {}
    OBVIOUS
  <2>2. QED
    BY <2>1
<1>2. ASSUME NEW n \in P, NEW s \in SUBSET (1..N), s \subseteq 1..(n + 1)
      PROVE  h[s] = g[s]
  <2>1. CASE s = {}
    BY <2>1
  <2>2. CASE s # {}
    <3>1. s \ {Max(s)} \in SUBSET (1..n) /\ s \ {Max(s)} \in SUBSET (1..N)
      BY <1>2, <2>2, WithoutLast
    <3>2. h[s \ {Max(s)}] = g[s \ {Max(s)}]
      BY <3>1
    <3>3. QED
      BY <2>2, <3>2
  <2>3. QED
    BY <2>1, <2>2
<1>3. P = Nat
  <2>1. P \in SUBSET Nat /\ \A n \in P : n + 1 \in P
    BY <1>2
  <2> HIDE DEF P
  <2>2. QED
    BY <1>1, <2>1, CountingUp
<1>4. QED
  BY <1>3
=============================================================================
