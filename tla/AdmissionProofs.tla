--------------------------- MODULE AdmissionProofs ---------------------------
(***************************************************************************)
(* Theorems about what the gateway asks before it answers: what the        *)
(* caller's key may spend and reach (KeyedRequests), and whether the       *)
(* deployment is licensed (Licensing) - for every set of issued keys,      *)
(* requests and edits, and every bound.                                    *)
(***************************************************************************)
EXTENDS Licensing, KeyedRequests, SequenceTheorems, Sums

-----------------------------------------------------------------------------
(* KeyedRequests: what is known of keys, requests and alerts.              *)

KeyedRequest == [stage : Stages, key : Nat, subject : Names \cup {None},
                 backend : Backends \cup {None}, metered : BOOLEAN, keyed : BOOLEAN,
                 sole : BOOLEAN, revoked : BOOLEAN, scope : SUBSET Backends]

Titles == Names \X {"warn", "block"} \X (1..4)

Alert == [title : Titles, day : Nat]

\* KeyedTypeOK, and the types of the requests, the settings and the alerts; no
\* alert is from tomorrow.
KeyedTypes ==
  /\ KeyedTypeOK
  /\ clock \in Nat
  /\ req \in [Requests -> KeyedRequest]
  /\ loop \in Requests \cup {None}
  /\ settings \in [alerts : BOOLEAN, zone : 0..1]
  /\ bell \in Seq(Alert)
  /\ \A j \in DOMAIN bell : bell[j].day <= UtcDay(clock)

Admission == {"authenticated", "metered", "budgeted"}

\* Row i of a table of keys has the name and is not revoked.
HasName(table, i, name) == i \in DOMAIN table /\ table[i].name = name /\ ~table[i].revoked

\* Until a request under a key is admitted, or its key is revoked, the key is in
\* the table, and if it was the only one of its name it still is, with the scope
\* it had.
KeyKnown(q, table) ==
  q.key # 0 /\ ~q.revoked /\ q.stage \in Admission =>
    /\ HasName(table, q.key, q.subject)
    /\ q.sole => /\ q.scope = table[q.key].backends
                 /\ \A j \in DOMAIN table : HasName(table, j, q.subject) => j = q.key

\* A request that was authenticated has a name.  Until the name is looked up, it
\* is keyed as long as a key has the name; after that it is metered as found.
ChargeKnown(q, table) ==
  /\ q.stage # "idle" => q.subject \in Names
  /\ q.stage = "authenticated" =>
       (q.keyed <=> \E j \in DOMAIN table : HasName(table, j, q.subject))
  /\ q.stage \in {"metered", "budgeted", "inferring"} => (q.metered <=> q.keyed)

ScopeKept(q) ==
  q.key # 0 /\ q.backend # None /\ q.stage = "inferring" /\ q.sole /\ ~q.revoked
    => q.scope = {} \/ q.backend \in q.scope

Known(q, table) == KeyKnown(q, table) /\ ChargeKnown(q, table) /\ ScopeKept(q)

\* The ledger and the answers match.
Matched == Metered /\ RowsAnswered

KeyedInv ==
  /\ KeyedTypes
  /\ Matched
  /\ \A r \in Requests : Known(req[r], keys)

-----------------------------------------------------------------------------
(* Caps.                                                                   *)

MetaOf(table, name) == SelectInSeq(table, LAMBDA k : k.name = name /\ ~k.revoked)

\* The oldest key of the name that is not revoked, or 0.
LEMMA MetaIs ==
  ASSUME NEW table \in Seq(KeyRecord), NEW name
  PROVE  /\ MetaOf(table, name) \in 0..Len(table)
         /\ MetaOf(table, name) # 0 => HasName(table, MetaOf(table, name), name)
         /\ \A i \in DOMAIN table :
              HasName(table, i, name) => MetaOf(table, name) # 0 /\ MetaOf(table, name) <= i
<1> DEFINE I == {i \in 1..Len(table) : table[i].name = name /\ ~table[i].revoked}
<1>1. MetaOf(table, name) = IF I # {} THEN Min(I) ELSE 0
  BY DEF MetaOf, SelectInSeq
<1>2. I \in SUBSET (1..Len(table)) /\ \A i : HasName(table, i, name) <=> i \in I
  BY DEF HasName
<1> HIDE DEF I
<1>3. CASE I = {}
  BY <1>1, <1>2, <1>3
<1>4. CASE I # {}
  <2>1. I \in SUBSET Int /\ IsFiniteSet(I)
    <3>1. IsFiniteSet(1..Len(table)) /\ 1..Len(table) \subseteq Int
      BY FS_Interval
    <3>2. QED
      BY <1>2, <3>1, FS_Subset
  <2>2. Min(I) \in I /\ \A i \in I : Min(I) <= i
    BY <1>4, <2>1, MinOf
  <2>3. MetaOf(table, name) = Min(I) /\ Min(I) \in 1..Len(table)
    BY <1>1, <1>2, <1>4, <2>2
  <2>4. MetaOf(table, name) # 0 /\ MetaOf(table, name) \in 0..Len(table)
    BY <2>3
  <2>5. QED
    BY <1>2, <2>2, <2>3, <2>4
<1>5. QED
  BY <1>3, <1>4

LEMMA KeyMetaIs ==
  ASSUME KeyedTypes, NEW name
  PROVE  /\ KeyMeta(name) = MetaOf(keys, name)
         /\ KeyMeta(name) \in 0..Len(keys)
         /\ KeyMeta(name) # 0 => /\ HasName(keys, KeyMeta(name), name)
                                 /\ keys[KeyMeta(name)].caps \in Caps
         /\ \A i \in DOMAIN keys :
              HasName(keys, i, name) => KeyMeta(name) # 0 /\ KeyMeta(name) <= i
<1>1. keys \in Seq(KeyRecord)
  BY DEF KeyedTypes, KeyedTypeOK, KeyRecord
<1>2. KeyMeta(name) = MetaOf(keys, name)
  BY DEF KeyMeta, MetaOf
<1>3. \A i \in DOMAIN keys : keys[i].caps \in Caps
  <2>1. \A i \in DOMAIN keys : keys[i] \in KeyRecord
    BY <1>1
  <2>2. QED
    BY <2>1 DEF KeyRecord
<1>4. QED
  BY <1>1, <1>2, <1>3, MetaIs DEF HasName

\* A time's local day and month, in a zone.
DayAt(t, zone) == (t + zone) \div 2
MonthAt(t, zone) == DayAt(t, zone) \div DaysPerMonth

LEMMA Calendar ==
  ASSUME NEW t \in Nat, NEW u \in Nat, NEW zone \in 0..1, t <= u
  PROVE  /\ DayAt(t, zone) \in Int /\ DayAt(t, zone) <= DayAt(u, zone)
         /\ MonthAt(t, zone) \in Int /\ MonthAt(t, zone) <= MonthAt(u, zone)
         /\ UtcDay(t) \in Nat /\ UtcDay(t) <= UtcDay(u)
<1>1. 2 \in Nat \ {0} /\ DaysPerMonth \in Nat \ {0}
  BY KeyedAssumption
<1>2. t + zone \in Int /\ u + zone \in Int /\ t + zone <= u + zone
  OBVIOUS
<1>3. DayAt(t, zone) \in Int /\ DayAt(u, zone) \in Int /\ DayAt(t, zone) <= DayAt(u, zone)
  BY <1>1, <1>2, Division DEF DayAt
<1>4. MonthAt(t, zone) \in Int /\ MonthAt(t, zone) <= MonthAt(u, zone)
  BY <1>1, <1>3, Division DEF MonthAt
<1>5. UtcDay(t) \in Nat /\ UtcDay(t) <= UtcDay(u)
  BY DEF UtcDay
<1>6. QED
  BY <1>3, <1>4, <1>5

\* The rows charged to a name in the window of its n-th cap, and what they sum
\* up to.
Charged(rows, t, zone, name, n) ==
  {j \in DOMAIN rows :
     /\ rows[j].name = name
     /\ IF n \in {1, 3} THEN DayAt(rows[j].at, zone) = DayAt(t, zone)
        ELSE MonthAt(rows[j].at, zone) = MonthAt(t, zone)}

Amount(row, n) == IF n <= 2 THEN row.cost ELSE row.tokens
Amounts(rows, n) == [j \in DOMAIN rows |-> Amount(rows[j], n)]

UsedOf(rows, t, zone, name, n) == Total(Amounts(rows, n), Charged(rows, t, zone, name, n))

\* The sum in CapsAgree is such a sum.
LEMMA SumIs ==
  ASSUME NEW n \in 1..4, NEW S, IsFiniteSet(S), S \subseteq DOMAIN usage
  PROVE  MapThenSumSet(LAMBDA j : IF n <= 2 THEN usage[j].cost ELSE usage[j].tokens, S)
           = Total(Amounts(usage, n), S)
<1> DEFINE w == Amounts(usage, n)
           Adds(g) ==
             g = [s \in SUBSET S |->
                    IF s = {} THEN 0
                    ELSE (IF n <= 2 THEN usage[CHOOSE x \in s : TRUE].cost
                          ELSE usage[CHOOSE x \in s : TRUE].tokens)
                         + g[s \ {CHOOSE x \in s : TRUE}]]
<1>1. \A s \in SUBSET S : s # {} =>
        w[Pick(s)] = IF n <= 2 THEN usage[Pick(s)].cost ELSE usage[Pick(s)].tokens
  BY PickIn DEF Amounts, Amount
<1>2. \A g : Adds(g) <=> IsSum(g, w, S)
  BY <1>1 DEF IsSum, SumsOn, SumStep, Pick
<1> HIDE DEF w
<1>3. PICK h : IsSum(h, w, S) /\ Total(w, S) = h[S]
  BY TotalIs
<1>4. \E g : /\ Adds(g)
             /\ MapThenSumSet(LAMBDA j : IF n <= 2 THEN usage[j].cost ELSE usage[j].tokens, S)
                  = g[S]
  BY <1>2, <1>3 DEF MapThenSumSet, MapThenFoldSet
<1>5. PICK g : /\ IsSum(g, w, S)
               /\ MapThenSumSet(LAMBDA j : IF n <= 2 THEN usage[j].cost ELSE usage[j].tokens, S)
                    = g[S]
  BY <1>2, <1>4
<1>6. \A s \in SUBSET S : g[s] = h[s]
  BY <1>3, <1>5, SumUnique
<1>7. QED
  BY <1>3, <1>5, <1>6 DEF w

\* A charged row lies in a window that has begun exactly when it lies in the
\* window that is running.
LEMMA WindowIs ==
  ASSUME KeyedTypes, NEW n \in 1..4, NEW name
  PROVE  Charged(usage, clock, settings.zone, name, n)
           = {j \in DOMAIN usage : usage[j].name = name /\ InWindow(usage[j], Metrics[n].window)}
<1> DEFINE zone == settings.zone
<1>1. zone \in 0..1 /\ clock \in Nat
  BY DEF KeyedTypes
<1>2. \A t : LocalDay(t) = DayAt(t, zone) /\ LocalMonth(t) = MonthAt(t, zone)
  BY DEF LocalDay, LocalMonth, DayAt, MonthAt
<1>3. Metrics[n].window = IF n \in {1, 3} THEN "day" ELSE "month"
  BY DEF Metrics
<1> HIDE DEF zone
<1>4. ASSUME NEW j \in DOMAIN usage
      PROVE  InWindow(usage[j], Metrics[n].window)
               <=> IF n \in {1, 3} THEN DayAt(usage[j].at, zone) = DayAt(clock, zone)
                   ELSE MonthAt(usage[j].at, zone) = MonthAt(clock, zone)
  <2>1. usage \in Seq(UsageRow)
    BY DEF KeyedTypes, KeyedTypeOK, UsageRow
  <2>2. usage[j] \in UsageRow
    BY <2>1
  <2>3. usage[j].at \in 0..clock
    BY <2>2 DEF UsageRow
  <2>4. usage[j].at \in Nat /\ usage[j].at <= clock
    BY <1>1, <2>3
  <2>5. /\ DayAt(usage[j].at, zone) \in Int /\ DayAt(usage[j].at, zone) <= DayAt(clock, zone)
        /\ MonthAt(usage[j].at, zone) \in Int /\ MonthAt(usage[j].at, zone) <= MonthAt(clock, zone)
        /\ DayAt(clock, zone) \in Int /\ MonthAt(clock, zone) \in Int
    BY <1>1, <2>4, Calendar
  <2>6. CASE n \in {1, 3}
    BY <1>2, <1>3, <2>5, <2>6 DEF InWindow
  <2>7. CASE n \notin {1, 3}
    BY <1>2, <1>3, <2>5, <2>7 DEF InWindow
  <2>8. QED
    BY <2>6, <2>7
<1>5. QED
  BY <1>4 DEF Charged, zone

LEMMA AmountsTyped ==
  ASSUME NEW rows, \A j \in DOMAIN rows : rows[j].cost \in Nat /\ rows[j].tokens \in Nat,
         NEW n \in 1..4
  PROVE  Amounts(rows, n) \in [DOMAIN rows -> Nat]
BY DEF Amounts, Amount

LEMMA UsageTyped ==
  ASSUME KeyedTypes
  PROVE  /\ usage \in Seq(UsageRow) /\ Len(usage) \in Nat /\ DOMAIN usage = 1..Len(usage)
         /\ IsFiniteSet(DOMAIN usage)
         /\ \A j \in DOMAIN usage :
              usage[j] \in UsageRow /\ usage[j].cost \in Nat /\ usage[j].tokens \in Nat
         /\ \A n \in 1..4 : Amounts(usage, n) \in [DOMAIN usage -> Nat]
<1>1. usage \in Seq(UsageRow)
  BY DEF KeyedTypes, KeyedTypeOK, UsageRow
<1>2. Len(usage) \in Nat /\ DOMAIN usage = 1..Len(usage)
  BY <1>1
<1>3. \A j \in DOMAIN usage : usage[j] \in UsageRow
  BY <1>1
<1>4. \A j \in DOMAIN usage : usage[j].cost \in Nat /\ usage[j].tokens \in Nat
  BY <1>3 DEF UsageRow
<1>5. IsFiniteSet(DOMAIN usage)
  BY <1>2, FS_Interval
<1>6. QED
  BY <1>1, <1>2, <1>3, <1>4, <1>5, AmountsTyped

\* The loop over key_usage adds up what was charged to the name in the window.
SpentLoop(name, m, h) ==
  h = [s \in SUBSET DOMAIN usage |->
         IF s = {} THEN 0
         ELSE IF usage[Max(s)].name = name /\ InWindow(usage[Max(s)], m.window)
              THEN h[s \ {Max(s)}]
                   + (IF m.metric = "cost" THEN usage[Max(s)].cost ELSE usage[Max(s)].tokens)
              ELSE h[s \ {Max(s)}]]

LEMMA SpentIs ==
  ASSUME KeyedTypes, NEW name, NEW n \in 1..4
  PROVE  /\ Spent(name, Metrics[n]) = UsedOf(usage, clock, settings.zone, name, n)
         /\ Spent(name, Metrics[n]) \in Nat
<1> DEFINE m == Metrics[n]
           D == DOMAIN usage
           w == Amounts(usage, n)
           mine == Charged(usage, clock, settings.zone, name, n)
           g == [s \in SUBSET D |-> Total(w, s \cap mine)]
           Adds(j) == usage[j].name = name /\ InWindow(usage[j], m.window)
           More(j) == IF m.metric = "cost" THEN usage[j].cost ELSE usage[j].tokens
           Grown(h, s) == IF s = {} THEN 0
                          ELSE IF Adds(Max(s)) THEN h[s \ {Max(s)}] + More(Max(s))
                          ELSE h[s \ {Max(s)}]
<1>1. /\ D = 1..Len(usage) /\ Len(usage) \in Nat /\ IsFiniteSet(D) /\ w \in [D -> Nat]
      /\ \A s \in SUBSET D : IsFiniteSet(s)
  BY UsageTyped, FS_Subset
<1>2. \A j \in D : j \in mine <=> Adds(j)
  BY WindowIs
<1>3. \A j \in D : w[j] = More(j) /\ More(j) \in Nat
  <2>1. m.metric = IF n <= 2 THEN "cost" ELSE "token"
    BY DEF Metrics
  <2>2. QED
    BY <2>1, UsageTyped DEF Amounts, Amount
<1>4. Spent(name, m) = (CHOOSE h : SpentLoop(name, m, h))[D]
  BY DEF Spent, FoldLeft, MapThenFoldSet, SpentLoop
<1>5. \A h : SpentLoop(name, m, h) <=> h = [s \in SUBSET D |-> Grown(h, s)]
  BY DEF SpentLoop
<1> HIDE DEF m, D, w, mine, Adds, More
<1>6. \A s \in SUBSET D : IsFiniteSet(s \cap mine) /\ s \cap mine \subseteq D
  BY <1>1, FS_Intersection
<1>7. \A s \in SUBSET D : Total(w, s \cap mine) \in Nat
  BY <1>1, <1>6, SumOfMore
<1>8. ASSUME NEW s \in SUBSET D PROVE g[s] = Grown(g, s)
  <2>1. CASE s = {}
    <3>1. Total(w, {}) = 0 /\ s \cap mine = {}
      BY <1>1, <2>1, SumOfMore, FS_EmptySet
    <3>2. QED
      BY <2>1, <3>1
  <2>2. CASE s # {}
    <3> DEFINE last == Max(s)
               rest == s \ {last}
    <3>1. last \in s /\ last \in D /\ rest \in SUBSET D
      BY <1>1, <2>2, MaxOfSome
    <3> HIDE DEF last
    <3>2. g[rest] = Total(w, rest \cap mine) /\ g[s] = Total(w, s \cap mine)
      BY <3>1
    <3>3. CASE Adds(last)
      <4>1. s \cap mine = (rest \cap mine) \cup {last} /\ last \in D \ (rest \cap mine)
        BY <1>2, <3>1, <3>3
      <4>2. Total(w, s \cap mine) = w[last] + Total(w, rest \cap mine)
        <5> DEFINE part == rest \cap mine
        <5>1. IsFiniteSet(part) /\ part \subseteq D
          BY <1>6, <3>1
        <5>2. s \cap mine = part \cup {last} /\ last \in D \ part
          BY <4>1
        <5> HIDE DEF part
        <5>3. w \in [D -> Nat]
          BY <1>1
        <5>4. \A x \in D \ part : Total(w, part \cup {x}) = w[x] + Total(w, part)
          BY <5>1, <5>3, SumOfMore
        <5>5. QED
          BY <5>2, <5>4 DEF part
      <4>3. w[last] = More(last) /\ More(last) \in Nat /\ Total(w, rest \cap mine) \in Nat
        BY <1>3, <1>7, <3>1
      <4>4. g[s] = g[rest] + More(last)
        BY <3>2, <4>2, <4>3
      <4> HIDE DEF g
      <4>5. QED
        BY <2>2, <3>3, <4>4 DEF last
    <3>4. CASE ~Adds(last)
      <4>1. s \cap mine = rest \cap mine
        BY <1>2, <3>1, <3>4
      <4>2. g[s] = g[rest]
        BY <3>2, <4>1
      <4> HIDE DEF g
      <4>3. QED
        BY <2>2, <3>4, <4>2 DEF last
    <3>5. QED
      BY <3>3, <3>4
  <2>3. QED
    BY <2>1, <2>2
<1>9. SpentLoop(name, m, g)
  <2>1. g = [s \in SUBSET D |-> Grown(g, s)]
    BY <1>8, Zenon
  <2>2. QED
    BY <1>5, <2>1
<1>10. PICK h : SpentLoop(name, m, h) /\ Spent(name, m) = h[D]
  BY <1>4, <1>9, Zenon
<1>11. \A s \in SUBSET D : h[s] = Grown(h, s)
  <2>1. h = [s \in SUBSET D |-> Grown(h, s)]
    BY <1>5, <1>10
  <2> HIDE DEF Grown
  <2>2. QED
    BY <2>1
<1>12. h[1..Len(usage)] = g[1..Len(usage)]
  <2> HIDE DEF g
  <2>1. h[{}] = g[{}]
    BY <1>8, <1>11
  <2>2. ASSUME NEW s \in SUBSET (1..Len(usage)), s # {},
               h[s \ {Max(s)}] = g[s \ {Max(s)}]
        PROVE  h[s] = g[s]
    BY <1>1, <1>8, <1>11, <2>2
  <2>3. QED
    BY <1>1, <2>1, <2>2, SameLoop
<1>13. g[D] = Total(w, mine)
  <2>1. D \cap mine = mine
    BY DEF mine, Charged, D
  <2>2. QED
    BY <2>1
<1>14. Spent(name, m) = Total(w, mine) /\ Total(w, mine) \in Nat
  BY <1>1, <1>7, <1>10, <1>12, <1>13
<1>15. QED
  BY <1>14 DEF UsedOf, m, w, mine

\* The n-th cap of the name's key, when it has one, is used up, or at four fifths.
CapOf(name, n) == keys[KeyMeta(name)].caps[n]
UsedNow(name, n) == UsedOf(usage, clock, settings.zone, name, n)
Reached(name, n) == CapOf(name, n) > 0 /\ UsedNow(name, n) >= CapOf(name, n)
Near(name, n) == CapOf(name, n) > 0 /\ 5 * UsedNow(name, n) >= 4 * CapOf(name, n)

LEMMA UsedTyped ==
  ASSUME KeyedTypes, NEW name, NEW n \in 1..4
  PROVE  UsedNow(name, n) \in Nat /\ (KeyMeta(name) # 0 => CapOf(name, n) \in Int)
<1>1. KeyMeta(name) # 0 => CapOf(name, n) \in Int
  BY KeyMetaIs DEF CapOf, Caps
<1>2. QED
  BY <1>1, SpentIs DEF UsedNow

LEMMA JudgeIs ==
  ASSUME KeyedTypes, NEW name, NEW n \in 1..4, NEW v, KeyMeta(name) # 0
  PROVE  Judge(v, name, n)
           = IF Reached(name, n)
             THEN [effect |-> "block", alerts |-> v.alerts \cup {<<name, "block", n>>}]
             ELSE IF Near(name, n) /\ v.effect = "allow"
             THEN [effect |-> "warn", alerts |-> v.alerts \cup {<<name, "warn", n>>}]
             ELSE v
<1> DEFINE cap == CapOf(name, n)
           sum == Spent(name, Metrics[n])
           alert(level) == v.alerts \cup {<<name, level, n>>}
<1>1. Judge(v, name, n)
        = IF cap > 0 /\ sum >= cap THEN [effect |-> "block", alerts |-> alert("block")]
          ELSE IF cap > 0 /\ sum * 100 >= cap * 80 /\ v.effect = "allow"
          THEN [effect |-> "warn", alerts |-> alert("warn")]
          ELSE v
  BY DEF Judge, CapOf
<1>2. cap \in Int /\ sum \in Nat /\ sum = UsedNow(name, n)
  BY UsedTyped, SpentIs DEF UsedNow
<1>3. Reached(name, n) <=> cap > 0 /\ sum >= cap
  BY <1>2 DEF Reached
<1>4. Near(name, n) <=> cap > 0 /\ 5 * sum >= 4 * cap
  BY <1>2 DEF Near
<1> HIDE DEF cap, sum, alert
<1>5. sum * 100 >= cap * 80 <=> 5 * sum >= 4 * cap
  BY <1>2
<1>6. QED
  BY <1>1, <1>3, <1>4, <1>5 DEF alert

\* The titles a check of the name may raise, and its verdicts.
TitlesOf(name) == {name} \X {"warn", "block"} \X (1..4)
Verdict(name) == [effect : {"allow", "warn", "block"}, alerts : SUBSET TitlesOf(name)]
Start == [effect |-> "allow", alerts |-> {}]

LEMMA TitlesFinite == ASSUME NEW name PROVE IsFiniteSet(TitlesOf(name))
<1> DEFINE pairs == {"warn", "block"} \X (1..4)
           f == [p \in pairs |-> <<name, p[1], p[2]>>]
<1>1. IsFiniteSet(pairs)
  <2>1. IsFiniteSet({"warn"} \cup {"block"})
    BY FS_Singleton, FS_AddElement
  <2>2. {"warn", "block"} = {"warn"} \cup {"block"}
    OBVIOUS
  <2>3. IsFiniteSet(1..4)
    <3>1. \A n \in Nat : IsFiniteSet(1..n)
      BY FS_Interval
    <3>2. QED
      BY <3>1
  <2>4. QED
    BY <2>1, <2>2, <2>3, FS_Product
<1>2. IsFiniteSet({f[p] : p \in pairs})
  <2> HIDE DEF pairs, f
  <2>1. QED
    BY <1>1, FiniteImage
<1>3. TitlesOf(name) \subseteq {f[p] : p \in pairs}
  <2>1. ASSUME NEW x \in TitlesOf(name) PROVE x \in {f[p] : p \in pairs}
    <3>1. x = <<name, x[2], x[3]>> /\ <<x[2], x[3]>> \in pairs
      BY DEF TitlesOf
    <3>2. f[<<x[2], x[3]>>] = <<name, x[2], x[3]>>
      BY <3>1
    <3>3. QED
      BY <3>1, <3>2
  <2>2. QED
    BY <2>1
<1>4. QED
  BY <1>2, <1>3, FS_Subset

\* What is known of the verdict after the first n caps.
VerdictOK(name, v, n) ==
  /\ v \in Verdict(name)
  /\ v.effect = IF \E i \in 1..n : Reached(name, i) THEN "block"
                ELSE IF \E i \in 1..n : Near(name, i) THEN "warn"
                ELSE "allow"
  /\ v.effect = "block" => \E x \in v.alerts : x[2] = "block"

Weighed(name, v, n) == IF v.effect = "block" THEN v ELSE Judge(v, name, n)

LEMMA WeighedOK ==
  ASSUME KeyedTypes, NEW name, KeyMeta(name) # 0, NEW n \in 0..3, NEW v, VerdictOK(name, v, n)
  PROVE  VerdictOK(name, Weighed(name, v, n + 1), n + 1)
<1> DEFINE k == n + 1
           w == Weighed(name, v, k)
<1>1. k \in 1..4 /\ 1..k = (1..n) \cup {k}
  OBVIOUS
<1>2. /\ v \in Verdict(name)
      /\ <<name, "block", k>> \in TitlesOf(name) /\ <<name, "warn", k>> \in TitlesOf(name)
  BY <1>1 DEF VerdictOK, TitlesOf
<1>3. w = IF v.effect = "block" THEN v
          ELSE IF Reached(name, k)
          THEN [effect |-> "block", alerts |-> v.alerts \cup {<<name, "block", k>>}]
          ELSE IF Near(name, k) /\ v.effect = "allow"
          THEN [effect |-> "warn", alerts |-> v.alerts \cup {<<name, "warn", k>>}]
          ELSE v
  BY <1>1, JudgeIs DEF Weighed
<1> HIDE DEF k, w
<1>4. w \in Verdict(name)
  BY <1>2, <1>3 DEF Verdict
<1>5. ASSUME v.effect = "block" PROVE VerdictOK(name, w, k)
  BY <1>1, <1>3, <1>4, <1>5 DEF VerdictOK
<1>6. ASSUME v.effect # "block", Reached(name, k) PROVE VerdictOK(name, w, k)
  <2>1. w.effect = "block" /\ <<name, "block", k>> \in w.alerts
    BY <1>3, <1>6
  <2>2. <<name, "block", k>>[2] = "block"
    OBVIOUS
  <2>3. QED
    BY <1>1, <1>4, <1>6, <2>1, <2>2 DEF VerdictOK
<1>7. ASSUME v.effect # "block", ~Reached(name, k) PROVE VerdictOK(name, w, k)
  <2>1. w.effect = IF Near(name, k) /\ v.effect = "allow" THEN "warn" ELSE v.effect
    BY <1>3, <1>7
  <2>2. \A i \in 1..k : ~Reached(name, i)
    BY <1>1, <1>7 DEF VerdictOK
  <2>3. v.effect = IF \E i \in 1..n : Near(name, i) THEN "warn" ELSE "allow"
    BY <1>7 DEF VerdictOK
  <2>4. QED
    BY <1>1, <1>4, <2>1, <2>2, <2>3 DEF VerdictOK
<1>8. QED
  BY <1>5, <1>6, <1>7 DEF k, w

CheckLoop(name, caps, h) ==
  h = [s \in SUBSET DOMAIN caps |->
         IF s = {} THEN Start
         ELSE IF h[s \ {Max(s)}].effect = "block" THEN h[s \ {Max(s)}]
         ELSE Judge(h[s \ {Max(s)}], name, caps[Max(s)])]

\* What check answers, and that a block comes with an alert of its own.
LEMMA CheckIs ==
  ASSUME KeyedTypes, NEW name
  PROVE  /\ Check(name) \in Verdict(name)
         /\ Check(name).effect = IF KeyMeta(name) = 0 THEN "allow"
                                 ELSE IF \E n \in 1..4 : Reached(name, n) THEN "block"
                                 ELSE IF \E n \in 1..4 : Near(name, n) THEN "warn"
                                 ELSE "allow"
         /\ Check(name).effect = "block" => \E x \in Check(name).alerts : x[2] = "block"
<1> DEFINE caps == IF KeyMeta(name) = 0 THEN << >> ELSE <<1, 2, 3, 4>>
<1>1. Check(name) = (CHOOSE h : CheckLoop(name, caps, h))[DOMAIN caps]
  BY DEF Check, FoldLeft, MapThenFoldSet, CheckLoop, Start
<1>2. VerdictOK(name, Start, 0)
  BY DEF VerdictOK, Verdict, Start
<1>3. CASE KeyMeta(name) = 0
  <2>1. DOMAIN caps = {}
    BY <1>3
  <2> HIDE DEF caps
  <2> DEFINE g == [s \in SUBSET {} |-> Start]
  <2>2. CheckLoop(name, caps, g)
    BY <2>1 DEF CheckLoop
  <2>3. PICK h : CheckLoop(name, caps, h) /\ Check(name) = h[{}]
    BY <1>1, <2>1, <2>2, Zenon
  <2>4. h[{}] = Start
    BY <2>1, <2>3 DEF CheckLoop
  <2>5. QED
    BY <1>2, <1>3, <2>3, <2>4 DEF VerdictOK, Start
<1>4. CASE KeyMeta(name) # 0
  <2> DEFINE Made(h, s) == IF s = {} THEN Start ELSE Weighed(name, h[s \ {Max(s)}], Max(s))
             V == Verdict(name)
             step == [p \in V \X (1..4) |-> Weighed(name, p[1], p[2])]
  <2>1. DOMAIN caps = 1..4 /\ \A i \in 1..4 : caps[i] = i
    BY <1>4
  <2> HIDE DEF caps
  <2>2. \A s \in SUBSET (1..4) : s # {} =>
          Max(s) \in s /\ s \ {Max(s)} \in SUBSET (1..4)
    BY MaxOfSome
  <2>3. \A h : CheckLoop(name, caps, h) <=> h = [s \in SUBSET (1..4) |-> Made(h, s)]
    BY <2>1, <2>2 DEF CheckLoop, Weighed
  <2>4. ASSUME NEW v \in V, NEW i \in 1..4 PROVE Weighed(name, v, i) \in V
    <3>1. <<name, "block", i>> \in TitlesOf(name) /\ <<name, "warn", i>> \in TitlesOf(name)
      BY DEF TitlesOf
    <3>2. Judge(v, name, i)
            = IF Reached(name, i)
              THEN [effect |-> "block", alerts |-> v.alerts \cup {<<name, "block", i>>}]
              ELSE IF Near(name, i) /\ v.effect = "allow"
              THEN [effect |-> "warn", alerts |-> v.alerts \cup {<<name, "warn", i>>}]
              ELSE v
      BY <1>4, JudgeIs
    <3>3. v.alerts \in SUBSET TitlesOf(name)
      BY DEF Verdict
    <3>4. Judge(v, name, i) \in V
      BY <3>1, <3>2, <3>3 DEF Verdict
    <3>5. QED
      BY <3>4 DEF Weighed
  <2>5. step \in [V \X (1..4) -> V] /\ Start \in V
    BY <1>2, <2>4 DEF VerdictOK
  <2>6. PICK g \in [SUBSET (1..4) -> V] : LoopOn(step, Start, 4, g)
    <3> HIDE DEF step, V
    <3>1. QED
      BY <2>5, LoopExists
  <2>7. ASSUME NEW s \in SUBSET (1..4) PROVE g[s] = Made(g, s)
    <3>1. g[s] = IF s = {} THEN Start ELSE step[<<g[s \ {Max(s)}], Max(s)>>]
      BY <2>6 DEF LoopOn
    <3>2. s # {} => g[s \ {Max(s)}] \in V /\ Max(s) \in 1..4
      BY <2>2, <2>6
    <3>3. QED
      BY <3>1, <3>2
  <2>8. CheckLoop(name, caps, g)
    <3>1. g = [s \in SUBSET (1..4) |-> Made(g, s)]
      BY <2>6, <2>7
    <3>2. QED
      BY <2>3, <3>1
  <2>9. PICK h : CheckLoop(name, caps, h) /\ Check(name) = h[1..4]
    BY <1>1, <2>1, <2>8, Zenon
  <2>10. \A s \in SUBSET (1..4) : h[s] = Made(h, s)
    <3>1. h = [s \in SUBSET (1..4) |-> Made(h, s)]
      BY <2>3, <2>9
    <3> HIDE DEF Made
    <3>2. QED
      BY <3>1
  <2>11. h[{}] = Start
    BY <2>10
  <2>12. ASSUME NEW n \in 0..3 PROVE h[1..(n + 1)] = Weighed(name, h[1..n], n + 1)
    <3>1. Max(1..(n + 1)) = n + 1
      <4>1. /\ 1..(n + 1) \in SUBSET Int /\ n + 1 \in 1..(n + 1)
            /\ \A m \in 1..(n + 1) : m <= n + 1
        OBVIOUS
      <4> HIDE DEF Made, V, step
      <4>2. QED
        BY <4>1, MaxIs
    <3>2. 1..(n + 1) \in SUBSET (1..4) /\ 1..(n + 1) # {} /\ (1..(n + 1)) \ {n + 1} = 1..n
      OBVIOUS
    <3>3. QED
      BY <2>10, <3>1, <3>2
  <2>13. VerdictOK(name, h[1..0], 0)
    <3>1. 1..0 = {}
      OBVIOUS
    <3>2. QED
      BY <1>2, <2>11, <3>1
  <2>14. \A n \in 0..3 : VerdictOK(name, h[1..n], n) => VerdictOK(name, h[1..(n + 1)], n + 1)
    BY <1>4, <2>12, WeighedOK
  <2>15. VerdictOK(name, h[1..4], 4)
    <3>1. VerdictOK(name, h[1..1], 1)
      BY <2>13, <2>14
    <3>2. VerdictOK(name, h[1..2], 2)
      BY <2>14, <3>1
    <3>3. VerdictOK(name, h[1..3], 3)
      BY <2>14, <3>2
    <3>4. QED
      BY <2>14, <3>3
  <2>16. QED
    BY <1>4, <2>9, <2>15 DEF VerdictOK
<1>5. QED
  BY <1>3, <1>4

\* The four caps judged in any order, over the rows of the running day and month.
LEMMA CapsHold == KeyedTypes => CapsAgree
<1> SUFFICES ASSUME KeyedTypes, NEW name \in Names
             PROVE  LET i == KeyMeta(name)
                        Used(n) ==
                          LET mine == {j \in DOMAIN usage :
                                         /\ usage[j].name = name
                                         /\ IF n \in {1, 3} THEN LocalDay(usage[j].at) = LocalDay(clock)
                                            ELSE LocalMonth(usage[j].at) = LocalMonth(clock)}
                          IN MapThenSumSet(LAMBDA j : IF n <= 2 THEN usage[j].cost ELSE usage[j].tokens, mine)
                        Capped == {n \in 1..4 : keys[i].caps[n] > 0}
                    IN Check(name).effect =
                         IF i = 0 THEN "allow"
                         ELSE IF \E n \in Capped : Used(n) >= keys[i].caps[n] THEN "block"
                         ELSE IF \E n \in Capped : 5 * Used(n) >= 4 * keys[i].caps[n] THEN "warn"
                         ELSE "allow"
  BY DEF CapsAgree
<1> DEFINE mine(n) == {j \in DOMAIN usage :
                         /\ usage[j].name = name
                         /\ IF n \in {1, 3} THEN LocalDay(usage[j].at) = LocalDay(clock)
                            ELSE LocalMonth(usage[j].at) = LocalMonth(clock)}
           Used(n) == MapThenSumSet(LAMBDA j : IF n <= 2 THEN usage[j].cost
                                               ELSE usage[j].tokens, mine(n))
<1>1. ASSUME NEW n \in 1..4 PROVE Used(n) = UsedNow(name, n)
  <2>1. mine(n) = Charged(usage, clock, settings.zone, name, n)
    BY DEF Charged, LocalDay, LocalMonth, DayAt, MonthAt
  <2>2. IsFiniteSet(mine(n)) /\ mine(n) \subseteq DOMAIN usage
    BY UsageTyped, FS_Subset
  <2> DEFINE S == mine(n)
  <2> HIDE DEF mine
  <2>3. MapThenSumSet(LAMBDA j : IF n <= 2 THEN usage[j].cost ELSE usage[j].tokens, S)
          = Total(Amounts(usage, n), S)
    <3> HIDE DEF S
    <3>1. QED
      BY <2>2, SumIs DEF S
  <2>4. QED
    BY <2>1, <2>3 DEF UsedNow, UsedOf
<1>2. \A n \in 1..4 : KeyMeta(name) # 0 =>
        /\ Reached(name, n) <=> CapOf(name, n) > 0 /\ Used(n) >= CapOf(name, n)
        /\ Near(name, n) <=> CapOf(name, n) > 0 /\ 5 * Used(n) >= 4 * CapOf(name, n)
  <2> HIDE DEF Used
  <2>1. QED
    BY <1>1 DEF Reached, Near
<1> HIDE DEF Used
<1>3. Check(name).effect
        = IF KeyMeta(name) = 0 THEN "allow"
          ELSE IF \E n \in 1..4 : CapOf(name, n) > 0 /\ Used(n) >= CapOf(name, n) THEN "block"
          ELSE IF \E n \in 1..4 : CapOf(name, n) > 0 /\ 5 * Used(n) >= 4 * CapOf(name, n) THEN "warn"
          ELSE "allow"
  <2>1. CASE KeyMeta(name) = 0
    BY <2>1, CheckIs
  <2>2. CASE KeyMeta(name) # 0
    BY <1>2, <2>2, CheckIs
  <2>3. QED
    BY <2>1, <2>2
<1>4. QED
  BY <1>3 DEF Used, mine, CapOf

-----------------------------------------------------------------------------
(* Alerts.                                                                 *)

NoteOf(x) == [title |-> x, day |-> UtcDay(clock)]

Distinct(notes) == \A j, k \in DOMAIN notes : notes[j] = notes[k] => j = k

\* The titles of a finite set, one after another.
LEMMA TitlesInTurn ==
  ASSUME NEW T, IsFiniteSet(T)
  PROVE  /\ Cardinality(T) \in Nat
         /\ SetToSeq(T) \in [1..Cardinality(T) -> T]
         /\ Distinct(SetToSeq(T))
         /\ \A x \in T : \E n \in 1..Cardinality(T) : SetToSeq(T)[n] = x
<1> DEFINE N == Cardinality(T)
<1>1. N \in Nat /\ ExistsBijection(1..N, T)
  BY FS_CardinalityType
<1>2. \E f \in [1..N -> T] : IsInjective(f)
  BY <1>1 DEF ExistsBijection, Bijection, Injection
<1>3. SetToSeq(T) \in [1..N -> T] /\ IsInjective(SetToSeq(T))
  BY <1>2 DEF SetToSeq
<1>4. SetToSeq(T) \in Injection(1..N, T)
  BY <1>3 DEF Injection
<1>5. Cardinality(1..N) = N
  BY <1>1, FS_Interval
<1>6. SetToSeq(T) \in Surjection(1..N, T)
  BY <1>4, <1>5, FS_Injection
<1>7. QED
  BY <1>1, <1>3, <1>6 DEF Surjection, IsInjective, Distinct

\* notify adds the titles that were not raised today, each once.
LEMMA NotifyAdds ==
  ASSUME KeyedTypes, Distinct(bell), NEW titles \in SUBSET Titles, IsFiniteSet(titles),
         Notify(titles)
  PROVE  /\ bell' \in Seq(Alert)
         /\ \A j \in DOMAIN bell' : bell'[j].day <= UtcDay(clock)
         /\ Distinct(bell')
         /\ Range(bell) \subseteq Range(bell')
         /\ settings.alerts => \A x \in titles : NoteOf(x) \in Range(bell')
<1> DEFINE new == IF settings.alerts THEN {x \in titles : ~AlreadySent(x)} ELSE {}
           N == Cardinality(new)
           turn == SetToSeq(new)
           notes == [n \in 1..N |-> NoteOf(turn[n])]
           L == Len(bell)
<1>1. bell' = bell \o notes
  BY DEF Notify, NoteOf
<1>2. IsFiniteSet(new) /\ new \subseteq titles
  BY FS_Subset, FS_EmptySet
<1>3. settings.alerts => \A x \in titles : x \in new \/ AlreadySent(x)
  OBVIOUS
<1>4. \A x \in new : ~AlreadySent(x)
  OBVIOUS
<1> HIDE DEF new
<1>5. /\ N \in Nat /\ turn \in [1..N -> new] /\ Distinct(turn)
      /\ \A x \in new : \E n \in 1..N : turn[n] = x
  BY <1>2, TitlesInTurn
<1> HIDE DEF N, turn
<1>6. clock \in Nat /\ UtcDay(clock) \in Nat
  BY DEF KeyedTypes, UtcDay
<1>0. \A x : NoteOf(x).title = x /\ NoteOf(x).day = UtcDay(clock)
  BY DEF NoteOf
<1>7. \A x \in titles : NoteOf(x) \in Alert
  BY <1>6 DEF NoteOf, Alert
<1>8. \A n \in 1..N : notes[n] = NoteOf(turn[n]) /\ notes[n] \in Alert /\ turn[n] \in new
  BY <1>2, <1>5, <1>7
<1>9. notes \in Seq(Alert) /\ Len(notes) = N /\ DOMAIN notes = 1..N
  <2>1. notes \in [1..N -> Alert]
    BY <1>8
  <2>2. notes \in Seq(Alert) /\ DOMAIN notes = 1..N
    BY <1>5, <2>1, SeqDef
  <2>3. QED
    BY <1>5, <2>2
<1> HIDE DEF notes
<1>10. bell \in Seq(Alert) /\ L \in Nat /\ DOMAIN bell = 1..L
  BY DEF KeyedTypes
<1> HIDE DEF L
<1>11. /\ bell' \in Seq(Alert) /\ DOMAIN bell' = 1..(L + N)
       /\ \A j \in 1..L : bell'[j] = bell[j]
       /\ \A n \in 1..N : bell'[L + n] = notes[n]
  <2>1. /\ bell \o notes \in Seq(Alert) /\ Len(bell \o notes) = L + N
        /\ \A j \in 1..(L + N) : (bell \o notes)[j] = IF j <= L THEN bell[j] ELSE notes[j - L]
    BY <1>9, <1>10, ConcatProperties DEF L
  <2>2. \A j \in 1..L : j \in 1..(L + N)
    BY <1>5, <1>10
  <2>3. \A n \in 1..N : L + n \in 1..(L + N) /\ ~(L + n <= L) /\ (L + n) - L = n
    BY <1>5, <1>10
  <2>4. QED
    BY <1>1, <2>1, <2>2, <2>3
<1>12. \A j \in 1..(L + N) : j \in 1..L \/ \E n \in 1..N : j = L + n
  <2>1. ASSUME NEW j \in 1..(L + N), j \notin 1..L PROVE j - L \in 1..N /\ j = L + (j - L)
    BY <1>5, <1>10, <2>1
  <2>2. QED
    BY <2>1
<1>13. \A j \in DOMAIN bell' : bell'[j].day <= UtcDay(clock)
  <2>1. \A j \in 1..L : bell[j].day <= UtcDay(clock)
    BY <1>10 DEF KeyedTypes
  <2>2. \A n \in 1..N : notes[n].day = UtcDay(clock)
    BY <1>0, <1>8
  <2>3. QED
    BY <1>6, <1>11, <1>12, <2>1, <2>2
<1>14. ASSUME NEW j \in 1..L, NEW n \in 1..N PROVE bell[j] # notes[n]
  <2>1. ASSUME bell[j] = notes[n] PROVE FALSE
    <3>1. bell[j].title = turn[n] /\ bell[j].day = UtcDay(clock)
      BY <1>0, <1>8, <2>1
    <3>2. AlreadySent(turn[n])
      BY <1>6, <1>10, <3>1 DEF AlreadySent
    <3>3. QED
      BY <1>4, <1>8, <3>2
  <2>2. QED
    BY <2>1
<1>15. ASSUME NEW m \in 1..N, NEW n \in 1..N, notes[m] = notes[n] PROVE m = n
  <2>1. turn[m] = turn[n]
    <3>1. NoteOf(turn[m]).title = NoteOf(turn[n]).title
      BY <1>8, <1>15
    <3>2. QED
      BY <1>0, <3>1
  <2>2. QED
    BY <1>5, <2>1 DEF Distinct
<1>16. Distinct(bell')
  BY <1>10, <1>11, <1>12, <1>14, <1>15 DEF Distinct
<1>17. Range(bell) \subseteq Range(bell')
  BY <1>5, <1>10, <1>11 DEF Range
<1>18. ASSUME settings.alerts, NEW x \in titles PROVE NoteOf(x) \in Range(bell')
  <2>1. CASE x \in new
    <3>1. PICK n \in 1..N : turn[n] = x
      BY <1>5, <2>1
    <3>2. bell'[L + n] = NoteOf(x)
      BY <1>8, <1>11, <3>1
    <3>3. L + n \in DOMAIN bell'
      BY <1>5, <1>10, <1>11
    <3>4. QED
      BY <3>2, <3>3 DEF Range
  <2>2. CASE AlreadySent(x)
    <3>1. PICK j \in DOMAIN bell : bell[j].title = x /\ bell[j].day >= UtcDay(clock)
      BY <2>2 DEF AlreadySent
    <3>2. bell[j] \in Alert /\ bell[j].day <= UtcDay(clock)
      BY <1>10 DEF KeyedTypes
    <3>3. bell[j].day = UtcDay(clock)
      BY <1>6, <3>1, <3>2 DEF Alert
    <3>4. bell[j] = NoteOf(x)
      BY <3>1, <3>2, <3>3 DEF NoteOf, Alert
    <3>5. NoteOf(x) \in Range(bell)
      BY <3>4 DEF Range
    <3>6. QED
      BY <1>17, <3>5
  <2>3. QED
    BY <1>3, <1>18, <2>1, <2>2
<1>19. QED
  BY <1>11, <1>13, <1>16, <1>17, <1>18

-----------------------------------------------------------------------------
(* The invariant.                                                          *)

LEMMA KeyedFacts ==
  ASSUME KeyedInv
  PROVE  /\ keys \in Seq(KeyRecord) /\ Len(keys) \in Nat /\ DOMAIN keys = 1..Len(keys)
         /\ \A i \in DOMAIN keys : keys[i] \in KeyRecord
         /\ sessions \subseteq [subject : People, expires : Nat]
         /\ usage \in Seq(UsageRow) /\ answers \in Seq(AnswerRecord) /\ Matched /\ clock \in Nat
         /\ settings \in [alerts : BOOLEAN, zone : 0..1]
         /\ bell \in Seq(Alert) /\ \A j \in DOMAIN bell : bell[j].day <= UtcDay(clock)
         /\ loop \in Requests \cup {None} /\ None \notin Requests
         /\ req \in [Requests -> KeyedRequest]
         /\ \A r \in Requests : /\ req[r] \in KeyedRequest /\ Known(req[r], keys)
                                /\ req[r].stage \in Admission <=> loop = r
<1>1. keys \in Seq(KeyRecord) /\ usage \in Seq(UsageRow) /\ answers \in Seq(AnswerRecord)
  BY DEF KeyedInv, KeyedTypes, KeyedTypeOK
<1>2. Len(keys) \in Nat /\ DOMAIN keys = 1..Len(keys) /\ \A i \in DOMAIN keys : keys[i] \in KeyRecord
  BY <1>1
<1>3. \A r \in Requests : /\ req[r] \in KeyedRequest /\ Known(req[r], keys)
                          /\ req[r].stage \in Admission <=> loop = r
  BY DEF KeyedInv, KeyedTypes, KeyedTypeOK, Admission
<1>4. QED
  BY <1>1, <1>2, <1>3, KeyedAssumption DEF KeyedInv, KeyedTypes, KeyedTypeOK

\* What a step has to show of the ledger, and what does not touch it shows.
LedgerKept == usage' \in Seq(UsageRow) /\ answers' \in Seq(AnswerRecord) /\ Matched'

LEMMA LedgerStays ==
  ASSUME KeyedInv, UNCHANGED <<usage, answers>>
  PROVE  LedgerKept
<1>1. Matched'
  BY KeyedFacts DEF Matched, Metered, RowsAnswered
<1>2. QED
  BY <1>1, KeyedFacts DEF LedgerKept

\* A step that leaves the clock alone keeps the invariant when it keeps each part.
LEMMA KeyedAfter ==
  ASSUME KeyedInv, clock' = clock, LedgerKept,
         keys' \in Seq(KeyRecord),
         sessions' \subseteq [subject : People, expires : Nat],
         settings' \in [alerts : BOOLEAN, zone : 0..1],
         bell' \in Seq(Alert), \A j \in DOMAIN bell' : bell'[j].day <= UtcDay(clock),
         loop' \in Requests \cup {None},
         req' \in [Requests -> KeyedRequest],
         \A r \in Requests : /\ req'[r].stage \in Admission <=> loop' = r
                             /\ Known(req'[r], keys')
  PROVE  KeyedInv'
<1>1. \A r \in Requests : req'[r] \in KeyedRequest
  OBVIOUS
<1>2. \A r \in Requests : req'[r].stage \in Stages
  BY <1>1 DEF KeyedRequest
<1>3. UsageRow' = UsageRow
  BY DEF UsageRow
<1>4. AnswerRecord' = AnswerRecord
  BY <1>3 DEF AnswerRecord
<1>5. KeyedTypeOK'
  BY <1>2, <1>3, <1>4 DEF KeyedTypeOK, Admission, LedgerKept
<1>6. clock' \in Nat /\ \A j \in DOMAIN bell' : bell'[j].day <= UtcDay(clock')
  BY DEF KeyedInv, KeyedTypes
<1>7. KeyedTypes'
  BY <1>5, <1>6 DEF KeyedTypes
<1>8. QED
  BY <1>7 DEF KeyedInv, LedgerKept

\* A step of one request.
LEMMA Handled ==
  ASSUME KeyedInv, NEW r \in Requests, NEW q \in KeyedRequest, Known(q, keys),
         req' = [req EXCEPT ![r] = q],
         loop' \in Requests \cup {None},
         q.stage \in Admission <=> loop' = r,
         \A s \in Requests \ {r} : loop' = s <=> loop = s,
         LedgerKept,
         bell' \in Seq(Alert), \A j \in DOMAIN bell' : bell'[j].day <= UtcDay(clock),
         UNCHANGED <<keys, sessions, settings, clock>>
  PROVE  KeyedInv'
<1>1. /\ req' \in [Requests -> KeyedRequest]
      /\ req'[r] = q /\ \A s \in Requests \ {r} : req'[s] = req[s]
  BY KeyedFacts
<1>2. ASSUME NEW s \in Requests
      PROVE  /\ req'[s].stage \in Admission <=> loop' = s
             /\ Known(req'[s], keys')
  <2>1. CASE s = r
    BY <1>1, <2>1
  <2>2. CASE s # r
    BY <1>1, <2>2, KeyedFacts
  <2>3. QED
    BY <2>1, <2>2
<1>3. QED
  BY <1>1, <1>2, KeyedFacts, KeyedAfter

\* After admission the table of keys does not matter any more.
LEMMA Admitted ==
  ASSUME NEW q, NEW t, NEW u, Known(q, t), q.stage \notin Admission
  PROVE  Known(q, u)
BY DEF Known, KeyKnown, ChargeKnown, Admission

\* A request that is given up is as if it had not been made.
LEMMA IdleKnown == Idle \in KeyedRequest /\ \A t : Known(Idle, t)
<1>1. Idle \in KeyedRequest
  BY DEF Idle, KeyedRequest, Stages
<1>2. QED
  BY <1>1 DEF Idle, Known, KeyKnown, ChargeKnown, ScopeKept

LEMMA AuthenticateKeeps ==
  ASSUME KeyedInv, NEW r \in Requests, NEW name \in Names, NEW i \in Nat,
         NEW b \in Targets \cup {None},
         i # 0 => HasName(keys, i, name),
         Authenticate(r, name, i, b)
  PROVE  KeyedInv'
<1> DEFINE keyed == Bearers(name) # {}
           sole == b # None /\ Bearers(name) \subseteq {i}
           scope == IF i = 0 \/ b = None THEN {} ELSE keys[i].backends
           q == [Idle EXCEPT !.stage = "authenticated", !.key = i, !.subject = name,
                             !.backend = b, !.keyed = keyed, !.sole = sole, !.scope = scope]
<1>1. /\ req' = [req EXCEPT ![r] = q] /\ loop = None /\ loop' = r
      /\ UNCHANGED <<keys, sessions, usage, answers, bell, settings, clock>>
  BY DEF Authenticate
<1>2. scope \in SUBSET Backends /\ sole \in BOOLEAN /\ keyed \in BOOLEAN
  <2>1. i # 0 => keys[i].backends \in SUBSET Backends
    BY KeyedFacts DEF HasName, KeyRecord
  <2>2. QED
    BY <2>1
<1>3. b \in Backends \cup {None}
  BY KeyedAssumption
<1>4. sole => b # None /\ \A j \in DOMAIN keys : HasName(keys, j, name) => j = i
  BY DEF HasName, Bearers
<1>5. i # 0 /\ b # None => scope = keys[i].backends
  OBVIOUS
<1>6. Idle.metered = FALSE /\ Idle.revoked = FALSE
  BY DEF Idle
<1>7. keyed <=> \E j \in DOMAIN keys : HasName(keys, j, name)
  BY DEF HasName, Bearers
<1> HIDE DEF sole, scope, keyed
<1>8. /\ q \in KeyedRequest /\ q.stage = "authenticated" /\ q.key = i /\ q.subject = name
      /\ q.backend = b /\ q.keyed = keyed /\ q.sole = sole /\ q.scope = scope
      /\ q.metered = Idle.metered /\ q.revoked = Idle.revoked
  BY <1>2, <1>3, IdleKnown DEF KeyedRequest, Stages
<1> HIDE DEF q
<1>9. Known(q, keys)
  BY <1>4, <1>5, <1>6, <1>7, <1>8 DEF Known, KeyKnown, ChargeKnown, ScopeKept
<1>10. q.stage \in Admission
  BY <1>8 DEF Admission
<1>11. QED
  BY <1>1, <1>8, <1>9, <1>10, KeyedFacts, LedgerStays, Handled

LEMMA LookUpKeeps ==
  ASSUME KeyedInv, NEW r \in Requests, LookUp(r)
  PROVE  KeyedInv'
<1> DEFINE p == req[r]
           found == KeyMeta(p.subject) # 0
           q == [p EXCEPT !.stage = IF found THEN "metered" ELSE "budgeted", !.metered = found]
<1>1. /\ req' = [req EXCEPT ![r] = q] /\ loop = r /\ p.stage = "authenticated"
      /\ UNCHANGED <<keys, sessions, usage, answers, bell, settings, clock, loop>>
  BY DEF LookUp, Step
<1>2. p \in KeyedRequest /\ Known(p, keys)
  BY KeyedFacts
<1>3. found <=> p.keyed
  <2>1. p.keyed <=> \E j \in DOMAIN keys : HasName(keys, j, p.subject)
    BY <1>1, <1>2 DEF Known, ChargeKnown
  <2>2. KeyedTypes
    BY DEF KeyedInv
  <2>3. QED
    BY <2>1, <2>2, KeyMetaIs DEF HasName
<1> HIDE DEF p
<1>4. found \in BOOLEAN
  OBVIOUS
<1> HIDE DEF found
<1>5. /\ q \in KeyedRequest
      /\ q.stage = (IF found THEN "metered" ELSE "budgeted") /\ q.metered = found
      /\ q.key = p.key /\ q.subject = p.subject /\ q.backend = p.backend
      /\ q.keyed = p.keyed /\ q.sole = p.sole /\ q.revoked = p.revoked /\ q.scope = p.scope
  BY <1>2, <1>4 DEF KeyedRequest, Stages
<1> HIDE DEF q
<1>6. Known(q, keys)
  BY <1>1, <1>2, <1>3, <1>5 DEF Known, KeyKnown, ChargeKnown, ScopeKept, Admission
<1>7. q.stage \in Admission
  BY <1>5 DEF Admission
<1>8. QED
  BY <1>1, <1>5, <1>6, <1>7, KeyedFacts, LedgerStays, Handled

\* What CheckBudget raises.
LEMMA AlertsRaised ==
  ASSUME KeyedTypes, Distinct(bell), NEW name \in Names, Notify(Check(name).alerts)
  PROVE  /\ bell' \in Seq(Alert)
         /\ \A j \in DOMAIN bell' : bell'[j].day <= UtcDay(clock)
         /\ Distinct(bell')
         /\ Range(bell) \subseteq Range(bell')
         /\ settings.alerts => \A x \in Check(name).alerts : NoteOf(x) \in Range(bell')
<1> DEFINE titles == Check(name).alerts
<1>1. titles \in SUBSET TitlesOf(name)
  BY CheckIs DEF Verdict
<1>2. TitlesOf(name) \subseteq Titles
  BY DEF TitlesOf, Titles
<1>3. titles \in SUBSET Titles /\ IsFiniteSet(titles)
  BY <1>1, <1>2, TitlesFinite, FS_Subset
<1> HIDE DEF titles
<1>4. QED
  BY <1>3, NotifyAdds DEF titles

\* The subject of a request whose caps are checked.
LEMMA CheckedName ==
  ASSUME KeyedInv, NEW r \in Requests, CheckBudget(r)
  PROVE  req[r].subject \in Names /\ loop = r /\ req[r].stage = "metered"
<1>1. loop = r /\ req[r].stage = "metered"
  BY DEF CheckBudget, Step
<1>2. Known(req[r], keys)
  BY KeyedFacts
<1>3. QED
  BY <1>1, <1>2 DEF Known, ChargeKnown

LEMMA CheckBudgetKeeps ==
  ASSUME KeyedInv, Distinct(bell), NEW r \in Requests, CheckBudget(r)
  PROVE  KeyedInv'
<1> DEFINE p == req[r]
           q == [p EXCEPT !.stage = "budgeted"]
<1>1. p.subject \in Names /\ loop = r /\ p.stage = "metered"
  BY CheckedName
<1>2. p \in KeyedRequest /\ Known(p, keys) /\ KeyedTypes
  BY KeyedFacts DEF KeyedInv
<1>3. Notify(Check(p.subject).alerts) /\ UNCHANGED <<keys, sessions, usage, answers, settings, clock>>
  BY DEF CheckBudget
<1>4. bell' \in Seq(Alert) /\ \A j \in DOMAIN bell' : bell'[j].day <= UtcDay(clock)
  BY <1>1, <1>2, <1>3, AlertsRaised
<1>5. CASE Check(p.subject).effect = "block"
  <2>1. loop' = None /\ req' = [req EXCEPT ![r] = Idle]
    BY <1>5 DEF CheckBudget
  <2>2. Idle.stage \notin Admission
    BY DEF Idle, Admission
  <2>3. QED
    BY <1>1, <1>3, <1>4, <2>1, <2>2, IdleKnown, KeyedFacts, LedgerStays, Handled
<1>6. CASE Check(p.subject).effect # "block"
  <2>1. loop' = loop /\ req' = [req EXCEPT ![r] = q]
    BY <1>6 DEF CheckBudget
  <2> HIDE DEF p
  <2>2. /\ q \in KeyedRequest
        /\ q.stage = "budgeted" /\ q.metered = p.metered
        /\ q.key = p.key /\ q.subject = p.subject /\ q.backend = p.backend
        /\ q.keyed = p.keyed /\ q.sole = p.sole /\ q.revoked = p.revoked /\ q.scope = p.scope
    BY <1>2 DEF KeyedRequest, Stages
  <2> HIDE DEF q
  <2>3. Known(q, keys)
    BY <1>1, <1>2, <2>2 DEF Known, KeyKnown, ChargeKnown, ScopeKept, Admission
  <2>4. q.stage \in Admission
    BY <2>2 DEF Admission
  <2>5. QED
    BY <1>1, <1>3, <1>4, <2>1, <2>2, <2>3, <2>4, KeyedFacts, LedgerStays, Handled
<1>7. QED
  BY <1>5, <1>6

LEMMA CheckScopeKeeps ==
  ASSUME KeyedInv, NEW r \in Requests, CheckScope(r)
  PROVE  KeyedInv'
<1> DEFINE p == req[r]
           refused == p.backend # None /\ ScopeViolation(p.subject, p.backend)
           q == [p EXCEPT !.stage = "inferring"]
<1>1. /\ loop = r /\ p.stage = "budgeted" /\ loop' = None
      /\ UNCHANGED <<keys, sessions, usage, answers, bell, settings, clock>>
  BY DEF CheckScope, Step
<1>2. p \in KeyedRequest /\ Known(p, keys) /\ KeyedTypes
  BY KeyedFacts DEF KeyedInv
<1>3. CASE refused
  <2>1. req' = [req EXCEPT ![r] = Idle]
    BY <1>3, KeyedFacts DEF CheckScope
  <2>2. Idle.stage \notin Admission
    BY DEF Idle, Admission
  <2>3. QED
    BY <1>1, <2>1, <2>2, IdleKnown, KeyedFacts, LedgerStays, Handled
<1>4. CASE ~refused
  <2>1. req' = [req EXCEPT ![r] = q]
    BY <1>4, KeyedFacts DEF CheckScope
  <2>2. ASSUME p.key # 0, ~p.revoked, p.sole, p.backend # None
        PROVE  p.scope = {} \/ p.backend \in p.scope
    <3>1. /\ HasName(keys, p.key, p.subject)
          /\ p.scope = keys[p.key].backends
          /\ \A j \in DOMAIN keys : HasName(keys, j, p.subject) => j = p.key
      BY <1>1, <1>2, <2>2 DEF Known, KeyKnown, Admission
    <3>2. KeyMeta(p.subject) = p.key
      <4>1. /\ KeyMeta(p.subject) # 0
            /\ HasName(keys, KeyMeta(p.subject), p.subject)
        BY <1>2, <3>1, KeyMetaIs DEF HasName
      <4>2. QED
        BY <3>1, <4>1 DEF HasName
    <3>3. QED
      BY <1>4, <2>2, <3>1, <3>2 DEF ScopeViolation
  <2> HIDE DEF p, refused
  <2>3. /\ q \in KeyedRequest
        /\ q.stage = "inferring" /\ q.metered = p.metered
        /\ q.key = p.key /\ q.subject = p.subject /\ q.backend = p.backend
        /\ q.keyed = p.keyed /\ q.sole = p.sole /\ q.revoked = p.revoked /\ q.scope = p.scope
    BY <1>2 DEF KeyedRequest, Stages
  <2> HIDE DEF q
  <2>4. Known(q, keys)
    BY <1>1, <1>2, <2>2, <2>3 DEF Known, KeyKnown, ChargeKnown, ScopeKept, Admission
  <2>5. q.stage \notin Admission
    BY <2>3 DEF Admission
  <2>6. QED
    BY <1>1, <2>1, <2>3, <2>4, <2>5, KeyedFacts, LedgerStays, Handled
<1>5. QED
  BY <1>3, <1>4

\* An answer is matched with the row that is written with it, or with none.
LEMMA ServeMatches ==
  ASSUME KeyedInv, NEW charge \in UsageRow, NEW keyed \in BOOLEAN, NEW answer,
         usage' = IF keyed THEN Append(usage, charge) ELSE usage,
         answer.keyed = keyed, answer.charge = charge,
         answer.rows = (Len(usage) + 1)..Len(usage'),
         answers' = Append(answers, answer)
  PROVE  Matched'
<1> DEFINE len == Len(usage)
           last == Len(answers) + 1
<1>1. /\ usage \in Seq(UsageRow) /\ len \in Nat /\ DOMAIN usage = 1..len
      /\ answers \in Seq(AnswerRecord) /\ Len(answers) \in Nat /\ DOMAIN answers = 1..Len(answers)
      /\ Metered /\ RowsAnswered
  BY KeyedFacts DEF Matched
<1>2. /\ DOMAIN answers' = DOMAIN answers \cup {last} /\ last \notin DOMAIN answers
      /\ answers'[last] = answer /\ \A n \in DOMAIN answers : answers'[n] = answers[n]
  BY <1>1
<1>3. /\ keyed => /\ DOMAIN usage' = DOMAIN usage \cup {len + 1} /\ usage'[len + 1] = charge
                  /\ answer.rows = {len + 1}
      /\ ~keyed => DOMAIN usage' = DOMAIN usage /\ answer.rows = {}
      /\ \A j \in DOMAIN usage : usage'[j] = usage[j]
  <2>1. CASE keyed
    BY <1>1, <2>1
  <2>2. CASE ~keyed
    BY <1>1, <2>2
  <2>3. QED
    BY <2>1, <2>2
<1>4. len + 1 \notin DOMAIN usage
  BY <1>1
<1>5. \A n \in DOMAIN answers : answers[n].rows \subseteq DOMAIN usage
  BY <1>1 DEF Metered
<1> HIDE DEF len, last
<1>6. Metered'
  <2> SUFFICES ASSUME NEW n \in DOMAIN answers'
               PROVE  IF answers'[n].keyed
                      THEN \E j \in DOMAIN usage' :
                             answers'[n].rows = {j} /\ usage'[j] = answers'[n].charge
                      ELSE answers'[n].rows = {}
    BY DEF Metered
  <2>1. CASE n = last
    BY <1>2, <1>3, <2>1
  <2>2. CASE n \in DOMAIN answers
    BY <1>1, <1>2, <1>3, <2>2 DEF Metered
  <2>3. QED
    BY <1>2, <2>1, <2>2
<1>7. RowsAnswered'
  <2> SUFFICES ASSUME NEW j \in DOMAIN usage'
               PROVE  \E n \in DOMAIN answers' :
                        /\ j \in answers'[n].rows
                        /\ \A m \in DOMAIN answers' : j \in answers'[m].rows => m = n
    BY DEF RowsAnswered
  <2>1. CASE j \in DOMAIN usage
    <3>1. PICK n \in DOMAIN answers :
            /\ j \in answers[n].rows
            /\ \A m \in DOMAIN answers : j \in answers[m].rows => m = n
      BY <1>1, <2>1 DEF RowsAnswered
    <3>2. j \notin answer.rows
      BY <1>3, <1>4, <2>1
    <3>3. QED
      BY <1>2, <3>1, <3>2
  <2>2. CASE j \notin DOMAIN usage
    <3>1. j \in answer.rows
      BY <1>3, <2>2
    <3>2. \A m \in DOMAIN answers : j \notin answers[m].rows
      BY <1>5, <2>2
    <3>3. QED
      BY <1>2, <3>1, <3>2
  <2>3. QED
    BY <2>1, <2>2
<1>8. QED
  BY <1>6, <1>7 DEF Matched

LEMMA ServeKeeps ==
  ASSUME KeyedInv, NEW r \in Requests, NEW c \in Charges, Serve(r, c)
  PROVE  KeyedInv'
<1> DEFINE p == req[r]
           charge == [name |-> p.subject, cost |-> c.cost, tokens |-> c.tokens, at |-> clock]
           rows == (Len(usage) + 1)..Len(usage')
           answer == [keyed |-> p.keyed, charge |-> charge, rows |-> rows]
<1>1. /\ loop = None /\ p.stage = "inferring" /\ req' = [req EXCEPT ![r] = Idle]
      /\ usage' = (IF p.metered THEN Append(usage, charge) ELSE usage)
      /\ answers' = Append(answers, answer)
      /\ UNCHANGED <<keys, sessions, bell, settings, clock, loop>>
  BY DEF Serve, Usage, Answered
<1>2. p \in KeyedRequest /\ Known(p, keys)
  BY KeyedFacts
<1>3. p.subject \in Names /\ p.keyed \in BOOLEAN /\ (p.metered <=> p.keyed)
  BY <1>1, <1>2 DEF Known, ChargeKnown, KeyedRequest
<1>4. charge \in UsageRow
  <2>1. c.cost \in Nat /\ c.tokens \in Nat
    BY KeyedAssumption
  <2>2. QED
    BY <1>3, <2>1, KeyedFacts DEF UsageRow
<1> HIDE DEF p, charge
<1>5. usage' = IF p.keyed THEN Append(usage, charge) ELSE usage
  BY <1>1, <1>3
<1>6. usage' \in Seq(UsageRow)
  BY <1>4, <1>5, KeyedFacts
<1>7. rows \in SUBSET Nat
  BY <1>6, KeyedFacts
<1> HIDE DEF rows
<1>8. answer \in AnswerRecord
  BY <1>3, <1>4, <1>7 DEF AnswerRecord
<1>9. answers' \in Seq(AnswerRecord)
  <2> HIDE DEF answer
  <2>1. QED
    BY <1>1, <1>8, KeyedFacts
<1>10. Matched'
  <2>1. answer.keyed = p.keyed /\ answer.charge = charge /\ answer.rows = (Len(usage) + 1)..Len(usage')
    BY DEF rows
  <2> HIDE DEF answer
  <2>2. QED
    BY <1>1, <1>3, <1>4, <1>5, <2>1, ServeMatches
<1>11. Idle.stage \notin Admission
  BY DEF Idle, Admission
<1>12. QED
  BY <1>1, <1>6, <1>9, <1>10, <1>11, IdleKnown, KeyedFacts, Handled DEF LedgerKept

LEMMA FailKeeps ==
  ASSUME KeyedInv, NEW r \in Requests, Fail(r)
  PROVE  KeyedInv'
<1>1. /\ loop = None /\ req' = [req EXCEPT ![r] = Idle]
      /\ UNCHANGED <<keys, sessions, usage, answers, bell, settings, clock, loop>>
  BY DEF Fail
<1>2. Idle.stage \notin Admission
  BY DEF Idle, Admission
<1>3. QED
  BY <1>1, <1>2, IdleKnown, KeyedFacts, LedgerStays, Handled

LEMMA HandleKeeps ==
  ASSUME KeyedInv, Distinct(bell), NEW r \in Requests, Handle(r)
  PROVE  KeyedInv'
<1>1. ASSUME NEW i \in DOMAIN keys, NEW b \in Targets \cup {None}, AuthenticateKey(r, i, b)
      PROVE  KeyedInv'
  <2>1. i \in Nat /\ keys[i].name \in Names /\ HasName(keys, i, keys[i].name)
    BY <1>1, KeyedFacts DEF AuthenticateKey, KeyAuthenticates, HasName, KeyRecord
  <2>2. QED
    BY <1>1, <2>1, AuthenticateKeeps DEF AuthenticateKey
<1>2. ASSUME NEW s \in sessions, NEW b \in Targets \cup {None}, AuthenticateSession(r, s, b)
      PROVE  KeyedInv'
  <2>1. s.subject \in Names
    BY KeyedFacts, KeyedAssumption
  <2>2. QED
    BY <1>2, <2>1, AuthenticateKeeps DEF AuthenticateSession
<1>3. QED
  BY <1>1, <1>2, LookUpKeeps, CheckBudgetKeeps, CheckScopeKeeps, ServeKeeps, FailKeeps DEF Handle

\* What an edit leaves a key is a key; its name and its revocation stay.
LEMMA UpdatedIs ==
  ASSUME NEW row \in KeyRecord, NEW e \in KeyEdits, clock \in Nat
  PROVE  Updated(row, e) \in KeyRecord
<1> DEFINE new == Updated(row, e)
           expires == IF "days" \in DOMAIN e THEN Expiry(e.days) ELSE row.expires
           made == [name |-> row.name,
                    backends |-> IF "backends" \in DOMAIN e THEN e.backends ELSE row.backends,
                    caps |-> IF "caps" \in DOMAIN e THEN e.caps ELSE row.caps,
                    expires |-> expires, suspended |-> row.suspended, revoked |-> row.revoked]
<1>1. /\ DOMAIN e \subseteq {"backends", "caps", "days"}
      /\ "backends" \in DOMAIN e => e.backends \subseteq Backends
      /\ "caps" \in DOMAIN e => e.caps \in Caps
      /\ "days" \in DOMAIN e => e.days \in Int
  BY KeyedAssumption
<1>2. DOMAIN row = {"name", "backends", "caps", "expires", "suspended", "revoked"}
  BY DEF KeyRecord
<1>3. expires \in Int \cup {None}
  BY <1>1 DEF Expiry, KeyRecord
<1>4. made \in KeyRecord
  <2> HIDE DEF expires
  <2>1. QED
    BY <1>1, <1>3 DEF KeyRecord
<1>5. new = made
  <2>1. DOMAIN new = DOMAIN made
    BY <1>2 DEF Updated
  <2>2. new = [f \in DOMAIN row |-> new[f]]
    BY DEF Updated
  <2>3. ASSUME NEW f \in DOMAIN row PROVE new[f] = made[f]
    BY <1>1, <1>2 DEF Updated
  <2>4. made = [f \in DOMAIN row |-> made[f]]
    BY <1>2
  <2> HIDE DEF new, made
  <2>5. QED
    BY <2>2, <2>3, <2>4, Zenon
<1>6. QED
  BY <1>4, <1>5

\* An edit of the keys, while no request is being admitted.
LEMMA Edited ==
  ASSUME KeyedInv, loop = None, keys' \in Seq(KeyRecord),
         UNCHANGED <<sessions, usage, answers, bell, settings, clock, loop, req>>
  PROVE  KeyedInv'
<1>1. \A r \in Requests : /\ req'[r].stage \in Admission <=> loop' = r
                          /\ Known(req'[r], keys')
  BY KeyedFacts, Admitted
<1>2. QED
  BY <1>1, KeyedFacts, LedgerStays, KeyedAfter

LEMMA IssueKeyKeeps ==
  ASSUME KeyedInv, NEW k \in NewKeys, IssueKey(k)
  PROVE  KeyedInv'
<1>1. k \in [name : Names, backends : SUBSET Backends, caps : Caps, days : Int]
  BY KeyedAssumption
<1>2. Expiry(k.days) \in Int \cup {None}
  BY <1>1, KeyedFacts DEF Expiry
<1>3. KeyRow(k) \in KeyRecord
  BY <1>1, <1>2 DEF KeyRow, KeyRecord
<1>4. keys' \in Seq(KeyRecord)
  BY <1>3, KeyedFacts DEF IssueKey
<1>5. QED
  BY <1>4, Edited DEF IssueKey

LEMMA UpdateKeyKeeps ==
  ASSUME KeyedInv, NEW i \in DOMAIN keys, NEW e \in KeyEdits, UpdateKey(i, e)
  PROVE  KeyedInv'
<1>1. keys' = [keys EXCEPT ![i] = Updated(keys[i], e)]
  BY DEF UpdateKey
<1>2. Updated(keys[i], e) \in KeyRecord
  BY KeyedFacts, UpdatedIs
<1>3. keys' \in Seq(KeyRecord)
  BY <1>1, <1>2, KeyedFacts, ExceptSeq
<1>4. QED
  BY <1>3, Edited DEF UpdateKey

LEMMA SetSuspendedKeeps ==
  ASSUME KeyedInv, NEW i \in DOMAIN keys, NEW on \in BOOLEAN, SetSuspended(i, on)
  PROVE  KeyedInv'
<1> DEFINE row == [keys[i] EXCEPT !.suspended = on]
<1>1. /\ keys' = [keys EXCEPT ![i] = row]
      /\ UNCHANGED <<sessions, usage, answers, bell, settings, clock, loop, req>>
  BY DEF SetSuspended
<1>2. /\ row \in KeyRecord /\ row.name = keys[i].name /\ row.revoked = keys[i].revoked
      /\ row.backends = keys[i].backends
  BY KeyedFacts DEF KeyRecord
<1> HIDE DEF row
<1>3. keys' \in Seq(KeyRecord) /\ DOMAIN keys' = DOMAIN keys
  BY <1>1, <1>2, KeyedFacts, ExceptSeq
<1>4. ASSUME NEW j \in DOMAIN keys
      PROVE  /\ \A name : HasName(keys', j, name) <=> HasName(keys, j, name)
             /\ keys'[j].backends = keys[j].backends
  BY <1>1, <1>2, <1>3 DEF HasName
<1>5. \A j, name : HasName(keys', j, name) <=> HasName(keys, j, name)
  BY <1>3, <1>4 DEF HasName
<1>6. ASSUME NEW r \in Requests PROVE Known(req[r], keys')
  <2> DEFINE p == req[r]
  <2>1. Known(p, keys)
    BY KeyedFacts
  <2>2. HasName(keys, p.key, p.subject) => keys'[p.key].backends = keys[p.key].backends
    BY <1>4 DEF HasName
  <2> HIDE DEF p
  <2>3. Known(p, keys')
    BY <1>3, <1>5, <2>1, <2>2 DEF Known, KeyKnown, ChargeKnown
  <2>4. QED
    BY <2>3 DEF p
<1>7. QED
  BY <1>1, <1>3, <1>6, KeyedFacts, LedgerStays, KeyedAfter

\* The request that is being admitted hears of the loss of its own key, and of
\* the last key of its name if it has not looked the name up.
LEMMA RevocationHeard ==
  ASSUME NEW t, NEW u, NEW i \in DOMAIN t, DOMAIN u = DOMAIN t,
         \A j \in DOMAIN t \ {i} : u[j] = t[j],
         ~t[i].revoked, u[i].revoked,
         NEW p \in KeyedRequest, Known(p, t),
         NEW q \in KeyedRequest,
         q.stage = p.stage, q.key = p.key, q.subject = p.subject, q.backend = p.backend,
         q.metered = p.metered, q.sole = p.sole, q.scope = p.scope,
         q.revoked <=> p.revoked \/ p.key = i,
         q.keyed <=> p.keyed /\ (p.stage = "authenticated"
                                   => {j \in DOMAIN t : HasName(t, j, p.subject)} # {i})
  PROVE  Known(q, u)
<1>1. \A j, name : HasName(u, j, name) <=> HasName(t, j, name) /\ j # i
  BY DEF HasName
<1>2. KeyKnown(q, u)
  <2> SUFFICES ASSUME q.key # 0, ~q.revoked, q.stage \in Admission
               PROVE  /\ HasName(u, q.key, q.subject)
                      /\ q.sole => /\ q.scope = u[q.key].backends
                                   /\ \A j \in DOMAIN u : HasName(u, j, q.subject) => j = q.key
    BY DEF KeyKnown
  <2>1. p.key # i /\ ~p.revoked
    OBVIOUS
  <2>2. /\ HasName(t, p.key, p.subject)
        /\ p.sole => /\ p.scope = t[p.key].backends
                     /\ \A j \in DOMAIN t : HasName(t, j, p.subject) => j = p.key
    BY <2>1 DEF Known, KeyKnown
  <2>3. u[p.key] = t[p.key]
    BY <2>1, <2>2 DEF HasName
  <2>4. QED
    BY <1>1, <2>1, <2>2, <2>3
<1>3. ChargeKnown(q, u)
  <2>1. CASE p.stage = "authenticated"
    <3>1. p.keyed <=> \E j \in DOMAIN t : HasName(t, j, p.subject)
      BY <2>1 DEF Known, ChargeKnown
    <3>2. (\E j \in DOMAIN u : HasName(u, j, p.subject))
            <=> \E j \in DOMAIN t : HasName(t, j, p.subject) /\ j # i
      BY <1>1
    <3>3. q.keyed <=> p.keyed /\ {j \in DOMAIN t : HasName(t, j, p.subject)} # {i}
      BY <2>1
    <3>4. q.keyed <=> \E j \in DOMAIN t : HasName(t, j, p.subject) /\ j # i
      BY <3>1, <3>3
    <3>5. q.keyed <=> \E j \in DOMAIN u : HasName(u, j, q.subject)
      BY <3>2, <3>4
    <3>6. QED
      BY <2>1, <3>5 DEF Known, ChargeKnown
  <2>2. CASE p.stage # "authenticated"
    BY <2>2 DEF Known, ChargeKnown
  <2>3. QED
    BY <2>1, <2>2
<1>4. ScopeKept(q)
  BY DEF Known, ScopeKept
<1>5. QED
  BY <1>2, <1>3, <1>4 DEF Known

LEMMA RevokeKeyKeeps ==
  ASSUME KeyedInv, NEW i \in DOMAIN keys, RevokeKey(i)
  PROVE  KeyedInv'
<1> DEFINE row == [keys[i] EXCEPT !.revoked = TRUE]
           Heard(p) ==
             [p EXCEPT !.revoked = p.revoked \/ p.key = i,
                       !.keyed = p.keyed /\ (p.stage = "authenticated"
                                               => Bearers(p.subject) # {i})]
<1>1. /\ keys' = [keys EXCEPT ![i] = row] /\ ~keys[i].revoked
      /\ UNCHANGED <<sessions, usage, answers, bell, settings, clock, loop>>
      /\ req' = [r \in Requests |-> IF loop # r THEN req[r] ELSE Heard(req[r])]
  BY DEF RevokeKey
<1>2. /\ row \in KeyRecord /\ row.revoked = TRUE
  BY KeyedFacts DEF KeyRecord
<1> HIDE DEF row
<1>3. keys' \in Seq(KeyRecord) /\ DOMAIN keys' = DOMAIN keys
  BY <1>1, <1>2, KeyedFacts, ExceptSeq
<1>4. \A j \in DOMAIN keys \ {i} : keys'[j] = keys[j]
  BY <1>1, KeyedFacts
<1>5. keys'[i].revoked = TRUE
  BY <1>1, <1>2, KeyedFacts
<1>6. ASSUME NEW r \in Requests
      PROVE  /\ req'[r] \in KeyedRequest /\ req'[r].stage = req[r].stage
             /\ Known(req'[r], keys')
  <2> DEFINE p == req[r]
             revoked == p.revoked \/ p.key = i
             keyed == p.keyed /\ (p.stage = "authenticated" => Bearers(p.subject) # {i})
             q == [p EXCEPT !.revoked = revoked, !.keyed = keyed]
  <2>1. p \in KeyedRequest /\ Known(p, keys) /\ (p.stage \in Admission <=> loop = r)
    BY KeyedFacts
  <2>2. CASE loop # r
    <3>1. req'[r] = p
      BY <1>1, <2>2
    <3>2. QED
      BY <2>1, <2>2, <3>1, Admitted
  <2>3. CASE loop = r
    <3>1. req'[r] = q
      BY <1>1, <2>3
    <3>2. Bearers(p.subject) = {j \in DOMAIN keys : HasName(keys, j, p.subject)}
      BY DEF Bearers, HasName
    <3>3. revoked \in BOOLEAN /\ keyed \in BOOLEAN
      OBVIOUS
    <3>4. /\ revoked <=> p.revoked \/ p.key = i
          /\ keyed <=> p.keyed /\ (p.stage = "authenticated"
                                     => {j \in DOMAIN keys : HasName(keys, j, p.subject)} # {i})
      BY <3>2
    <3> HIDE DEF p, revoked, keyed
    <3>5. /\ q \in KeyedRequest
          /\ q.stage = p.stage /\ q.key = p.key /\ q.subject = p.subject /\ q.backend = p.backend
          /\ q.metered = p.metered /\ q.sole = p.sole /\ q.scope = p.scope
          /\ q.revoked = revoked /\ q.keyed = keyed
      BY <2>1, <3>3 DEF KeyedRequest
    <3> HIDE DEF q
    <3>6. /\ q.revoked <=> p.revoked \/ p.key = i
          /\ q.keyed <=> p.keyed /\ (p.stage = "authenticated"
                                       => {j \in DOMAIN keys : HasName(keys, j, p.subject)} # {i})
      BY <3>4, <3>5
    <3>7. ~keys[i].revoked /\ keys'[i].revoked
      BY <1>1, <1>5
    <3>8. Known(q, keys')
      <4> HIDE DEF Heard
      <4>1. QED
        BY <1>3, <1>4, <2>1, <3>5, <3>6, <3>7, RevocationHeard
    <3>9. QED
      BY <3>1, <3>5, <3>8 DEF p
  <2>4. QED
    BY <2>2, <2>3
<1>7. req' \in [Requests -> KeyedRequest]
  <2> HIDE DEF Heard
  <2>1. DOMAIN req' = Requests /\ req' = [r \in Requests |-> req'[r]]
    BY <1>1
  <2>2. QED
    BY <1>6, <2>1
<1>8. \A r \in Requests : req'[r].stage \in Admission <=> loop' = r
  BY <1>1, <1>6, KeyedFacts
<1> HIDE DEF Heard
<1>9. QED
  BY <1>1, <1>3, <1>6, <1>7, <1>8, KeyedFacts, LedgerStays, KeyedAfter

LEMMA AdministerKeeps == ASSUME KeyedInv, Administer PROVE KeyedInv'
<1>1. ASSUME NEW p \in People, CreateSession(p) PROVE KeyedInv'
  <2>1. sessions' \subseteq [subject : People, expires : Nat]
    BY <1>1, KeyedFacts DEF CreateSession
  <2>2. UNCHANGED <<keys, usage, answers, bell, settings, clock, loop, req>>
    BY <1>1 DEF CreateSession
  <2>3. QED
    BY <2>1, <2>2, KeyedFacts, LedgerStays, KeyedAfter
<1>2. ASSUME NEW s \in sessions, RevokeSession(s) PROVE KeyedInv'
  <2>1. sessions' \subseteq [subject : People, expires : Nat]
    BY <1>2, KeyedFacts DEF RevokeSession
  <2>2. UNCHANGED <<keys, usage, answers, bell, settings, clock, loop, req>>
    BY <1>2 DEF RevokeSession
  <2>3. QED
    BY <2>1, <2>2, KeyedFacts, LedgerStays, KeyedAfter
<1>3. ASSUME NEW on \in BOOLEAN, NEW zone \in 0..1, PutSettings(on, zone) PROVE KeyedInv'
  <2>1. settings' \in [alerts : BOOLEAN, zone : 0..1]
    BY <1>3 DEF PutSettings
  <2>2. UNCHANGED <<keys, sessions, usage, answers, bell, clock, loop, req>>
    BY <1>3 DEF PutSettings
  <2>3. QED
    BY <2>1, <2>2, KeyedFacts, LedgerStays, KeyedAfter
<1>4. QED
  BY <1>1, <1>2, <1>3, IssueKeyKeeps, UpdateKeyKeeps, SetSuspendedKeeps, RevokeKeyKeeps
     DEF Administer

LEMMA ClockTicksKeeps == ASSUME KeyedInv, ClockTicks PROVE KeyedInv'
<1>1. /\ clock \in Nat /\ clock' = clock + 1
      /\ UNCHANGED <<keys, sessions, usage, answers, bell, settings, loop, req>>
  BY KeyedFacts DEF ClockTicks
<1>2. 0..clock \subseteq 0..clock' /\ clock' \in Nat /\ clock <= clock'
  BY <1>1
<1>3. usage' \in Seq(UsageRow') /\ answers' \in Seq(AnswerRecord')
  <2>1. UsageRow \subseteq UsageRow'
    BY <1>2 DEF UsageRow
  <2>2. AnswerRecord \subseteq AnswerRecord'
    BY <2>1 DEF AnswerRecord
  <2>3. QED
    BY <1>1, <2>1, <2>2, KeyedFacts, SeqMonotonic
<1>4. KeyedTypeOK'
  BY <1>1, <1>3 DEF KeyedInv, KeyedTypes, KeyedTypeOK
<1>5. \A j \in DOMAIN bell' : bell'[j].day <= UtcDay(clock')
  <2>1. UtcDay(clock) \in Nat /\ UtcDay(clock') \in Nat /\ UtcDay(clock) <= UtcDay(clock')
    BY <1>1, <1>2 DEF UtcDay
  <2>2. \A j \in DOMAIN bell : bell[j].day \in Nat /\ bell[j].day <= UtcDay(clock)
    <3>1. \A j \in DOMAIN bell : bell[j] \in Alert
      BY KeyedFacts
    <3>2. QED
      BY <3>1, KeyedFacts DEF Alert
  <2>3. QED
    BY <1>1, <2>1, <2>2
<1>6. KeyedTypes'
  BY <1>1, <1>2, <1>4, <1>5 DEF KeyedInv, KeyedTypes
<1>7. Matched'
  BY <1>1, LedgerStays DEF LedgerKept
<1>8. QED
  BY <1>1, <1>6, <1>7 DEF KeyedInv

LEMMA RestartKeeps == ASSUME KeyedInv, Restart PROVE KeyedInv'
<1>1. /\ loop' = None /\ UNCHANGED <<keys, sessions, usage, answers, bell, settings, clock>>
      /\ req' = [r \in Requests |-> Idle]
  BY DEF Restart
<1>2. Idle.stage \notin Admission
  BY DEF Idle, Admission
<1>3. ASSUME NEW r \in Requests
      PROVE  /\ req'[r] \in KeyedRequest
             /\ req'[r].stage \in Admission <=> loop' = r
             /\ Known(req'[r], keys')
  <2>1. req'[r] = Idle
    BY <1>1
  <2>2. QED
    BY <1>1, <1>2, <2>1, IdleKnown, KeyedFacts
<1>4. req' \in [Requests -> KeyedRequest]
  BY <1>1, <1>3
<1>5. QED
  BY <1>1, <1>3, <1>4, KeyedFacts, LedgerStays, KeyedAfter

LEMMA KeyedStarts == KeyedInit => KeyedInv /\ AlertedOnce
<1> SUFFICES ASSUME KeyedInit PROVE KeyedInv /\ AlertedOnce
  OBVIOUS
<1>1. /\ keys = << >> /\ usage = << >> /\ answers = << >> /\ bell = << >> /\ sessions = {} /\ clock = 0
      /\ settings = [alerts |-> TRUE, zone |-> 0] /\ loop = None
      /\ req = [r \in Requests |-> Idle] /\ refusals = {}
  BY DEF KeyedInit
<1>2. \A r \in Requests : req[r] = Idle /\ r # None
  BY <1>1, KeyedAssumption
<1>3. Idle.stage \in Stages \ Admission
  BY DEF Idle, Stages, Admission
<1>4. KeyedTypeOK
  BY <1>1, <1>2, <1>3 DEF KeyedTypeOK, Admission
<1>5. KeyedTypes
  BY <1>1, <1>2, <1>4, IdleKnown DEF KeyedTypes
<1>6. KeyedInv
  <2>1. Matched
    BY <1>1 DEF Matched, Metered, RowsAnswered
  <2>2. QED
    BY <1>2, <1>5, <2>1, IdleKnown DEF KeyedInv
<1>7. AlertedOnce
  BY <1>1 DEF AlertedOnce
<1>8. QED
  BY <1>6, <1>7

\* Only CheckBudget raises an alert or refuses by a cap.
LEMMA BellQuiet ==
  ASSUME NEW r \in Requests, Handle(r), ~CheckBudget(r)
  PROVE  UNCHANGED <<bell, refusals>>
BY DEF Handle, AuthenticateKey, AuthenticateSession, Authenticate, LookUp, CheckScope, Serve, Fail

LEMMA AdministerQuiet == Administer => UNCHANGED <<bell, refusals>>
BY DEF Administer, IssueKey, UpdateKey, SetSuspended, RevokeKey, CreateSession, RevokeSession,
       PutSettings

\* The title kept in the history of refusals is one of those raised.
LEMMA RefusalsAnnounced ==
  ASSUME KeyedInv, AlertedOnce, NEW r \in Requests, CheckBudget(r)
  PROVE  AlertedOnce'
<1> DEFINE v == Check(req[r].subject)
           first == CHOOSE x \in v.alerts : x[2] = "block"
<1>1. req[r].subject \in Names /\ KeyedTypes /\ Distinct(bell) /\ refusals \subseteq Range(bell)
  BY CheckedName DEF KeyedInv, AlertedOnce, Distinct
<1>2. Notify(v.alerts)
  BY DEF CheckBudget
<1>3. /\ Distinct(bell') /\ Range(bell) \subseteq Range(bell')
      /\ settings.alerts => \A x \in v.alerts : NoteOf(x) \in Range(bell')
  BY <1>1, <1>2, AlertsRaised
<1>4. refusals' \subseteq Range(bell')
  <2>1. CASE v.effect = "block" /\ settings.alerts
    <3>1. first \in v.alerts
      BY <1>1, <2>1, CheckIs
    <3>2. refusals' = refusals \cup {NoteOf(first)}
      BY <2>1 DEF CheckBudget, NoteOf
    <3> HIDE DEF v, first
    <3>3. QED
      BY <1>1, <1>3, <2>1, <3>1, <3>2
  <2>2. CASE ~(v.effect = "block" /\ settings.alerts)
    <3>1. refusals' = refusals
      BY <2>2 DEF CheckBudget
    <3>2. QED
      BY <1>1, <1>3, <3>1
  <2>3. QED
    BY <2>1, <2>2
<1>5. QED
  BY <1>3, <1>4 DEF AlertedOnce, Distinct

LEMMA KeyedKeeps ==
  ASSUME KeyedInv, AlertedOnce, [KeyedNext]_keyedVars
  PROVE  KeyedInv' /\ AlertedOnce'
<1>0. Distinct(bell)
  BY DEF AlertedOnce, Distinct
<1>1. ASSUME UNCHANGED <<bell, refusals>> PROVE AlertedOnce'
  BY <1>1 DEF AlertedOnce
<1>2. CASE UNCHANGED keyedVars
  <2>1. UsageRow' = UsageRow
    BY <1>2 DEF keyedVars, UsageRow
  <2>2. AnswerRecord' = AnswerRecord
    BY <2>1 DEF AnswerRecord
  <2>3. Matched'
    BY <1>2, LedgerStays DEF keyedVars, LedgerKept
  <2>4. KeyedTypeOK'
    BY <1>2, <2>1, <2>2 DEF keyedVars, KeyedInv, KeyedTypes, KeyedTypeOK
  <2>5. QED
    BY <1>2, <2>3, <2>4 DEF keyedVars, KeyedInv, KeyedTypes, AlertedOnce, UtcDay
<1>3. ASSUME NEW r \in Requests, Handle(r) PROVE KeyedInv' /\ AlertedOnce'
  <2>1. KeyedInv'
    BY <1>0, <1>3, HandleKeeps
  <2>2. CASE CheckBudget(r)
    BY <2>1, <2>2, RefusalsAnnounced
  <2>3. CASE ~CheckBudget(r)
    BY <1>1, <1>3, <2>1, <2>3, BellQuiet
  <2>4. QED
    BY <2>2, <2>3
<1>4. CASE Administer
  BY <1>1, <1>4, AdministerKeeps, AdministerQuiet
<1>5. CASE ClockTicks
  <2>1. UNCHANGED <<bell, refusals>>
    BY <1>5 DEF ClockTicks
  <2>2. QED
    BY <1>1, <1>5, <2>1, ClockTicksKeeps
<1>6. CASE Restart
  <2>1. UNCHANGED <<bell, refusals>>
    BY <1>6 DEF Restart
  <2>2. QED
    BY <1>1, <1>6, <2>1, RestartKeeps
<1>7. QED
  BY <1>2, <1>3, <1>4, <1>5, <1>6 DEF KeyedNext

LEMMA KeyedInvariance == KeyedSpec => [](KeyedInv /\ AlertedOnce)
<1>1. KeyedInit => KeyedInv /\ AlertedOnce
  BY KeyedStarts
<1>2. (KeyedInv /\ AlertedOnce) /\ [KeyedNext]_keyedVars => (KeyedInv /\ AlertedOnce)'
  BY KeyedKeeps
<1>3. QED
  BY <1>1, <1>2, PTL DEF KeyedSpec

-----------------------------------------------------------------------------
(* What KeyedRequests promises.                                            *)

\* ChargingSound: record_usage writes one row for each answer whose caller's name
\* had a key from authentication to the look-up, and writes it as the answer was;
\* no row for any other answer, and no row without an answer.
THEOREM ChargedOnce == KeyedSpec => []ChargingSound
<1>1. KeyedInv => ChargingSound
  BY DEF KeyedInv, KeyedTypes, Matched, ChargingSound
<1>2. QED
  BY <1>1, KeyedInvariance, PTL

\* CapsAgree: budgets.check blocks a name exactly when one of its caps is used
\* up and warns exactly when one is at four fifths, in every reachable state.
THEOREM CapsDecide == KeyedSpec => []CapsAgree
<1>1. KeyedInv => CapsAgree
  BY CapsHold DEF KeyedInv
<1>2. QED
  BY <1>1, KeyedInvariance, PTL

\* AlertedOnce: what a cap refuses is announced that UTC day, and notify never
\* announces the same title twice on a day.
THEOREM RefusalsAlerted == KeyedSpec => []AlertedOnce
BY KeyedInvariance, PTL

\* OwnScope: a request that named its backend and passed the gateway names one
\* its own key may use, unless the name is shared or the key was revoked.
THEOREM ScopesHold == KeyedSpec => []OwnScope
<1>1. KeyedInv => OwnScope
  <2> SUFFICES ASSUME KeyedInv, NEW r \in Requests PROVE ScopeKept(req[r])
    BY DEF OwnScope, ScopeKept
  <2>1. QED
    BY KeyedFacts DEF Known
<1>2. QED
  BY <1>1, KeyedInvariance, PTL

-----------------------------------------------------------------------------
(* A block stays.                                                          *)

\* Whether a cap of the key found under the name is used up.
BlockedBy(table, rows, t, zone, name) ==
  /\ MetaOf(table, name) # 0
  /\ \E n \in 1..4 : /\ table[MetaOf(table, name)].caps[n] > 0
                     /\ UsedOf(rows, t, zone, name, n) >= table[MetaOf(table, name)].caps[n]

Blocks == \A name \in Names :
  Check(name).effect = "block" <=> BlockedBy(keys, usage, clock, settings.zone, name)

LEMMA BlocksHold == KeyedInv => Blocks
<1> SUFFICES ASSUME KeyedInv, NEW name \in Names
             PROVE  Check(name).effect = "block"
                      <=> BlockedBy(keys, usage, clock, settings.zone, name)
  BY DEF Blocks
<1>1. KeyedTypes
  BY DEF KeyedInv
<1>2. KeyMeta(name) = MetaOf(keys, name)
  BY <1>1, KeyMetaIs
<1>3. Check(name).effect = "block" <=> KeyMeta(name) # 0 /\ \E n \in 1..4 : Reached(name, n)
  <2>1. CASE KeyMeta(name) = 0
    BY <1>1, <2>1, CheckIs
  <2>2. CASE KeyMeta(name) # 0
    BY <1>1, <2>2, CheckIs
  <2>3. QED
    BY <2>1, <2>2
<1>4. QED
  BY <1>2, <1>3 DEF BlockedBy, Reached, CapOf, UsedNow

Row == [name : Names, cost : Nat, tokens : Nat, at : Nat]

\* A ledger that only grows charges a name no less, as long as the day lasts.
LEMMA UsedGrows ==
  ASSUME NEW rows \in Seq(Row), NEW more \in Seq(Row), Len(rows) <= Len(more),
         \A j \in DOMAIN rows : more[j] = rows[j],
         NEW t, NEW u, NEW zone, DayAt(u, zone) = DayAt(t, zone),
         NEW name, NEW n \in 1..4
  PROVE  /\ UsedOf(rows, t, zone, name, n) \in Nat /\ UsedOf(more, u, zone, name, n) \in Nat
         /\ UsedOf(rows, t, zone, name, n) <= UsedOf(more, u, zone, name, n)
<1> DEFINE A == Charged(rows, t, zone, name, n)
           B == Charged(more, u, zone, name, n)
           w == Amounts(rows, n)
           v == Amounts(more, n)
<1>1. /\ Len(rows) \in Nat /\ DOMAIN rows = 1..Len(rows)
      /\ Len(more) \in Nat /\ DOMAIN more = 1..Len(more)
      /\ \A j \in DOMAIN rows : rows[j] \in Row
      /\ \A j \in DOMAIN more : more[j] \in Row
  OBVIOUS
<1>2. DOMAIN rows \subseteq DOMAIN more
  BY <1>1
<1>3. IsFiniteSet(DOMAIN more)
  BY <1>1, FS_Interval
<1>4. \A j \in DOMAIN more : more[j].cost \in Nat /\ more[j].tokens \in Nat
  BY <1>1 DEF Row
<1>5. v \in [DOMAIN more -> Nat]
  BY <1>4, AmountsTyped
<1>6. MonthAt(u, zone) = MonthAt(t, zone)
  BY DEF MonthAt
<1>7. A \subseteq B
  BY <1>2, <1>6 DEF Charged
<1>8. B \subseteq DOMAIN more /\ IsFiniteSet(B) /\ IsFiniteSet(A)
  <2>1. B \subseteq DOMAIN more
    BY DEF Charged
  <2> HIDE DEF A, B
  <2>2. QED
    BY <1>3, <1>7, <2>1, FS_Subset
<1>9. \A j \in A : w[j] = v[j]
  BY <1>2 DEF Charged, Amounts, Amount
<1> HIDE DEF A, B, w, v
<1>10. Total(w, A) = Total(v, A)
  BY <1>8, <1>9, SumSame
<1>11. Total(v, A) <= Total(v, B)
  BY <1>5, <1>7, <1>8, SumOfPart
<1>12. Total(v, A) \in Nat /\ Total(v, B) \in Nat
  BY <1>5, <1>7, <1>8, SumOfMore
<1>13. QED
  BY <1>10, <1>11, <1>12 DEF UsedOf, A, B, w, v

\* New keys come after the old ones: the key found under a name stays, unless
\* one of that name is revoked.
LEMMA MetaStays ==
  ASSUME NEW table \in Seq(KeyRecord), NEW later \in Seq(KeyRecord), Len(table) <= Len(later),
         NEW name, MetaOf(table, name) # 0,
         \A i \in DOMAIN table :
           /\ later[i].name = table[i].name
           /\ table[i].name = name => later[i].revoked = table[i].revoked
  PROVE  MetaOf(later, name) = MetaOf(table, name)
<1> DEFINE i == MetaOf(table, name)
           k == MetaOf(later, name)
<1>1. i \in 1..Len(table) /\ HasName(table, i, name)
  BY MetaIs
<1>2. HasName(later, i, name)
  BY <1>1 DEF HasName
<1>3. k # 0 /\ k <= i /\ k \in 0..Len(later) /\ HasName(later, k, name)
  BY <1>2, MetaIs DEF HasName
<1>4. HasName(table, k, name)
  BY <1>1, <1>3 DEF HasName
<1>5. i <= k
  BY <1>4, MetaIs DEF HasName
<1>6. QED
  BY <1>1, <1>3, <1>5

\* No step takes a row from the ledger or a key from the table, or renames one.
LEMMA TablesGrow ==
  ASSUME KeyedInv, [KeyedNext]_keyedVars
  PROVE  /\ Len(keys) <= Len(keys') /\ \A i \in DOMAIN keys : keys'[i].name = keys[i].name
         /\ Len(usage) <= Len(usage') /\ \A j \in DOMAIN usage : usage'[j] = usage[j]
<1> DEFINE KeysGrow == Len(keys) <= Len(keys') /\ \A i \in DOMAIN keys : keys'[i].name = keys[i].name
           UsageGrows == Len(usage) <= Len(usage') /\ \A j \in DOMAIN usage : usage'[j] = usage[j]
<1>1. /\ keys \in Seq(KeyRecord) /\ Len(keys) \in Nat
      /\ usage \in Seq(UsageRow) /\ Len(usage) \in Nat
  BY KeyedFacts
<1>2. UNCHANGED keys => KeysGrow
  BY <1>1
<1>3. UNCHANGED usage => UsageGrows
  BY <1>1
<1>4. ASSUME NEW row, keys' = Append(keys, row) PROVE KeysGrow
  BY <1>1, <1>4, AppendProperties
<1>5. ASSUME NEW row, usage' = Append(usage, row) PROVE UsageGrows
  BY <1>1, <1>5, AppendProperties
<1>6. ASSUME NEW i \in DOMAIN keys, NEW row, keys' = [keys EXCEPT ![i] = row],
             row.name = keys[i].name
      PROVE  KeysGrow
  BY <1>1, <1>6
<1> HIDE DEF KeysGrow, UsageGrows
<1>7. ASSUME UNCHANGED keyedVars PROVE KeysGrow /\ UsageGrows
  BY <1>2, <1>3, <1>7 DEF keyedVars
<1>8. ASSUME NEW r \in Requests, Handle(r) PROVE KeysGrow /\ UsageGrows
  <2>1. UNCHANGED keys
    BY <1>8 DEF Handle, AuthenticateKey, AuthenticateSession, Authenticate, LookUp, CheckBudget,
                CheckScope, Serve, Fail
  <2>2. CASE \E c \in Charges : Serve(r, c)
    <3>1. PICK c \in Charges : Serve(r, c)
      BY <2>2
    <3>2. UNCHANGED usage \/ \E row : usage' = Append(usage, row)
      BY <3>1 DEF Serve, Usage
    <3>3. QED
      BY <1>2, <1>3, <1>5, <2>1, <3>2
  <2>3. CASE ~\E c \in Charges : Serve(r, c)
    <3>1. UNCHANGED usage
      BY <1>8, <2>3 DEF Handle, AuthenticateKey, AuthenticateSession, Authenticate, LookUp,
                        CheckBudget, CheckScope, Fail
    <3>2. QED
      BY <1>2, <1>3, <2>1, <3>1
  <2>4. QED
    BY <2>2, <2>3
<1>9. ASSUME Administer PROVE KeysGrow /\ UsageGrows
  <2>1. UNCHANGED usage
    BY <1>9 DEF Administer, IssueKey, UpdateKey, SetSuspended, RevokeKey, CreateSession,
                RevokeSession, PutSettings
  <2>2. ASSUME NEW k \in NewKeys, IssueKey(k) PROVE KeysGrow
    BY <1>4, <2>2 DEF IssueKey
  <2>3. ASSUME NEW i \in DOMAIN keys, NEW e \in KeyEdits, UpdateKey(i, e) PROVE KeysGrow
    <3>1. keys' = [keys EXCEPT ![i] = Updated(keys[i], e)]
      BY <2>3 DEF UpdateKey
    <3>2. keys[i] \in KeyRecord /\ "name" \notin DOMAIN e
      BY KeyedFacts, KeyedAssumption
    <3>3. Updated(keys[i], e).name = keys[i].name
      BY <3>2 DEF Updated, KeyRecord
    <3>4. QED
      BY <1>6, <3>1, <3>3
  <2>4. ASSUME NEW i \in DOMAIN keys, NEW on \in BOOLEAN, SetSuspended(i, on) PROVE KeysGrow
    <3>1. keys' = [keys EXCEPT ![i] = [keys[i] EXCEPT !.suspended = on]]
      BY <2>4 DEF SetSuspended
    <3>2. [keys[i] EXCEPT !.suspended = on].name = keys[i].name
      BY KeyedFacts DEF KeyRecord
    <3>3. QED
      BY <1>6, <3>1, <3>2
  <2>5. ASSUME NEW i \in DOMAIN keys, RevokeKey(i) PROVE KeysGrow
    <3>1. keys' = [keys EXCEPT ![i] = [keys[i] EXCEPT !.revoked = TRUE]]
      BY <2>5 DEF RevokeKey
    <3>2. [keys[i] EXCEPT !.revoked = TRUE].name = keys[i].name
      BY KeyedFacts DEF KeyRecord
    <3>3. QED
      BY <1>6, <3>1, <3>2
  <2>6. ASSUME UNCHANGED keys PROVE KeysGrow
    BY <1>2, <2>6
  <2>7. QED
    BY <1>3, <1>9, <2>1, <2>2, <2>3, <2>4, <2>5, <2>6
       DEF Administer, CreateSession, RevokeSession, PutSettings
<1>10. ASSUME ClockTicks \/ Restart PROVE KeysGrow /\ UsageGrows
  BY <1>2, <1>3, <1>10 DEF ClockTicks, Restart
<1>11. QED
  BY <1>7, <1>8, <1>9, <1>10 DEF KeyedNext, KeysGrow, UsageGrows

\* What the step of BlockLifts comes to.
LEMMA BlockStays ==
  ASSUME KeyedInv, KeyedInv', [KeyedNext]_keyedVars, NEW name \in Names,
         BlockedBy(keys, usage, clock, settings.zone, name),
         DayAt(clock', settings.zone) = DayAt(clock, settings.zone),
         settings'.zone = settings.zone,
         \A i \in DOMAIN keys : keys[i].name = name =>
           keys'[i].caps = keys[i].caps /\ keys'[i].revoked = keys[i].revoked
  PROVE  BlockedBy(keys', usage', clock', settings'.zone, name)
<1> DEFINE i == MetaOf(keys, name)
           zone == settings.zone
<1>1. /\ Len(keys) <= Len(keys') /\ \A j \in DOMAIN keys : keys'[j].name = keys[j].name
      /\ Len(usage) <= Len(usage') /\ \A j \in DOMAIN usage : usage'[j] = usage[j]
  BY TablesGrow
<1>2. /\ keys \in Seq(KeyRecord) /\ \A j \in DOMAIN keys : keys[j] \in KeyRecord
      /\ keys' \in Seq(KeyRecord)
  BY KeyedFacts DEF KeyedInv, KeyedTypes, KeyedTypeOK, KeyRecord
<1>3. usage \in Seq(Row) /\ usage' \in Seq(Row)
  <2>1. clock \in Nat /\ clock' \in Nat
    BY DEF KeyedInv, KeyedTypes
  <2>2. UsageRow \subseteq Row /\ UsageRow' \subseteq Row
    BY <2>1 DEF UsageRow, Row
  <2>3. usage \in Seq(UsageRow) /\ usage' \in Seq(UsageRow')
    BY DEF KeyedInv, KeyedTypes, KeyedTypeOK, UsageRow
  <2>4. QED
    BY <2>2, <2>3, SeqMonotonic
<1>4. i # 0
  BY DEF BlockedBy
<1>5. MetaOf(keys', name) = i
  BY <1>1, <1>2, <1>4, MetaStays
<1>6. HasName(keys, i, name)
  BY <1>2, <1>4, MetaIs
<1>7. keys'[i].caps = keys[i].caps /\ keys[i].caps \in Caps
  BY <1>2, <1>6 DEF HasName, KeyRecord
<1>8. \A n \in 1..4 :
        /\ UsedOf(usage, clock, zone, name, n) \in Nat /\ UsedOf(usage', clock', zone, name, n) \in Nat
        /\ UsedOf(usage, clock, zone, name, n) <= UsedOf(usage', clock', zone, name, n)
  <2> HIDE DEF zone, i
  <2>1. DayAt(clock', zone) = DayAt(clock, zone)
    BY DEF zone
  <2>2. \A j \in DOMAIN usage : usage'[j] = usage[j]
    BY <1>1
  <2>3. QED
    BY <1>1, <1>3, <2>1, <2>2, UsedGrows
<1>9. PICK n \in 1..4 : /\ keys[i].caps[n] > 0
                        /\ UsedOf(usage, clock, zone, name, n) >= keys[i].caps[n]
  BY DEF BlockedBy
<1>10. keys[i].caps[n] \in Int
  BY <1>7 DEF Caps
<1>11. UsedOf(usage', clock', zone, name, n) >= keys[i].caps[n]
  <2> HIDE DEF zone, i
  <2>1. QED
    BY <1>8, <1>9, <1>10
<1> HIDE DEF i
<1>12. QED
  BY <1>4, <1>5, <1>7, <1>9, <1>11 DEF BlockedBy

\* BlockLifts: what budgets.check blocks stays blocked through issuing keys,
\* suspending them, charging, revoking other names and restarting, until the
\* day of the zone changes or a key of that name is edited or revoked.
THEOREM BlocksLast == KeyedSpec => BlockLifts
<1> DEFINE Lifts ==
             \A name \in Names :
               Check(name).effect = "block" /\ Check(name)'.effect # "block" =>
                 \/ LocalDay(clock)' # LocalDay(clock)
                 \/ settings'.zone # settings.zone
                 \/ \E i \in DOMAIN keys :
                      /\ keys[i].name = name
                      /\ keys'[i].caps # keys[i].caps \/ keys'[i].revoked # keys[i].revoked
<1>1. ASSUME KeyedInv, KeyedInv', Blocks, Blocks', [KeyedNext]_keyedVars PROVE Lifts
  <2> SUFFICES ASSUME NEW name \in Names, Check(name).effect = "block",
                      LocalDay(clock)' = LocalDay(clock), settings'.zone = settings.zone,
                      ~\E i \in DOMAIN keys :
                         /\ keys[i].name = name
                         /\ keys'[i].caps # keys[i].caps \/ keys'[i].revoked # keys[i].revoked
               PROVE  Check(name)'.effect = "block"
    OBVIOUS
  <2>1. BlockedBy(keys, usage, clock, settings.zone, name)
    BY <1>1 DEF Blocks
  <2>2. DayAt(clock', settings.zone) = DayAt(clock, settings.zone)
    BY DEF LocalDay, DayAt
  <2>3. BlockedBy(keys', usage', clock', settings'.zone, name)
    BY <1>1, <2>1, <2>2, BlockStays
  <2>4. QED
    BY <1>1, <2>3 DEF Blocks
<1>2. KeyedInv /\ KeyedInv' /\ Blocks /\ Blocks' /\ [KeyedNext]_keyedVars => [Lifts]_keyedVars
  BY <1>1
<1>3. KeyedSpec => [][Lifts]_keyedVars
  BY <1>2, KeyedInvariance, BlocksHold, PTL DEF KeyedSpec
<1>4. QED
  BY <1>3 DEF BlockLifts

-----------------------------------------------------------------------------
(* Licensing.                                                              *)

\* A stored key was issued, an issued key and a heartbeat under way name a
\* license that has a row, and a row and the key on file say the same.  Without
\* the first two an answer could have no row to be made from.
RowInv ==
  /\ \A key \in issued : licenses[key.license] # None
  /\ \A i \in Installs : token[i] # None => token[i] \in issued
  /\ \A i \in Installs : beat[i] # None => licenses[beat[i].license] # None
  /\ \A s \in Subjects : licenses[s] # None =>
       /\ licenses[s].token.plan = licenses[s].plan
       /\ licenses[s].token.expires_at = licenses[s].expires_at

IInv == TypeOK /\ RowInv

USE LicensingAssumption, NoneAssumption

LEMMA InitInv == Init => IInv
  BY DEF Init, IInv, TypeOK, RowInv

\* Issuing a key keeps the vendor's tables in order.
LEMMA IssueKeeps ==
  ASSUME IInv, NEW s \in Subjects, NEW plan \in Plans, NEW days \in Int,
         Issue(s, plan, days), UNCHANGED <<now, signer, app, network, server_plan>>,
         logins' \subseteq Subjects, granted' = granted \cup {<<s, now + days>>}
  PROVE  IInv'
<1> DEFINE key == [license |-> s, plan |-> plan, expires_at |-> now + days,
                   signed_by |-> signer]
           row == [plan |-> plan, expires_at |-> now + days, revoked |-> FALSE,
                   token |-> key]
<1>1. /\ licenses' = [licenses EXCEPT ![s] = row]
      /\ issued' = issued \cup {key}
  BY DEF Issue
<1>2. key \in Key /\ row \in License
  BY DEF IInv, TypeOK, Key, License
<1>3. TypeOK'
  BY <1>1, <1>2 DEF IInv, TypeOK, app, network
<1>4. \A r \in Subjects : licenses'[r] = IF r = s THEN row ELSE licenses[r]
  BY <1>1 DEF IInv, TypeOK
<1>5. row # None
  BY <1>2
<1>6. /\ key.license = s
      /\ row.token.plan = row.plan /\ row.token.expires_at = row.expires_at
  OBVIOUS
<1>7. issued \subseteq Key /\ \A i \in Installs : beat[i] # None => beat[i].license \in Subjects
  BY DEF IInv, TypeOK, Key, Request, Answer
<1> HIDE DEF key, row
<1>8. \A k \in issued' : licenses'[k.license] # None
  BY <1>1, <1>4, <1>5, <1>6, <1>7 DEF IInv, RowInv, Key
<1>9. \A i \in Installs : token'[i] # None => token'[i] \in issued'
  BY <1>1 DEF IInv, RowInv, app
<1>10. \A i \in Installs : beat'[i] # None => licenses'[beat'[i].license] # None
  BY <1>4, <1>5, <1>7 DEF IInv, RowInv, network
<1>11. \A r \in Subjects : licenses'[r] # None =>
         /\ licenses'[r].token.plan = licenses'[r].plan
         /\ licenses'[r].token.expires_at = licenses'[r].expires_at
  BY <1>4, <1>6 DEF IInv, RowInv
<1> QED
  BY <1>3, <1>8, <1>9, <1>10, <1>11 DEF IInv, RowInv

\* Every step of the vendor keeps the invariant.
LEMMA VendorStep == IInv /\ Vendor => IInv'
<1> SUFFICES ASSUME IInv, Vendor PROVE IInv'
  OBVIOUS
<1>1. ASSUME NEW s \in Subjects, Onboard(s) PROVE IInv'
  <2>1. CASE licenses[s] = None
    BY <1>1, <2>1, IssueKeeps DEF Onboard, Plans, IInv, TypeOK
  <2>2. CASE licenses[s] # None
    BY <1>1, <2>2 DEF Onboard, IInv, TypeOK, RowInv, app, network
  <2> QED
    BY <2>1, <2>2
<1>2. ASSUME NEW s \in Subjects, OnboardCutOff(s) PROVE IInv'
  BY <1>2 DEF OnboardCutOff, IInv, TypeOK, RowInv, app, network
<1>3. ASSUME NEW s \in Subjects, Revoke(s) PROVE IInv'
  <2> DEFINE row == [licenses[s] EXCEPT !.revoked = TRUE]
  <2>1. licenses[s] \in License
    BY <1>3 DEF Revoke, IInv, TypeOK
  <2>2. /\ row \in License /\ row # None
        /\ row.plan = licenses[s].plan /\ row.expires_at = licenses[s].expires_at
        /\ row.token = licenses[s].token
    BY <2>1 DEF License
  <2>3. licenses' = [licenses EXCEPT ![s] = row]
    BY <1>3 DEF Revoke
  <2> HIDE DEF row
  <2>4. \A r \in Subjects : licenses'[r] = IF r = s THEN row ELSE licenses[r]
    BY <2>3 DEF IInv, TypeOK
  <2>5. TypeOK'
    BY <1>3, <2>2, <2>3 DEF Revoke, IInv, TypeOK, app, network
  <2>6. /\ \A key \in issued : key.license \in Subjects
        /\ \A i \in Installs : beat[i] # None => beat[i].license \in Subjects
    BY DEF IInv, TypeOK, Key, Request, Answer
  <2>7. UNCHANGED <<issued, token, beat>>
    BY <1>3 DEF Revoke, app, network
  <2>8. \A key \in issued' : licenses'[key.license] # None
    BY <2>2, <2>4, <2>6, <2>7 DEF IInv, RowInv
  <2>9. \A i \in Installs : token'[i] # None => token'[i] \in issued'
    BY <2>7 DEF IInv, RowInv
  <2>10. \A i \in Installs : beat'[i] # None => licenses'[beat'[i].license] # None
    BY <2>2, <2>4, <2>6, <2>7 DEF IInv, RowInv
  <2>11. \A r \in Subjects : licenses'[r] # None =>
          /\ licenses'[r].token.plan = licenses'[r].plan
          /\ licenses'[r].token.expires_at = licenses'[r].expires_at
    <3>1. licenses[s] # None
      BY <1>3 DEF Revoke
    <3> QED
      BY <3>1, <2>2, <2>4 DEF IInv, RowInv
  <2> QED
    BY <2>5, <2>8, <2>9, <2>10, <2>11 DEF IInv, RowInv
<1>4. ASSUME NEW s \in Subjects, NEW plan \in Plans, NEW days \in Days \cup {0},
             SetPlan(s, plan, days)
      PROVE  IInv'
  <2> DEFINE term == IF days # 0 THEN days
                     ELSE IF plan = "subscription" THEN SubscriptionDays ELSE TrialDays
  <2>1. term \in Int
    OBVIOUS
  <2>2. Issue(s, plan, term) /\ granted' = granted \cup {<<s, now + term>>}
    BY <1>4 DEF SetPlan
  <2>3. UNCHANGED <<now, signer, logins, app, network, server_plan>>
    BY <1>4 DEF SetPlan
  <2>4. logins' \subseteq Subjects
    BY <2>3 DEF IInv, TypeOK
  <2> HIDE DEF term
  <2> QED
    BY <2>1, <2>2, <2>3, <2>4, IssueKeeps
<1>5. ASSUME NEW k \in Signers, RotateSigner(k) PROVE IInv'
  BY <1>5 DEF RotateSigner, IInv, TypeOK, RowInv, app, network
<1>6. ASSUME NEW i \in Installs, Arrive(i) PROVE IInv'
  <2> DEFINE row == licenses[beat[i].license]
             answer == [license |-> beat[i].license, plan |-> row.plan,
                        revoked |-> row.revoked]
  <2>1. beat[i] \in Request
    BY <1>6 DEF Arrive
  <2>2. beat[i] # None
    BY <2>1
  <2>3. beat[i].license \in Subjects /\ row # None
    BY <2>1, <2>2 DEF IInv, RowInv, Request
  <2>4. row \in License
    BY <2>3 DEF IInv, TypeOK
  <2>5. answer \in Answer /\ answer.license = beat[i].license
    BY <2>3, <2>4 DEF License, Answer
  <2>6. beat' = [beat EXCEPT ![i] = answer] /\ installs' = [installs EXCEPT ![i] = beat[i]]
    BY <1>6 DEF Arrive
  <2> HIDE DEF answer
  <2>7. TypeOK'
    BY <1>6, <2>1, <2>5, <2>6 DEF Arrive, IInv, TypeOK, vendor, app
  <2>8. RowInv'
    BY <1>6, <2>3, <2>5, <2>6 DEF Arrive, IInv, TypeOK, RowInv, vendor, app
  <2> QED
    BY <2>7, <2>8 DEF IInv
<1> QED
  BY <1>1, <1>2, <1>3, <1>4, <1>5, <1>6 DEF Vendor

\* Every step of a deployment keeps the invariant.
LEMMA DeploymentStep ==
  ASSUME IInv, NEW i \in Installs, Deployment(i)
  PROVE  IInv'
<1>1. ASSUME NEW key \in issued, Activate(i, key) PROVE IInv'
  <2>1. key \in Key /\ key # None
    BY DEF IInv, TypeOK
  <2> QED
    BY <1>1, <2>1 DEF Activate, IInv, TypeOK, RowInv, vendor, network
<1>2. CASE SendHeartbeat(i)
  <2> DEFINE request == [license |-> token[i].license, plan |-> token[i].plan]
  <2>1. token[i] \in issued /\ token[i] \in Key
    BY <1>2 DEF SendHeartbeat, Licensed, IInv, TypeOK, RowInv
  <2>2. request \in Request /\ licenses[request.license] # None
    BY <2>1 DEF Key, Request, IInv, RowInv
  <2>3. beat' = [beat EXCEPT ![i] = request]
    BY <1>2 DEF SendHeartbeat
  <2> HIDE DEF request
  <2>4. TypeOK'
    BY <1>2, <2>2, <2>3 DEF SendHeartbeat, IInv, TypeOK, vendor, app
  <2>5. RowInv'
    BY <1>2, <2>2, <2>3 DEF SendHeartbeat, IInv, TypeOK, RowInv, vendor, app
  <2> QED
    BY <2>4, <2>5 DEF IInv
<1>3. CASE ReceiveReply(i)
  <2>1. beat[i].plan \in Plans
    BY <1>3 DEF ReceiveReply, Answer
  <2> QED
    BY <1>3, <2>1 DEF ReceiveReply, IInv, TypeOK, RowInv, vendor, app
<1>4. CASE HeartbeatFails(i)
  BY <1>4 DEF HeartbeatFails, IInv, TypeOK, RowInv, vendor, app
<1>5. CASE HeartbeatRefused(i)
  BY <1>5 DEF HeartbeatRefused, IInv, TypeOK, RowInv, vendor, app
<1>6. ASSUME NEW k \in Signers, Redeploy(i, k) PROVE IInv'
  BY <1>6 DEF Redeploy, IInv, TypeOK, RowInv, vendor
<1> QED
  BY <1>1, <1>2, <1>3, <1>4, <1>5, <1>6 DEF Deployment

LEMMA StepInv == IInv /\ [Next]_vars => IInv'
<1> SUFFICES ASSUME IInv, [Next]_vars PROVE IInv'
  OBVIOUS
<1>1. CASE Tick
  BY <1>1 DEF Tick, IInv, TypeOK, RowInv, vendor, app, network
<1>2. CASE UNCHANGED vars
  BY <1>2 DEF vars, IInv, TypeOK, RowInv, vendor, app, network
<1> QED
  BY <1>1, <1>2, VendorStep, DeploymentStep DEF Next

LEMMA AlwaysInv == Spec => []IInv
  BY InitInv, StepInv, PTL DEF Spec

\* The vendor's tables, the deployments' rows and the network keep their types:
\* in particular every answer is made from a row that exists.
THEOREM TypeCorrect == Spec => []TypeOK
<1>1. IInv => TypeOK
  BY DEF IInv
<1> QED
  BY <1>1, AlwaysInv, PTL

-----------------------------------------------------------------------------
\* The two implementations of the term and its grace agree, whatever the plan
\* and the terms: a deployment that holds the key on file is offline in the
\* state the vendor computes from its row.
THEOREM OfflineStateAgrees == Spec => []StatesAgree
<1>1. IInv => StatesAgree
  <2> SUFFICES ASSUME IInv, NEW i \in Installs, Licensed(i),
                      licenses[token[i].license].token = token[i]
               PROVE  State(i) = VendorState(licenses[token[i].license])
    BY DEF StatesAgree
  <2> DEFINE row == licenses[token[i].license]
  <2>1. token[i] \in issued /\ token[i] \in Key
    BY DEF Licensed, IInv, TypeOK, RowInv
  <2>2. token[i].license \in Subjects /\ row # None
    BY <2>1 DEF Key, IInv, RowInv
  <2>3. row \in License
    BY <2>2 DEF IInv, TypeOK
  <2>4. /\ row.plan = token[i].plan /\ row.expires_at = token[i].expires_at
        /\ row.plan \in Plans /\ row.expires_at \in Int
    BY <2>2, <2>3 DEF IInv, RowInv, License
  <2>5. now \in Int
    BY DEF IInv, TypeOK
  <2> HIDE DEF row
  <2>6. KeyState(token[i]) = VendorState(row)
    BY <2>4, <2>5 DEF KeyState, VendorState, Plans
  <2> QED
    BY <2>6 DEF State, row
<1> QED
  BY <1>1, AlwaysInv, PTL

-----------------------------------------------------------------------------
\* StopsHaveCause: no heartbeat that fails, is refused or answers for another
\* license, and no plan change, revocation or rotation at the vendor, stops a
\* deployment that serves (_license_gate): only time, its owner's next key or
\* a redeployment does.
THEOREM StopsAreCaused == Spec => StopsHaveCause
<1> DEFINE Caused(i) ==
      Serves(i) /\ ~Serves(i)'
        => \/ Tick
           \/ \E key \in issued : Activate(i, key)
           \/ \E k \in Signers : Redeploy(i, k)
           \/ /\ ReceiveReply(i)
              /\ beat[i].revoked /\ beat[i].license = token[i].license
<1>1. ASSUME NEW i \in Installs, UNCHANGED <<now, token[i], trusted[i]>>
      PROVE  Serves(i)' = Serves(i)
  BY <1>1 DEF Serves, State, Licensed, KeyState
<1>2. ASSUME IInv, [Next]_vars, NEW i \in Installs PROVE Caused(i)
  <2>1. CASE Vendor
    <3>1. UNCHANGED <<now, token, trusted>>
      BY <2>1 DEF Vendor, Onboard, OnboardCutOff, Revoke, SetPlan, RotateSigner, Arrive, app
    <3> QED
      BY <1>1, <3>1
  <2>2. ASSUME NEW j \in Installs, Deployment(j) PROVE Caused(i)
    <3>1. CASE \E key \in issued : Activate(j, key)
      <4>1. CASE j = i
        BY <3>1, <4>1
      <4>2. CASE j # i
        <5>1. UNCHANGED <<now, token[i], trusted[i]>>
          BY <3>1, <4>2, <1>2 DEF Activate, IInv, TypeOK
        <5> QED
          BY <1>1, <5>1
      <4> QED
        BY <4>1, <4>2
    <3>2. CASE \E k \in Signers : Redeploy(j, k)
      <4>1. CASE j = i
        BY <3>2, <4>1
      <4>2. CASE j # i
        <5>1. UNCHANGED <<now, token[i], trusted[i]>>
          BY <3>2, <4>2, <1>2 DEF Redeploy, IInv, TypeOK
        <5> QED
          BY <1>1, <5>1
      <4> QED
        BY <4>1, <4>2
    <3>3. CASE SendHeartbeat(j) \/ ReceiveReply(j) \/ HeartbeatFails(j)
                 \/ HeartbeatRefused(j)
      <4>1. UNCHANGED <<now, token, trusted>>
        BY <3>3 DEF SendHeartbeat, ReceiveReply, HeartbeatFails, HeartbeatRefused, app
      <4> QED
        BY <1>1, <4>1
    <3> QED
      BY <2>2, <3>1, <3>2, <3>3 DEF Deployment
  <2>3. CASE UNCHANGED vars
    <3>1. UNCHANGED <<now, token, trusted>>
      BY <2>3 DEF vars, app
    <3> QED
      BY <1>1, <3>1
  <2> QED
    BY <1>2, <2>1, <2>2, <2>3 DEF Next
<1>3. IInv /\ [Next]_vars => [\A i \in Installs : Caused(i)]_vars
  BY <1>2
<1> QED
  BY <1>3, AlwaysInv, PTL DEF Spec, StopsHaveCause

-----------------------------------------------------------------------------
\* Every key that leaves the vendor ends with a term granted by a first sign-in
\* or by an admin, however often the subject signs in.
THEOREM TrialsAreNotRenewed == Spec => []OneTrial
<1>1. Init => OneTrial
  BY DEF Init, OneTrial
<1>2. ASSUME OneTrial, NEW s, NEW plan, NEW days, Issue(s, plan, days),
             granted' = granted \cup {<<s, now + days>>}
      PROVE  OneTrial'
  <2> DEFINE key == [license |-> s, plan |-> plan, expires_at |-> now + days,
                     signed_by |-> signer]
  <2>1. issued' = issued \cup {key}
    BY <1>2 DEF Issue
  <2>2. key.license = s /\ key.expires_at = now + days
    OBVIOUS
  <2> HIDE DEF key
  <2> QED
    BY <1>2, <2>1, <2>2 DEF OneTrial
<1>3. ASSUME OneTrial, UNCHANGED <<issued, granted>> PROVE OneTrial'
  BY <1>3 DEF OneTrial
<1>4. OneTrial /\ [Next]_vars => OneTrial'
  <2> SUFFICES ASSUME OneTrial, [Next]_vars PROVE OneTrial'
    OBVIOUS
  <2>1. ASSUME NEW s \in Subjects, Onboard(s) PROVE OneTrial'
    <3>1. CASE licenses[s] = None
      BY <2>1, <3>1, <1>2 DEF Onboard
    <3>2. CASE licenses[s] # None
      BY <2>1, <3>2, <1>3 DEF Onboard
    <3> QED
      BY <3>1, <3>2
  <2>2. ASSUME NEW s \in Subjects, NEW plan \in Plans, NEW days \in Days \cup {0},
               SetPlan(s, plan, days)
        PROVE  OneTrial'
    BY <2>2, <1>2 DEF SetPlan
  <2>3. CASE \/ \E s \in Subjects : OnboardCutOff(s) \/ Revoke(s)
             \/ \E k \in Signers : RotateSigner(k)
             \/ \E i \in Installs : Arrive(i) \/ Deployment(i)
             \/ Tick \/ UNCHANGED vars
    <3>1. UNCHANGED <<issued, granted>>
      BY <2>3 DEF OnboardCutOff, Revoke, RotateSigner, Arrive, Deployment, Activate,
                  SendHeartbeat, ReceiveReply, HeartbeatFails, HeartbeatRefused,
                  Redeploy, Tick, vars, vendor
    <3> QED
      BY <3>1, <1>3
  <2> QED
    BY <2>1, <2>2, <2>3 DEF Next, Vendor
<1> QED
  BY <1>1, <1>4, PTL DEF Spec

\* onboard and set_plan: keys are well formed and carry granted terms only.
THEOREM KeysStaySound == Spec => []KeysSound
BY TypeCorrect, TrialsAreNotRenewed, PTL DEF KeysSound
=============================================================================
