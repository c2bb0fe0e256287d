------------------------- MODULE RouterEngineProofs -------------------------
(***************************************************************************)
(* Theorems about RouterEngine, for any jobs, backends, techniques,        *)
(* breaker settings and clock.  Every step but the clock, the registry and *)
(* a restart ends in End or TryNext, so each invariant is proved from a    *)
(* lemma about these two.                                                  *)
(***************************************************************************)
EXTENDS RouterEngine, Sums

-----------------------------------------------------------------------------
(* Types.                                                                  *)

\* The part of TypeOK that TryNext and End change.
JobType ==
  /\ pc \in [Jobs -> {"idle", "waiting", "done"}]
  /\ walk \in [Jobs -> Walk]
  /\ at \in [Jobs -> Backends \cup {None}]
  /\ outcome \in [Jobs -> Outcomes \cup {None}]
  /\ asked \in [Jobs -> SUBSET Backends]
  /\ attempts \in [Jobs -> Nat]
  /\ \A j \in Jobs : /\ Waiting(j) <=> at[j] \in Backends
                     /\ Waiting(j) <=> walk[j].left > 0

LEMMA FreshType ==
  ASSUME NEW n \in Nat, NEW A \in SUBSET Backends, NEW C \in SUBSET Backends
  PROVE  Fresh(n, A, C) \in Walk
BY DEF Fresh, Walk

LEMMA EndType ==
  ASSUME JobType, NEW j \in Jobs, NEW how \in Outcomes, NEW m \in SUBSET Backends,
         End(j, how, m), UNCHANGED <<asked, attempts>>
  PROVE  JobType'
<1> DEFINE rest == [Fresh(0, {}, {}) EXCEPT !.missed = m]
<1>1. rest \in Walk /\ rest.left = 0
  BY DEF Fresh, Walk
<1>2. walk' = [walk EXCEPT ![j] = rest]
  BY DEF End
<1> HIDE DEF rest
<1>3. pc' = [pc EXCEPT ![j] = "done"] /\ at' = [at EXCEPT ![j] = None]
      /\ outcome' = [outcome EXCEPT ![j] = how]
  BY DEF End
<1>4. ASSUME NEW k \in Jobs
      PROVE  (Waiting(k) <=> at[k] \in Backends)' /\ (Waiting(k) <=> walk[k].left > 0)'
  <2>1. CASE k = j
    BY <1>1, <1>2, <1>3, <2>1, EngineAssumption DEF JobType, Waiting
  <2>2. CASE k # j
    BY <1>2, <1>3, <2>2 DEF JobType, Waiting
  <2> QED
    BY <2>1, <2>2
<1>5. /\ pc' \in [Jobs -> {"idle", "waiting", "done"}]
      /\ walk' \in [Jobs -> Walk]
      /\ at' \in [Jobs -> Backends \cup {None}]
      /\ outcome' \in [Jobs -> Outcomes \cup {None}]
      /\ asked' \in [Jobs -> SUBSET Backends]
      /\ attempts' \in [Jobs -> Nat]
  BY <1>1, <1>2, <1>3 DEF JobType
<1> QED
  BY <1>4, <1>5 DEF JobType

LEMMA TryNextType ==
  ASSUME JobType, NEW j \in Jobs, NEW w \in Walk, w.left > 0, TryNext(j, w)
  PROVE  JobType'
<1> DEFINE usable    == {b \in w.ahead : ~IsOpen(breaker'[b])}
           Before(b) == {c \in w.ahead : Rank(plan'[j], c) < Rank(plan'[j], b)}
<1>1. CASE usable = {} /\ End(j, IF w.failed THEN "failed" ELSE "unavailable",
                              w.missed \cup w.ahead)
           /\ UNCHANGED <<asked, attempts>>
  <2>1. w.missed \cup w.ahead \in SUBSET Backends
    BY DEF Walk
  <2>2. (IF w.failed THEN "failed" ELSE "unavailable") \in Outcomes
    BY DEF Outcomes
  <2> QED
    BY <1>1, <2>1, <2>2, EndType
<1>2. ASSUME NEW b \in usable,
             pc' = [pc EXCEPT ![j] = "waiting"],
             at' = [at EXCEPT ![j] = b],
             walk' = [walk EXCEPT ![j] = [w EXCEPT !.ahead  = @ \ (Before(b) \cup {b}),
                                                   !.missed = @ \cup Before(b)]],
             asked' = [asked EXCEPT ![j] = @ \cup {b}],
             attempts' = [attempts EXCEPT ![j] = @ + 1],
             UNCHANGED outcome
      PROVE  JobType'
  <2> DEFINE next == [w EXCEPT !.ahead  = @ \ (Before(b) \cup {b}),
                               !.missed = @ \cup Before(b)]
  <2>1. b \in Backends /\ Before(b) \in SUBSET Backends
    BY DEF Walk
  <2>2. next \in Walk /\ next.left = w.left
    BY <2>1 DEF Walk
  <2>3. walk' = [walk EXCEPT ![j] = next]
    BY <1>2
  <2> HIDE DEF next, Before
  <2> QED
    BY <1>2, <2>1, <2>2, <2>3, EngineAssumption DEF JobType, Waiting
<1> QED
  BY <1>1, <1>2 DEF TryNext

\* The other part of TypeOK.
SharedType ==
  /\ now \in Nat
  /\ breaker \in [Backends -> Breaker]
  /\ eligible \in SUBSET Backends
  /\ cands \in [Jobs -> SUBSET Backends]
  /\ plan \in [Jobs -> Backends \cup {None}]
  /\ result \in [Jobs -> Backends \cup {None}]
  /\ calls \in [Jobs -> Nat]

LEMMA TypeParts == TypeOK <=> SharedType /\ JobType
BY DEF TypeOK, SharedType, JobType

LEMMA TypeInit == Init => TypeOK
<1> SUFFICES ASSUME Init PROVE TypeOK
  OBVIOUS
<1>1. Fresh(0, {}, {}) \in Walk /\ Fresh(0, {}, {}).left = 0
  BY DEF Fresh, Walk
<1> QED
  BY <1>1, EngineAssumption DEF Init, TypeOK, Breaker, Closed, Waiting

LEMMA TypeStep == TypeOK /\ [Next]_vars => TypeOK'
<1> SUFFICES ASSUME TypeOK, [Next]_vars PROVE SharedType' /\ JobType'
  BY TypeParts, PTL DEF TypeOK, SharedType, JobType
<1>0. SharedType /\ JobType
  BY TypeParts
<1> USE <1>0
<1>1. ASSUME NEW j \in Jobs, NoneEligible(j) PROVE SharedType' /\ JobType'
  <2>1. JobType'
    <3>1. "none eligible" \in Outcomes
      BY DEF Outcomes
    <3>2. End(j, "none eligible", {}) /\ UNCHANGED <<asked, attempts>>
      BY <1>1 DEF NoneEligible
    <3>3. {} \in SUBSET Backends
      OBVIOUS
    <3> QED
      BY <3>1, <3>2, <3>3, EndType, Zenon
  <2> QED
    BY <1>1, <2>1 DEF NoneEligible, SharedType
<1>2. ASSUME NEW j \in Jobs, NEW p \in Backends, NEW n \in Calls, Execute(j, p, n)
      PROVE  SharedType' /\ JobType'
  <2>1. n \in Nat /\ n > 0
    BY EngineAssumption
  <2>2. Fresh(n, {}, eligible) \in Walk /\ Fresh(n, {}, eligible).left = n
    BY <2>1, FreshType DEF SharedType, Fresh
  <2>3. JobType'
    BY <1>2, <2>1, <2>2, TryNextType DEF Execute
  <2> QED
    BY <1>2, <2>1, <2>3 DEF Execute, SharedType
<1>3. ASSUME NEW j \in Jobs, Succeed(j) PROVE SharedType' /\ JobType'
  <2>1. at[j] \in Backends /\ walk[j] \in Walk
    BY <1>3 DEF Succeed, JobType
  <2>2. breaker' \in [Backends -> Breaker]
    BY <1>3, <2>1 DEF Succeed, RecordSuccess, SharedType, Breaker, Closed
  <2>3. CASE /\ \E b \in walk[j].answers \cup {at[j]} : result' = [result EXCEPT ![j] = b]
             /\ End(j, "answered", {})
             /\ UNCHANGED <<asked, attempts>>
    <3>1. "answered" \in Outcomes
      BY DEF Outcomes
    <3>2. JobType'
      BY <2>3, <3>1, EndType
    <3> QED
      BY <1>3, <2>1, <2>2, <2>3, <3>2 DEF Succeed, SharedType, Walk
  <2>4. CASE /\ walk[j].left > 1
             /\ UNCHANGED result
             /\ TryNext(j, Fresh(walk[j].left - 1, walk[j].answers \cup {at[j]}, cands[j]))
    <3> DEFINE w == Fresh(walk[j].left - 1, walk[j].answers \cup {at[j]}, cands[j])
    <3>1. walk[j].left \in Nat /\ walk[j].answers \in SUBSET Backends
      BY <2>1 DEF Walk
    <3>2. w \in Walk
      BY <2>1, <2>4, <3>1, FreshType DEF SharedType
    <3>3. w.left > 0
      BY <2>4, <3>1 DEF Fresh
    <3>4. JobType'
      BY <2>4, <3>2, <3>3, TryNextType
    <3> QED
      BY <1>3, <2>2, <2>4, <3>4 DEF Succeed, SharedType
  <2> QED
    BY <1>3, <2>3, <2>4 DEF Succeed
<1>4. ASSUME NEW j \in Jobs, Fail(j) PROVE SharedType' /\ JobType'
  <2> DEFINE w == [walk[j] EXCEPT !.missed = @ \cup {at[j]}, !.failed = TRUE]
  <2>1. at[j] \in Backends /\ walk[j] \in Walk /\ walk[j].left > 0
    BY <1>4 DEF Fail, JobType
  <2>2. breaker' \in [Backends -> Breaker]
    <3>1. breaker[at[j]] \in Breaker /\ now + Cooldown \in Nat
      <4>1. breaker[at[j]] \in Breaker
        BY <2>1 DEF SharedType
      <4>2. now + Cooldown \in Nat
        BY EngineAssumption DEF SharedType
      <4> QED
        BY <4>1, <4>2
    <3>2. breaker[at[j]].consecutive + 1 \in Nat /\ breaker[at[j]].open_until \in Nat
      BY <3>1 DEF Breaker
    <3> QED
      BY <1>4, <2>1, <3>1, <3>2 DEF Fail, RecordFailure, SharedType, Breaker
  <2>3. w \in Walk /\ w.left = walk[j].left
    BY <2>1 DEF Walk
  <2>4. JobType'
    BY <1>4, <2>1, <2>3, TryNextType DEF Fail
  <2> QED
    BY <1>4, <2>2, <2>4 DEF Fail, SharedType
<1>5. ASSUME NEW j \in Jobs, Raise(j) PROVE SharedType' /\ JobType'
  <2>1. JobType'
    <3>1. "raised" \in Outcomes
      BY DEF Outcomes
    <3> QED
      BY <1>5, <3>1, EndType DEF Raise
  <2> QED
    BY <1>5, <2>1 DEF Raise, SharedType
<1>6. CASE Tick
  BY <1>6 DEF Tick, SharedType, JobType, job, Waiting
<1>7. CASE ChangeEligible
  BY <1>7 DEF ChangeEligible, SharedType, JobType, job, Waiting
<1>8. CASE Restart
  <2>1. Fresh(0, {}, {}) \in Walk /\ Fresh(0, {}, {}).left = 0
    BY DEF Fresh, Walk
  <2>2. JobType'
    <3>1. ASSUME NEW k \in Jobs
          PROVE  (Waiting(k) <=> at[k] \in Backends)' /\ (Waiting(k) <=> walk[k].left > 0)'
      BY <1>8, <2>1, EngineAssumption DEF Restart, JobType, Waiting
    <3>2. "lost" \in Outcomes
      BY DEF Outcomes
    <3>3. /\ pc' \in [Jobs -> {"idle", "waiting", "done"}]
          /\ walk' \in [Jobs -> Walk]
          /\ at' \in [Jobs -> Backends \cup {None}]
          /\ outcome' \in [Jobs -> Outcomes \cup {None}]
      BY <1>8, <2>1, <3>2 DEF Restart, JobType
    <3> QED
      BY <1>8, <3>1, <3>3 DEF JobType, Restart
  <2> QED
    BY <1>8, <2>2 DEF Restart, SharedType, Breaker, Closed
<1>9. CASE UNCHANGED vars
  BY <1>9 DEF vars, SharedType, JobType, job, Waiting
<1> QED
  BY <1>1, <1>2, <1>3, <1>4, <1>5, <1>6, <1>7, <1>8, <1>9 DEF Next, Progress

\* Every variable keeps its type, and a job waits exactly while it has a backend
\* to wait for and a call to finish.
THEOREM TypeCorrect == Spec => []TypeOK
BY TypeInit, TypeStep, PTL DEF Spec

-----------------------------------------------------------------------------
(* The breakers.                                                           *)

LEMMA BreakerStep == TypeOK /\ BreakerSane /\ [Next]_vars => BreakerSane'
<1> SUFFICES ASSUME TypeOK, BreakerSane, [Next]_vars PROVE BreakerSane'
  OBVIOUS
<1>0. now \in Nat /\ Cooldown \in Nat /\ breaker \in [Backends -> Breaker]
  BY EngineAssumption DEF TypeOK
<1>1. CASE now' \in Nat /\ now' >= now /\ breaker' = breaker
  <2> SUFFICES ASSUME NEW b \in Backends
               PROVE  /\ breaker[b].open_until <= now' + Cooldown
                      /\ breaker[b].open_until > 0 => breaker[b].consecutive >= FailThreshold
    BY <1>1 DEF BreakerSane
  <2>1. breaker[b].open_until \in Nat
    BY <1>0 DEF Breaker
  <2> QED
    BY <1>0, <1>1, <2>1 DEF BreakerSane
<1>2. ASSUME NEW j \in Jobs, Succeed(j) PROVE BreakerSane'
  <2>1. at[j] \in Backends
    BY <1>2 DEF Succeed, TypeOK
  <2> SUFFICES ASSUME NEW b \in Backends
               PROVE  /\ breaker'[b].open_until <= now + Cooldown
                      /\ breaker'[b].open_until > 0 => breaker'[b].consecutive >= FailThreshold
    BY <1>2 DEF Succeed, BreakerSane
  <2>2. CASE b = at[j]
    BY <1>0, <1>2, <2>2 DEF Succeed, RecordSuccess, Closed
  <2>3. CASE b # at[j]
    BY <1>0, <1>2, <2>1, <2>3 DEF Succeed, RecordSuccess, BreakerSane
  <2> QED
    BY <2>2, <2>3
<1>3. ASSUME NEW j \in Jobs, Fail(j) PROVE BreakerSane'
  <2>1. at[j] \in Backends
    BY <1>3 DEF Fail, TypeOK
  <2> SUFFICES ASSUME NEW b \in Backends
               PROVE  /\ breaker'[b].open_until <= now + Cooldown
                      /\ breaker'[b].open_until > 0 => breaker'[b].consecutive >= FailThreshold
    BY <1>3 DEF Fail, BreakerSane
  <2>2. breaker[b].consecutive \in Nat /\ breaker[b].open_until \in Nat
    BY <1>0 DEF Breaker
  <2>3. CASE b = at[j]
    <3> DEFINE n == breaker[b].consecutive + 1
    <3>1. breaker'[b] = [consecutive |-> n,
                         open_until  |-> IF n >= FailThreshold THEN now + Cooldown
                                         ELSE breaker[b].open_until]
      BY <1>0, <1>3, <2>3 DEF Fail, RecordFailure
    <3>2. FailThreshold \in Nat
      BY EngineAssumption
    <3> QED
      BY <1>0, <2>2, <3>1, <3>2 DEF BreakerSane
  <2>4. CASE b # at[j]
    BY <1>0, <1>3, <2>1, <2>4 DEF Fail, RecordFailure, BreakerSane
  <2> QED
    BY <2>3, <2>4
<1>4. CASE Restart
  BY <1>0, <1>4 DEF Restart, BreakerSane, Closed
<1>5. ASSUME ~ \E j \in Jobs : Succeed(j) \/ Fail(j), ~Restart
      PROVE  now' \in Nat /\ now' >= now /\ breaker' = breaker
  <2>1. ASSUME NEW j \in Jobs, NoneEligible(j) \/ Raise(j)
        PROVE  now' = now /\ breaker' = breaker
    BY <2>1 DEF NoneEligible, Raise
  <2>2. ASSUME NEW j \in Jobs, NEW p \in Backends, NEW n \in Calls, Execute(j, p, n)
        PROVE  now' = now /\ breaker' = breaker
    BY <2>2 DEF Execute
  <2>3. CASE Tick
    BY <1>0, <2>3 DEF Tick
  <2>4. CASE ChangeEligible \/ UNCHANGED vars
    BY <1>0, <2>4 DEF ChangeEligible, vars
  <2> QED
    BY <1>0, <1>5, <2>1, <2>2, <2>3, <2>4 DEF Next, Progress
<1> QED
  BY <1>1, <1>2, <1>3, <1>4, <1>5

\* However the answers of concurrent jobs interleave, a breaker is open only
\* after FailThreshold failures in a row, and for at most one cooldown from now:
\* no backend is shut out for good.
THEOREM BreakersStaySane == Spec => []BreakerSane
<1>1. Init => BreakerSane
  BY EngineAssumption DEF Init, BreakerSane, Closed
<1> QED
  BY <1>1, BreakerStep, TypeCorrect, PTL DEF Spec

-----------------------------------------------------------------------------
(* The order of failover.                                                  *)

\* A call at w, over the candidates C of a plan on p, has missed what it does
\* not have ahead, and nothing ahead comes before what it missed.
Ordered(p, C, w) ==
  /\ w.ahead \subseteq C
  /\ w.missed = C \ w.ahead
  /\ \A m \in w.missed, a \in w.ahead : Rank(p, m) < Rank(p, a)

\* The invariant that carries the failover properties: a job's outcome is set
\* once, and a job that waits has asked somebody.
OrderInv ==
  /\ \A j \in Jobs : Waiting(j) =>
       /\ at[j] \in cands[j]
       /\ walk[j].missed = {b \in cands[j] : Rank(plan[j], b) < Rank(plan[j], at[j])}
       /\ walk[j].ahead = cands[j] \ (walk[j].missed \cup {at[j]})
       /\ asked[j] # {}
  /\ \A j \in Jobs : pc[j] # "done" => outcome[j] = None
  /\ GivesUpOnlyAfterAll

\* What OrderInv says of one job.
OrderedJob(j) ==
  /\ Waiting(j) =>
       /\ at[j] \in cands[j]
       /\ walk[j].missed = {b \in cands[j] : Rank(plan[j], b) < Rank(plan[j], at[j])}
       /\ walk[j].ahead = cands[j] \ (walk[j].missed \cup {at[j]})
       /\ asked[j] # {}
  /\ pc[j] # "done" => outcome[j] = None
  /\ outcome[j] \in {"failed", "unavailable"} => walk[j].missed = cands[j]
  /\ outcome[j] = "failed" => asked[j] # {}

LEMMA OrderParts == OrderInv <=> \A j \in Jobs : OrderedJob(j)
BY DEF OrderInv, OrderedJob, GivesUpOnlyAfterAll

\* What OrderInv needs of a job is a matter of that job's variables alone.
LEMMA OrderFrame ==
  ASSUME NEW j \in Jobs, OrderedJob(j),
         pc'[j] = pc[j], cands'[j] = cands[j], plan'[j] = plan[j], walk'[j] = walk[j],
         at'[j] = at[j], outcome'[j] = outcome[j], asked'[j] = asked[j]
  PROVE  OrderedJob(j)'
BY DEF OrderedJob, Waiting

LEMMA EndOrder ==
  ASSUME TypeOK, NEW j \in Jobs, NEW how, NEW m, End(j, how, m),
         how \in {"failed", "unavailable"} => m = cands'[j],
         how = "failed" => asked'[j] # {}
  PROVE  OrderedJob(j)'
<1>1. pc'[j] = "done" /\ outcome'[j] = how
  BY DEF End, TypeOK
<1>2. walk'[j].missed = m
  BY DEF End, TypeOK, Fresh
<1> QED
  BY <1>1, <1>2 DEF OrderedJob, Waiting

LEMMA Positive ==
  ASSUME NEW b \in Backends
  PROVE  b \in Nat /\ b > 0
<1>1. Backends \subseteq Nat \ {0}
  BY EngineAssumption
<1> QED
  BY <1>1

\* Rank orders the backends: no two have one rank.
LEMMA RankOrders ==
  ASSUME NEW p, NEW b \in Backends, NEW c \in Backends
  PROVE  /\ Rank(p, c) \in Nat
         /\ Rank(p, c) < Rank(p, b) \/ Rank(p, b) < Rank(p, c) \/ c = b
<1>1. b \in Nat /\ b > 0 /\ c \in Nat /\ c > 0
  BY Positive
<1> QED
  BY <1>1 DEF Rank

LEMMA TryNextOrder ==
  ASSUME TypeOK, NEW j \in Jobs, NEW w \in Walk, TryNext(j, w),
         cands'[j] \in SUBSET Backends, Ordered(plan'[j], cands'[j], w),
         w.failed => asked[j] # {}, outcome[j] = None
  PROVE  OrderedJob(j)'
<1> DEFINE usable    == {b \in w.ahead : ~IsOpen(breaker'[b])}
           Before(b) == {c \in w.ahead : Rank(plan'[j], c) < Rank(plan'[j], b)}
<1>1. CASE usable = {} /\ End(j, IF w.failed THEN "failed" ELSE "unavailable",
                              w.missed \cup w.ahead)
           /\ UNCHANGED <<asked, attempts>>
  <2>1. w.missed \cup w.ahead = cands'[j]
    BY DEF Ordered
  <2> QED
    BY <1>1, <2>1, EndOrder
<1>2. ASSUME NEW b \in usable,
             pc' = [pc EXCEPT ![j] = "waiting"],
             at' = [at EXCEPT ![j] = b],
             walk' = [walk EXCEPT ![j] = [w EXCEPT !.ahead  = @ \ (Before(b) \cup {b}),
                                                   !.missed = @ \cup Before(b)]],
             asked' = [asked EXCEPT ![j] = @ \cup {b}],
             UNCHANGED outcome
      PROVE  OrderedJob(j)'
  <2> DEFINE C == cands'[j]
             R(c) == Rank(plan'[j], c)
  <2>1. pc'[j] = "waiting" /\ at'[j] = b /\ asked'[j] # {} /\ outcome'[j] = None
    BY <1>2 DEF TypeOK
  <2>2. /\ walk'[j].ahead = w.ahead \ (Before(b) \cup {b})
        /\ walk'[j].missed = w.missed \cup Before(b)
    BY <1>2 DEF TypeOK, Walk
  <2>3. b \in w.ahead /\ b \in C
    BY DEF Ordered
  <2>4. \A c \in C : R(c) \in Nat /\ (R(c) < R(b) \/ R(b) < R(c) \/ c = b)
    BY <2>3, RankOrders
  <2>5. w.missed \cup Before(b) = {c \in C : R(c) < R(b)}
    <3>1. ASSUME NEW c \in w.missed PROVE c \in C /\ R(c) < R(b)
      BY <2>3, <3>1 DEF Ordered
    <3>2. ASSUME NEW c \in C, R(c) < R(b) PROVE c \in w.missed \cup Before(b)
      BY <3>2 DEF Ordered
    <3> QED
      BY <3>1, <3>2 DEF Ordered
  <2>6. w.ahead \ (Before(b) \cup {b}) = C \ ((w.missed \cup Before(b)) \cup {b})
    BY DEF Ordered
  <2> QED
    BY <2>1, <2>2, <2>3, <2>5, <2>6, EngineAssumption DEF OrderedJob, Waiting, Outcomes
<1> QED
  BY <1>1, <1>2 DEF TryNext

LEMMA FreshOrdered ==
  ASSUME NEW p, NEW C, NEW n, NEW A
  PROVE  Ordered(p, C, Fresh(n, A, C))
BY DEF Ordered, Fresh

LEMMA OrderInit == Init => OrderInv
<1> SUFFICES ASSUME Init, NEW j \in Jobs PROVE OrderedJob(j)
  BY OrderParts
<1> QED
  BY EngineAssumption DEF Init, OrderedJob, Waiting, Outcomes

\* A step of one job leaves the others' variables alone.
LEMMA OthersUntouched ==
  ASSUME TypeOK, NEW j \in Jobs,
         \/ NoneEligible(j) \/ Progress(j)
         \/ \E p \in Backends, n \in Calls : Execute(j, p, n),
         NEW k \in Jobs, k # j
  PROVE  /\ pc'[k] = pc[k] /\ cands'[k] = cands[k] /\ plan'[k] = plan[k]
         /\ walk'[k] = walk[k] /\ at'[k] = at[k] /\ outcome'[k] = outcome[k]
         /\ asked'[k] = asked[k] /\ attempts'[k] = attempts[k] /\ calls'[k] = calls[k]
<1>1. ASSUME NEW w, TryNext(j, w)
      PROVE  /\ pc'[k] = pc[k] /\ walk'[k] = walk[k] /\ at'[k] = at[k]
             /\ outcome'[k] = outcome[k] /\ asked'[k] = asked[k]
             /\ attempts'[k] = attempts[k]
  BY <1>1 DEF TryNext, End, TypeOK
<1>2. ASSUME NEW how, NEW m, End(j, how, m)
      PROVE  pc'[k] = pc[k] /\ walk'[k] = walk[k] /\ at'[k] = at[k] /\ outcome'[k] = outcome[k]
  BY <1>2 DEF End, TypeOK
<1>3. CASE NoneEligible(j)
  BY <1>2, <1>3 DEF NoneEligible
<1>4. CASE \E p \in Backends, n \in Calls : Execute(j, p, n)
  BY <1>1, <1>4 DEF Execute, TypeOK
<1>5. CASE Succeed(j)
  <2>1. CASE \E w : TryNext(j, w)
    BY <1>1, <1>5, <2>1 DEF Succeed
  <2>2. CASE End(j, "answered", {}) /\ UNCHANGED <<asked, attempts>>
    BY <1>2, <1>5, <2>2 DEF Succeed
  <2> QED
    BY <1>5, <2>1, <2>2 DEF Succeed
<1>6. CASE Fail(j)
  BY <1>1, <1>6 DEF Fail
<1>7. CASE Raise(j)
  BY <1>2, <1>7 DEF Raise
<1> QED
  BY <1>3, <1>4, <1>5, <1>6, <1>7 DEF Progress

LEMMA OrderStep == TypeOK /\ OrderInv /\ [Next]_vars => OrderInv'
<1> SUFFICES ASSUME TypeOK, OrderInv, [Next]_vars, NEW k \in Jobs PROVE OrderedJob(k)'
  BY OrderParts DEF OrderInv, OrderedJob, GivesUpOnlyAfterAll
<1>0. /\ \A j \in Jobs : OrderedJob(j)
      /\ cands \in [Jobs -> SUBSET Backends]
      /\ walk \in [Jobs -> Walk]
      /\ at \in [Jobs -> Backends \cup {None}]
      /\ eligible \in SUBSET Backends
  BY OrderParts DEF TypeOK
<1> USE <1>0
<1>1. ASSUME NoneEligible(k) PROVE OrderedJob(k)'
  <2>1. End(k, "none eligible", {})
    BY <1>1 DEF NoneEligible
  <2> QED
    BY <2>1, EndOrder, Zenon
<1>2. ASSUME NEW p \in Backends, NEW n \in Calls, Execute(k, p, n) PROVE OrderedJob(k)'
  <2> DEFINE w == Fresh(n, {}, eligible)
  <2>1. TryNext(k, w) /\ cands'[k] = eligible /\ outcome[k] = None
    BY <1>2 DEF Execute, OrderedJob
  <2>2. w \in Walk /\ ~w.failed
    <3>1. n \in Nat
      BY EngineAssumption
    <3> QED
      BY <3>1, FreshType DEF Fresh
  <2>3. Ordered(plan'[k], cands'[k], w)
    BY <2>1, FreshOrdered
  <2> QED
    BY <2>1, <2>2, <2>3, TryNextOrder
<1>3. ASSUME Succeed(k) PROVE OrderedJob(k)'
  <2>1. CASE End(k, "answered", {})
    BY <2>1, EndOrder, Zenon
  <2>2. CASE /\ walk[k].left > 1
             /\ TryNext(k, Fresh(walk[k].left - 1, walk[k].answers \cup {at[k]}, cands[k]))
    <3> DEFINE w == Fresh(walk[k].left - 1, walk[k].answers \cup {at[k]}, cands[k])
    <3>1. cands' = cands /\ outcome[k] = None /\ at[k] \in Backends
      BY <1>3 DEF Succeed, OrderedJob, Waiting, TypeOK
    <3>2. w \in Walk /\ ~w.failed
      <4>1. walk[k].left - 1 \in Nat /\ walk[k].answers \in SUBSET Backends
        BY <2>2 DEF Walk
      <4> QED
        BY <3>1, <4>1, FreshType DEF Fresh
    <3>3. Ordered(plan'[k], cands'[k], w)
      BY <3>1, FreshOrdered
    <3> QED
      BY <2>2, <3>1, <3>2, <3>3, TryNextOrder
  <2> QED
    BY <1>3, <2>1, <2>2 DEF Succeed
<1>4. ASSUME Fail(k) PROVE OrderedJob(k)'
  <2> DEFINE w == [walk[k] EXCEPT !.missed = @ \cup {at[k]}, !.failed = TRUE]
             R(b) == Rank(plan[k], b)
  <2>1. /\ cands' = cands /\ plan' = plan /\ outcome[k] = None
        /\ asked[k] # {} /\ at[k] \in cands[k]
    BY <1>4 DEF Fail, OrderedJob, Waiting
  <2>2. /\ walk[k].missed = {b \in cands[k] : R(b) < R(at[k])}
        /\ walk[k].ahead = cands[k] \ (walk[k].missed \cup {at[k]})
    BY <1>4 DEF Fail, OrderedJob
  <2>3. /\ w \in Walk
        /\ w.missed = walk[k].missed \cup {at[k]} /\ w.ahead = walk[k].ahead
    BY <2>1 DEF Walk
  <2>4. \A b \in w.missed, a \in w.ahead : R(b) < R(a)
    <3> SUFFICES ASSUME NEW b \in w.missed, NEW a \in w.ahead PROVE R(b) < R(a)
      OBVIOUS
    <3>1. a \in Backends /\ b \in Backends /\ at[k] \in Backends /\ a # at[k]
      BY <2>1, <2>2, <2>3
    <3>2. R(a) \in Nat /\ R(b) \in Nat /\ R(at[k]) \in Nat
      BY <3>1, RankOrders
    <3>3. R(at[k]) < R(a)
      BY <2>2, <2>3, <3>1, RankOrders
    <3>4. b = at[k] \/ R(b) < R(at[k])
      BY <2>2, <2>3
    <3> HIDE DEF R
    <3> QED
      BY <3>2, <3>3, <3>4
  <2>5. Ordered(plan'[k], cands'[k], w)
    <3>1. w.missed = cands[k] \ w.ahead /\ w.ahead \subseteq cands[k]
      BY <2>1, <2>2, <2>3
    <3> QED
      BY <2>1, <2>4, <3>1 DEF Ordered
  <2>6. TryNext(k, w)
    BY <1>4 DEF Fail
  <2> HIDE DEF w
  <2> QED
    BY <2>1, <2>3, <2>5, <2>6, TryNextOrder
<1>5. ASSUME Raise(k) PROVE OrderedJob(k)'
  <2>1. End(k, "raised", {})
    BY <1>5 DEF Raise
  <2> QED
    BY <2>1, EndOrder, Zenon
<1>6. ASSUME NEW j \in Jobs, k # j,
             \/ NoneEligible(j) \/ Progress(j)
             \/ \E p \in Backends, n \in Calls : Execute(j, p, n)
      PROVE  OrderedJob(k)'
  BY <1>6, OthersUntouched, OrderFrame
<1>7. CASE Tick \/ ChangeEligible \/ UNCHANGED vars
  <2>1. UNCHANGED job
    BY <1>7 DEF Tick, ChangeEligible, vars
  <2> QED
    BY <2>1, OrderFrame DEF job
<1>8. CASE Restart
  <2>1. CASE Waiting(k)
    BY <1>8, <2>1 DEF Restart, OrderedJob, Waiting
  <2>2. CASE ~Waiting(k)
    BY <1>8, <2>2 DEF Restart, OrderedJob, Waiting
  <2> QED
    BY <2>1, <2>2
<1> QED
  BY <1>1, <1>2, <1>3, <1>4, <1>5, <1>6, <1>7, <1>8 DEF Next, Progress

LEMMA OrderAlways == Spec => []OrderInv
BY OrderInit, OrderStep, TypeCorrect, PTL DEF Spec

\* A call that waits for a backend has failed on, or skipped, exactly the
\* candidates before it: an answer that fell over never did so without a reason.
THEOREM FailoverWalksInOrder == Spec => []WalksInOrder
<1>1. TypeOK /\ OrderInv => WalksInOrder
  <2> SUFFICES ASSUME TypeOK, OrderInv, NEW j \in Jobs, Waiting(j)
               PROVE  walk[j].missed = IF at[j] = plan[j] THEN {}
                                       ELSE {b \in cands[j] : b = plan[j] \/ b < at[j]}
    BY DEF WalksInOrder, OrderInv
  <2>1. /\ walk[j].missed = {b \in cands[j] : Rank(plan[j], b) < Rank(plan[j], at[j])}
        /\ at[j] \in cands[j] /\ cands[j] \subseteq Backends
    BY DEF OrderInv, TypeOK
  <2>2. \A b \in cands[j] : b \in Nat /\ b > 0
    <3> SUFFICES ASSUME NEW b \in cands[j] PROVE b \in Nat /\ b > 0
      OBVIOUS
    <3>1. b \in Backends
      BY <2>1
    <3> QED
      BY <3>1, Positive
  <2> QED
    BY <2>1, <2>2 DEF Rank
<1> QED
  BY <1>1, TypeCorrect, OrderAlways, PTL

\* The engine gives up only when every candidate has failed or is shut out.
THEOREM GivesUpAfterAll == Spec => []GivesUpOnlyAfterAll
BY OrderAlways, PTL DEF OrderInv

-----------------------------------------------------------------------------
(* The number of prompts.                                                  *)

\* The prompts a job may still send: the candidates its call has not reached,
\* and every candidate for each call it has not begun.
StillToAsk(j) ==
  IF Waiting(j)
  THEN Cardinality(walk[j].ahead) + (walk[j].left - 1) * Cardinality(cands[j])
  ELSE 0

\* What is sent and what may still be sent keep within the bound.
BoundJob(j) ==
  /\ pc[j] = "idle" => attempts[j] = 0
  /\ attempts[j] + StillToAsk(j) <= calls[j] * Cardinality(cands[j])

BoundInv == \A j \in Jobs : BoundJob(j)

\* Sets of backends have sizes, smaller ones smaller.
LEMMA BackendSets ==
  ASSUME NEW C \in SUBSET Backends
  PROVE  /\ IsFiniteSet(C) /\ Cardinality(C) \in Nat
         /\ \A S \in SUBSET C : /\ Cardinality(S) \in Nat
                                /\ Cardinality(S) <= Cardinality(C)
         /\ \A b \in C : \A S \in SUBSET (C \ {b}) : Cardinality(S) + 1 <= Cardinality(C)
<1>1. IsFiniteSet(C) /\ Cardinality(C) \in Nat
  BY FS_Subset, FS_CardinalityType, EngineAssumption
<1>2. ASSUME NEW S \in SUBSET C
      PROVE  Cardinality(S) \in Nat /\ Cardinality(S) <= Cardinality(C)
  BY <1>1, FS_Subset, FS_CardinalityType
<1>3. ASSUME NEW b \in C, NEW S \in SUBSET (C \ {b})
      PROVE  Cardinality(S) + 1 <= Cardinality(C)
  <2>1. IsFiniteSet(C \ {b}) /\ Cardinality(C \ {b}) = Cardinality(C) - 1
    BY <1>1, OneLess
  <2>2. Cardinality(S) \in Nat /\ Cardinality(S) <= Cardinality(C \ {b})
    BY <1>2, <2>1, FS_Subset
  <2> QED
    BY <1>1, <2>1, <2>2
<1> QED
  BY <1>1, <1>2, <1>3

\* n calls over d candidates: one call and n - 1 more.
LEMMA OneCallLess ==
  ASSUME NEW n \in Nat, n > 0, NEW d \in Nat
  PROVE  /\ n * d \in Nat /\ (n - 1) * d \in Nat
         /\ n * d = d + (n - 1) * d
<1> DEFINE m == n - 1
<1>1. m \in Nat /\ n = m + 1
  OBVIOUS
<1> HIDE DEF m
<1>2. m * d \in Nat /\ (m + 1) * d = m * d + d
  BY <1>1, Times
<1>3. m = n - 1
  BY DEF m
<1> QED
  BY <1>1, <1>2, <1>3

LEMMA BoundFrame ==
  ASSUME NEW j \in Jobs, BoundJob(j),
         pc'[j] = pc[j], cands'[j] = cands[j], walk'[j] = walk[j],
         attempts'[j] = attempts[j], calls'[j] = calls[j]
  PROVE  BoundJob(j)'
BY DEF BoundJob, StillToAsk, Waiting

\* A job that ends sends nothing more.
LEMMA EndBound ==
  ASSUME TypeOK, NEW j \in Jobs, pc'[j] = "done", attempts'[j] = attempts[j],
         attempts[j] <= calls'[j] * Cardinality(cands'[j])
  PROVE  BoundJob(j)'
<1>1. attempts[j] + 0 = attempts[j]
  BY DEF TypeOK
<1> QED
  BY <1>1 DEF BoundJob, StillToAsk, Waiting

\* A job that asks one of the candidates ahead of w has one fewer to ask.
LEMMA TryNextBound ==
  ASSUME TypeOK, NEW j \in Jobs, NEW w \in Walk, w.left > 0, TryNext(j, w),
         cands'[j] \in SUBSET Backends, w.ahead \subseteq cands'[j], calls'[j] \in Nat,
         attempts[j] + (Cardinality(w.ahead) + (w.left - 1) * Cardinality(cands'[j]))
           <= calls'[j] * Cardinality(cands'[j])
  PROVE  BoundJob(j)'
<1> DEFINE Before(b) == {c \in w.ahead : Rank(plan'[j], c) < Rank(plan'[j], b)}
           rest  == (w.left - 1) * Cardinality(cands'[j])
           bound == calls'[j] * Cardinality(cands'[j])
<1>1. /\ Cardinality(w.ahead) \in Nat /\ attempts[j] \in Nat /\ bound \in Nat /\ rest \in Nat
  <2>1. Cardinality(w.ahead) \in Nat /\ Cardinality(cands'[j]) \in Nat
    BY BackendSets
  <2>2. w.left \in Nat
    BY DEF Walk
  <2> QED
    BY <2>1, <2>2, OneCallLess, Times DEF TypeOK
<1>2. CASE pc' = [pc EXCEPT ![j] = "done"] /\ UNCHANGED <<asked, attempts>>
  <2>1. attempts[j] <= bound
    <3> HIDE DEF rest, bound
    <3> QED
      BY <1>1 DEF rest, bound
  <2>2. pc'[j] = "done" /\ attempts'[j] = attempts[j]
    BY <1>2 DEF TypeOK
  <2> QED
    BY <2>1, <2>2, EndBound
<1>3. ASSUME NEW b \in w.ahead,
             pc' = [pc EXCEPT ![j] = "waiting"],
             walk' = [walk EXCEPT ![j] = [w EXCEPT !.ahead  = @ \ (Before(b) \cup {b}),
                                                   !.missed = @ \cup Before(b)]],
             attempts' = [attempts EXCEPT ![j] = @ + 1]
      PROVE  BoundJob(j)'
  <2>1. pc'[j] = "waiting" /\ attempts'[j] = attempts[j] + 1
    BY <1>3 DEF TypeOK
  <2>2. walk'[j].ahead = w.ahead \ (Before(b) \cup {b}) /\ walk'[j].left = w.left
    BY <1>3 DEF TypeOK, Walk
  <2>3. /\ Cardinality(walk'[j].ahead) \in Nat
        /\ Cardinality(walk'[j].ahead) + 1 <= Cardinality(w.ahead)
    <3>1. w.ahead \in SUBSET Backends
      OBVIOUS
    <3>2. walk'[j].ahead \in SUBSET (w.ahead \ {b}) /\ walk'[j].ahead \in SUBSET w.ahead
      BY <2>2
    <3> QED
      BY <3>1, <3>2, BackendSets
  <2>4. (attempts[j] + 1) + (Cardinality(walk'[j].ahead) + rest) <= bound
    <3> HIDE DEF rest, bound
    <3>1. attempts[j] + (Cardinality(w.ahead) + rest) <= bound
      BY DEF rest, bound
    <3> QED
      BY <1>1, <2>3, <3>1
  <2> QED
    BY <2>1, <2>2, <2>4 DEF BoundJob, StillToAsk, Waiting
<1> QED
  BY <1>2, <1>3 DEF TryNext, End

LEMMA BoundInit == Init => BoundInv
<1> SUFFICES ASSUME Init, NEW j \in Jobs PROVE BoundJob(j)
  BY DEF BoundInv
<1>1. 0 * Cardinality(cands[j]) = 0
  BY FS_EmptySet DEF Init
<1> QED
  BY <1>1 DEF Init, BoundJob, StillToAsk, Waiting

LEMMA BoundStep == TypeOK /\ OrderInv /\ BoundInv /\ [Next]_vars => BoundInv'
<1> SUFFICES ASSUME TypeOK, OrderInv, BoundInv, [Next]_vars, NEW k \in Jobs
             PROVE  BoundJob(k)'
  BY DEF BoundInv
<1> DEFINE d == Cardinality(cands[k])
<1>0. /\ BoundJob(k)
      /\ cands \in [Jobs -> SUBSET Backends] /\ cands[k] \in SUBSET Backends
      /\ calls \in [Jobs -> Nat] /\ calls[k] \in Nat
      /\ attempts[k] \in Nat /\ d \in Nat /\ calls[k] * d \in Nat
      /\ walk[k] \in Walk
      /\ walk[k].left \in Nat /\ walk[k].ahead \in SUBSET Backends
      /\ walk[k].answers \in SUBSET Backends
      /\ at \in [Jobs -> Backends \cup {None}]
      /\ Waiting(k) => at[k] \in Backends /\ walk[k].left > 0
      /\ Waiting(k) => walk[k].ahead \subseteq cands[k]
      /\ eligible \in SUBSET Backends
  BY BackendSets, Times DEF TypeOK, BoundInv, OrderInv, Walk
<1>1. attempts[k] <= calls[k] * d
  <2>1. CASE Waiting(k)
    <3> DEFINE rest == (walk[k].left - 1) * d
               a    == Cardinality(walk[k].ahead)
    <3>1. rest \in Nat /\ a \in Nat
      BY <1>0, <2>1, OneCallLess, BackendSets
    <3>2. attempts[k] + (a + rest) <= calls[k] * d
      BY <1>0, <2>1 DEF BoundJob, StillToAsk
    <3> HIDE DEF rest, a, d
    <3> QED
      BY <1>0, <3>1, <3>2
  <2>2. CASE ~Waiting(k)
    <3> HIDE DEF d
    <3>1. attempts[k] + 0 <= calls[k] * d
      BY <1>0, <2>2 DEF BoundJob, StillToAsk, d
    <3> QED
      BY <1>0, <3>1
  <2> QED
    BY <2>1, <2>2
<1>2. ASSUME NEW how, NEW m, End(k, how, m), UNCHANGED <<cands, calls, attempts>>
      PROVE  BoundJob(k)'
  <2>1. pc'[k] = "done"
    BY <1>2 DEF End, TypeOK
  <2> QED
    BY <1>1, <1>2, <2>1, EndBound
<1>3. CASE NoneEligible(k) \/ Raise(k)
  BY <1>2, <1>3 DEF NoneEligible, Raise
<1>4. ASSUME NEW p \in Backends, NEW n \in Calls, Execute(k, p, n) PROVE BoundJob(k)'
  <2> DEFINE w == Fresh(n, {}, eligible)
             e == Cardinality(eligible)
  <2>1. n \in Nat /\ n > 0
    BY EngineAssumption
  <2>2. w \in Walk /\ w.left = n /\ w.ahead = eligible
    BY <1>0, <2>1, FreshType DEF Fresh
  <2>3. TryNext(k, w) /\ cands'[k] = eligible /\ calls'[k] = n /\ attempts[k] = 0
    BY <1>0, <1>4 DEF Execute, BoundJob
  <2>4. e \in Nat
    BY <1>0, BackendSets
  <2>5. n * e = e + (n - 1) * e /\ n * e \in Nat /\ (n - 1) * e \in Nat
    BY <2>1, <2>4, OneCallLess
  <2>6. attempts[k] + (Cardinality(w.ahead) + (w.left - 1) * Cardinality(cands'[k]))
          <= calls'[k] * Cardinality(cands'[k])
    <3>1. 0 + (e + (n - 1) * e) <= n * e
      <4> DEFINE x == n * e
                 y == (n - 1) * e
      <4>1. x = e + y /\ x \in Nat /\ y \in Nat
        BY <2>5
      <4> HIDE DEF x, y, e
      <4>2. 0 + (e + y) <= x
        BY <2>4, <4>1
      <4> QED
        BY <4>2 DEF x, y
    <3> QED
      BY <2>2, <2>3, <3>1
  <2> HIDE DEF w
  <2> QED
    BY <1>0, <2>1, <2>2, <2>3, <2>6, TryNextBound
<1>5. ASSUME Succeed(k) PROVE BoundJob(k)'
  <2>1. CASE End(k, "answered", {}) /\ UNCHANGED <<asked, attempts>>
    BY <1>2, <1>5, <2>1 DEF Succeed
  <2>2. CASE /\ walk[k].left > 1
             /\ TryNext(k, Fresh(walk[k].left - 1, walk[k].answers \cup {at[k]}, cands[k]))
    <3> DEFINE n == walk[k].left - 1
               w == Fresh(n, walk[k].answers \cup {at[k]}, cands[k])
               a == Cardinality(walk[k].ahead)
    <3>1. cands' = cands /\ calls' = calls /\ at[k] \in Backends /\ Waiting(k)
      BY <1>0, <1>5 DEF Succeed
    <3>2. n \in Nat /\ n > 0 /\ a \in Nat
      BY <1>0, <2>2, BackendSets
    <3>3. w \in Walk /\ w.left = n /\ w.ahead = cands[k]
      BY <1>0, <3>1, <3>2, FreshType DEF Fresh
    <3>4. n * d = d + (n - 1) * d /\ n * d \in Nat /\ (n - 1) * d \in Nat
      BY <1>0, <3>2, OneCallLess
    <3>5. attempts[k] + (a + n * d) <= calls[k] * d
      BY <1>0, <3>1 DEF BoundJob, StillToAsk
    <3>6. attempts[k] + (d + (n - 1) * d) <= calls[k] * d
      <4> DEFINE x == n * d
                 y == (n - 1) * d
                 z == calls[k] * d
      <4>1. x = d + y /\ attempts[k] + (a + x) <= z /\ x \in Nat /\ y \in Nat /\ z \in Nat
        BY <1>0, <3>4, <3>5
      <4> HIDE DEF x, y, z, a, d
      <4>2. attempts[k] + (d + y) <= z
        BY <1>0, <3>2, <4>1
      <4> QED
        BY <4>2 DEF y, z
    <3>7. TryNext(k, w)
      BY <2>2
    <3> HIDE DEF w, n
    <3> QED
      BY <1>0, <3>1, <3>2, <3>3, <3>6, <3>7, TryNextBound
  <2> QED
    BY <1>5, <2>1, <2>2 DEF Succeed
<1>6. ASSUME Fail(k) PROVE BoundJob(k)'
  <2> DEFINE w == [walk[k] EXCEPT !.missed = @ \cup {at[k]}, !.failed = TRUE]
  <2>1. /\ cands' = cands /\ calls' = calls /\ at[k] \in Backends /\ Waiting(k)
        /\ TryNext(k, w)
    BY <1>0, <1>6 DEF Fail
  <2>2. w \in Walk /\ w.left = walk[k].left /\ w.ahead = walk[k].ahead
    BY <1>0, <2>1 DEF Walk
  <2>3. attempts[k] + (Cardinality(w.ahead) + (w.left - 1) * Cardinality(cands'[k]))
          <= calls'[k] * Cardinality(cands'[k])
    BY <1>0, <2>1, <2>2 DEF BoundJob, StillToAsk
  <2> HIDE DEF w
  <2> QED
    BY <1>0, <2>1, <2>2, <2>3, TryNextBound
<1>7. ASSUME NEW j \in Jobs, k # j,
             \/ NoneEligible(j) \/ Progress(j)
             \/ \E p \in Backends, n \in Calls : Execute(j, p, n)
      PROVE  BoundJob(k)'
  BY <1>0, <1>7, OthersUntouched, BoundFrame
<1>8. CASE Tick \/ ChangeEligible \/ UNCHANGED vars
  <2>1. UNCHANGED job
    BY <1>8 DEF Tick, ChangeEligible, vars
  <2> QED
    BY <1>0, <2>1, BoundFrame DEF job
<1>9. CASE Restart
  <2>1. UNCHANGED <<cands, calls, attempts>>
    BY <1>9 DEF Restart
  <2>2. CASE Waiting(k)
    <3>1. pc'[k] = "done"
      BY <1>9, <2>2 DEF Restart
    <3> QED
      BY <1>1, <2>1, <3>1, EndBound
  <2>3. CASE ~Waiting(k)
    <3>1. pc'[k] = pc[k] /\ walk'[k] = walk[k]
      BY <1>9, <2>3 DEF Restart
    <3> QED
      BY <1>0, <2>1, <3>1, BoundFrame
  <2> QED
    BY <2>2, <2>3
<1> QED
  BY <1>3, <1>4, <1>5, <1>6, <1>7, <1>8, <1>9 DEF Next, Progress

\* A technique of n calls sends at most n prompts per candidate, however often
\* backends fail under it: failover never asks one twice for a call.
THEOREM AttemptsAreBounded == Spec => []AttemptBound
<1>1. Spec => []BoundInv
  BY BoundInit, BoundStep, TypeCorrect, OrderAlways, PTL DEF Spec
<1>2. TypeOK /\ BoundInv => AttemptBound
  <2> SUFFICES ASSUME TypeOK, BoundInv, NEW j \in Jobs
               PROVE  attempts[j] <= calls[j] * Cardinality(cands[j])
    BY DEF AttemptBound
  <2>1. /\ attempts[j] \in Nat /\ calls[j] \in Nat /\ cands[j] \in SUBSET Backends
        /\ walk[j] \in Walk /\ (Waiting(j) => walk[j].left > 0)
    BY DEF TypeOK
  <2>2. StillToAsk(j) \in Nat
    <3>1. Cardinality(walk[j].ahead) \in Nat /\ Cardinality(cands[j]) \in Nat
      BY <2>1, BackendSets DEF Walk
    <3> QED
      BY <2>1, <3>1, OneCallLess DEF StillToAsk, Walk
  <2>3. calls[j] * Cardinality(cands[j]) \in Nat
    BY <2>1, BackendSets, Times
  <2> QED
    BY <2>1, <2>2, <2>3 DEF BoundInv, BoundJob
<1> QED
  BY <1>1, <1>2, TypeCorrect, PTL

-----------------------------------------------------------------------------
(* RouterEngine implements Inference.                                      *)

\* What ties the two together: a job that has not started has no candidates
\* and asked nobody; one that waits has asked the backend it waits for and those
\* that answered, and what it may still ask are candidates.
PromiseJob(j) ==
  /\ pc[j] = "idle" => cands[j] = {} /\ asked[j] = {}
  /\ Waiting(j) => /\ {at[j]} \cup walk[j].answers \subseteq asked[j]
                   /\ walk[j].ahead \subseteq cands[j]

PromiseInv == \A j \in Jobs : PromiseJob(j)

LEMMA PromiseInit == Init => PromiseInv
BY DEF Init, PromiseInv, PromiseJob, Waiting

\* After TryNext from a fitting walk the job fits again.
LEMMA TryNextPromise ==
  ASSUME TypeOK, NEW j \in Jobs, NEW w \in Walk, TryNext(j, w),
         w.answers \subseteq asked[j], w.ahead \subseteq cands'[j]
  PROVE  PromiseJob(j)'
<1> DEFINE usable    == {b \in w.ahead : ~IsOpen(breaker'[b])}
           Before(b) == {c \in w.ahead : Rank(plan'[j], c) < Rank(plan'[j], b)}
<1>1. CASE pc' = [pc EXCEPT ![j] = "done"]
  BY <1>1 DEF TypeOK, PromiseJob, Waiting
<1>2. ASSUME NEW b \in usable,
             pc' = [pc EXCEPT ![j] = "waiting"],
             at' = [at EXCEPT ![j] = b],
             walk' = [walk EXCEPT ![j] = [w EXCEPT !.ahead  = @ \ (Before(b) \cup {b}),
                                                   !.missed = @ \cup Before(b)]],
             asked' = [asked EXCEPT ![j] = @ \cup {b}]
      PROVE  PromiseJob(j)'
  <2>1. pc'[j] = "waiting" /\ at'[j] = b /\ asked'[j] = asked[j] \cup {b}
    BY <1>2 DEF TypeOK
  <2>2. /\ walk'[j].ahead = w.ahead \ (Before(b) \cup {b})
        /\ walk'[j].answers = w.answers
    BY <1>2 DEF TypeOK, Walk
  <2> QED
    BY <2>1, <2>2 DEF PromiseJob, Waiting
<1> QED
  BY <1>1, <1>2 DEF TryNext, End

LEMMA PromiseFrame ==
  ASSUME NEW j \in Jobs, PromiseJob(j),
         pc'[j] = pc[j], cands'[j] = cands[j], walk'[j] = walk[j],
         at'[j] = at[j], asked'[j] = asked[j]
  PROVE  PromiseJob(j)'
BY DEF PromiseJob, Waiting

\* The walk that each way into TryNext starts from fits.
LEMMA FreshFits ==
  ASSUME NEW n, NEW A, NEW C
  PROVE  Fresh(n, A, C).answers = A /\ Fresh(n, A, C).ahead = C
BY DEF Fresh

LEMMA PromiseStep == TypeOK /\ PromiseInv /\ [Next]_vars => PromiseInv'
<1> SUFFICES ASSUME TypeOK, PromiseInv, [Next]_vars, NEW k \in Jobs PROVE PromiseJob(k)'
  BY DEF PromiseInv
<1>0. /\ PromiseJob(k)
      /\ cands \in [Jobs -> SUBSET Backends]
      /\ walk \in [Jobs -> Walk]
      /\ at \in [Jobs -> Backends \cup {None}]
      /\ pc \in [Jobs -> {"idle", "waiting", "done"}]
      /\ eligible \in SUBSET Backends
  BY DEF TypeOK, PromiseInv
<1> USE <1>0
<1>1. ASSUME NEW how, NEW m, End(k, how, m) PROVE PromiseJob(k)'
  BY <1>1 DEF End, PromiseJob, Waiting
<1>2. CASE NoneEligible(k) \/ Raise(k)
  BY <1>1, <1>2 DEF NoneEligible, Raise
<1>3. ASSUME NEW p \in Backends, NEW n \in Calls, Execute(k, p, n) PROVE PromiseJob(k)'
  <2>1. TryNext(k, Fresh(n, {}, eligible)) /\ cands'[k] = eligible
    BY <1>3 DEF Execute
  <2>2. Fresh(n, {}, eligible) \in Walk
    <3>1. n \in Nat
      BY EngineAssumption
    <3> QED
      BY <3>1, FreshType
  <2> QED
    BY <2>1, <2>2, FreshFits, TryNextPromise
<1>4. ASSUME Succeed(k) PROVE PromiseJob(k)'
  <2>1. CASE End(k, "answered", {})
    BY <1>1, <2>1
  <2>2. CASE /\ walk[k].left > 1
             /\ TryNext(k, Fresh(walk[k].left - 1, walk[k].answers \cup {at[k]}, cands[k]))
    <3> DEFINE w == Fresh(walk[k].left - 1, walk[k].answers \cup {at[k]}, cands[k])
    <3>1. /\ cands' = cands /\ at[k] \in Backends
          /\ walk[k].answers \cup {at[k]} \subseteq asked[k]
      BY <1>4 DEF Succeed, PromiseJob, Waiting, TypeOK
    <3>2. w \in Walk
      <4>1. walk[k].left - 1 \in Nat /\ walk[k].answers \in SUBSET Backends
        BY <2>2 DEF Walk
      <4> QED
        BY <3>1, <4>1, FreshType
    <3>3. w.answers \subseteq asked[k] /\ w.ahead \subseteq cands'[k]
      BY <3>1, FreshFits
    <3> HIDE DEF w
    <3>4. TryNext(k, w)
      BY <2>2 DEF w
    <3> QED
      BY <3>2, <3>3, <3>4, TryNextPromise
  <2> QED
    BY <1>4, <2>1, <2>2 DEF Succeed
<1>5. ASSUME Fail(k) PROVE PromiseJob(k)'
  <2> DEFINE w == [walk[k] EXCEPT !.missed = @ \cup {at[k]}, !.failed = TRUE]
  <2>1. /\ cands' = cands /\ at[k] \in Backends
        /\ walk[k].answers \subseteq asked[k] /\ walk[k].ahead \subseteq cands[k]
    BY <1>5 DEF Fail, PromiseJob, Waiting, TypeOK
  <2>2. w \in Walk /\ w.answers = walk[k].answers /\ w.ahead = walk[k].ahead
    BY <2>1 DEF Walk
  <2>3. TryNext(k, w)
    BY <1>5 DEF Fail
  <2> HIDE DEF w
  <2> QED
    BY <2>1, <2>2, <2>3, TryNextPromise
<1>6. ASSUME NEW j \in Jobs, k # j,
             \/ NoneEligible(j) \/ Progress(j)
             \/ \E p \in Backends, n \in Calls : Execute(j, p, n)
      PROVE  PromiseJob(k)'
  BY <1>6, OthersUntouched, PromiseFrame
<1>7. CASE Tick \/ ChangeEligible \/ UNCHANGED vars
  <2>1. UNCHANGED job
    BY <1>7 DEF Tick, ChangeEligible, vars
  <2> QED
    BY <2>1, PromiseFrame DEF job
<1>8. CASE Restart
  <2>1. CASE Waiting(k)
    BY <1>8, <2>1 DEF Restart, PromiseJob, Waiting
  <2>2. CASE ~Waiting(k)
    BY <1>8, <2>2 DEF Restart, PromiseJob, Waiting
  <2> QED
    BY <2>1, <2>2
<1> QED
  BY <1>2, <1>3, <1>4, <1>5, <1>6, <1>7, <1>8 DEF Next, Progress

\* A job's variables in Inference.
Phase == [j \in Jobs |-> IF Waiting(j) THEN "running" ELSE pc[j]]

\* A step that ends one job, or some jobs that wait, without an answer.
LEMMA GivesUp ==
  ASSUME NEW J \in SUBSET {j \in Jobs : pc[j] = "waiting"},
         pc \in [Jobs -> {"idle", "waiting", "done"}],
         pc' = [j \in Jobs |-> IF j \in J THEN "done" ELSE pc[j]],
         UNCHANGED <<cands, asked, result>>
  PROVE  Promised!GiveUp
<1>1. J \in SUBSET {j \in Jobs : Phase[j] = "running"}
  BY DEF Phase, Waiting
<1>2. Phase' = [j \in Jobs |-> IF j \in J THEN "done" ELSE Phase[j]]
  BY DEF Phase, Waiting
<1> QED
  BY <1>1, <1>2 DEF Promised!GiveUp, Phase

\* Each way TryNext leaves a running job is an Ask or a GiveUp of Inference.
LEMMA TryNextKeepsPromise ==
  ASSUME TypeOK, NEW j \in Jobs, Waiting(j), NEW w, TryNext(j, w),
         w.ahead \subseteq cands[j], UNCHANGED <<cands, result>>
  PROVE  Promised!Ask(j) \/ Promised!GiveUp
<1>1. CASE pc' = [pc EXCEPT ![j] = "done"] /\ UNCHANGED <<asked, attempts>>
  <2>1. pc' = [k \in Jobs |-> IF k \in {j} THEN "done" ELSE pc[k]]
    BY <1>1 DEF TypeOK
  <2>2. {j} \in SUBSET {k \in Jobs : pc[k] = "waiting"}
    BY DEF Waiting
  <2> QED
    BY <1>1, <2>1, <2>2, GivesUp DEF TypeOK
<1>2. ASSUME NEW b \in w.ahead,
             pc' = [pc EXCEPT ![j] = "waiting"],
             asked' = [asked EXCEPT ![j] = @ \cup {b}]
      PROVE  Promised!Ask(j)
  <2>1. pc' = pc
    BY <1>2 DEF TypeOK, Waiting
  <2>2. Phase' = Phase /\ Phase[j] = "running"
    BY <2>1 DEF Phase, Waiting
  <2> QED
    BY <1>2, <2>2 DEF Promised!Ask, Phase
<1> QED
  BY <1>1, <1>2 DEF TryNext, End

LEMMA PromiseStepMaps ==
  TypeOK /\ PromiseInv /\ [Next]_vars => [Promised!Next]_(Promised!vars)
<1> SUFFICES ASSUME TypeOK, PromiseInv, [Next]_vars
             PROVE  Promised!Next \/ UNCHANGED <<Phase, cands, asked, result>>
  BY DEF Promised!vars, Phase
<1>0. /\ pc \in [Jobs -> {"idle", "waiting", "done"}]
      /\ cands \in [Jobs -> SUBSET Backends]
      /\ asked \in [Jobs -> SUBSET Backends]
      /\ result \in [Jobs -> Backends \cup {None}]
      /\ \A j \in Jobs : PromiseJob(j)
      /\ eligible \in SUBSET Backends
  BY DEF TypeOK, PromiseInv
<1>1. ASSUME NEW j \in Jobs, NoneEligible(j) PROVE Promised!Next
  <2>1. /\ Phase[j] = "idle" /\ cands[j] = {}
        /\ Phase' = [Phase EXCEPT ![j] = "done"]
    BY <1>0, <1>1 DEF NoneEligible, End, Phase, Waiting, PromiseJob
  <2>2. cands' = [cands EXCEPT ![j] = {}] /\ UNCHANGED <<asked, result>>
    BY <1>0, <1>1, <2>1 DEF NoneEligible
  <2>3. Promised!Start(j)
    BY <2>1, <2>2 DEF Promised!Start, Phase
  <2> QED
    BY <2>3 DEF Promised!Next
<1>2. ASSUME NEW j \in Jobs, NEW p \in Backends, NEW n \in Calls, Execute(j, p, n)
      PROVE  Promised!Next
  <2>1. /\ Phase[j] = "idle" /\ asked[j] = {}
        /\ cands' = [cands EXCEPT ![j] = eligible] /\ result' = result
        /\ TryNext(j, Fresh(n, {}, eligible))
    BY <1>0, <1>2 DEF Execute, Phase, Waiting, PromiseJob
  <2>2. Fresh(n, {}, eligible).ahead = eligible
    BY DEF Fresh
  <2>3. CASE pc' = [pc EXCEPT ![j] = "done"] /\ UNCHANGED <<asked, attempts>>
    <3>1. Phase' = [Phase EXCEPT ![j] = "done"]
      BY <1>0, <2>3 DEF Phase, Waiting
    <3>2. Promised!Start(j)
      BY <1>0, <2>1, <2>3, <3>1 DEF Promised!Start, Phase
    <3> QED
      BY <3>2 DEF Promised!Next
  <2>4. ASSUME NEW b \in eligible,
               pc' = [pc EXCEPT ![j] = "waiting"],
               asked' = [asked EXCEPT ![j] = @ \cup {b}]
        PROVE  Promised!Next
    <3>1. Phase' = [Phase EXCEPT ![j] = "running"]
      BY <1>0, <2>4 DEF Phase, Waiting
    <3>2. asked' = [asked EXCEPT ![j] = {b}]
      BY <1>0, <2>1, <2>4
    <3>3. Promised!Start(j)
      BY <1>0, <2>1, <3>1, <3>2 DEF Promised!Start, Phase
    <3> QED
      BY <3>3 DEF Promised!Next
  <2> QED
    BY <2>1, <2>2, <2>3, <2>4 DEF TryNext, End
<1>3. ASSUME NEW j \in Jobs, Succeed(j) PROVE Promised!Next
  <2>1. Waiting(j) /\ UNCHANGED cands /\ pc[j] = "waiting"
    BY <1>3 DEF Succeed, Waiting
  <2>2. ASSUME NEW b \in walk[j].answers \cup {at[j]},
               result' = [result EXCEPT ![j] = b],
               End(j, "answered", {}), UNCHANGED <<asked, attempts>>
        PROVE  Promised!Next
    <3>1. b \in asked[j]
      BY <1>0, <2>1 DEF PromiseJob
    <3>2. Phase[j] = "running" /\ Phase' = [Phase EXCEPT ![j] = "done"]
      BY <1>0, <2>1, <2>2 DEF End, Phase, Waiting
    <3>3. Promised!Answer(j)
      BY <2>1, <2>2, <3>1, <3>2 DEF Promised!Answer, Phase
    <3> QED
      BY <3>3 DEF Promised!Next
  <2>3. CASE /\ UNCHANGED result
             /\ TryNext(j, Fresh(walk[j].left - 1, walk[j].answers \cup {at[j]}, cands[j]))
    <3> DEFINE w == Fresh(walk[j].left - 1, walk[j].answers \cup {at[j]}, cands[j])
    <3>1. w.ahead = cands[j]
      BY FreshFits
    <3>2. Promised!Ask(j) \/ Promised!GiveUp
      BY <2>1, <2>3, <3>1, TryNextKeepsPromise
    <3> QED
      BY <3>2 DEF Promised!Next
  <2> QED
    BY <1>3, <2>2, <2>3 DEF Succeed
<1>4. ASSUME NEW j \in Jobs, Fail(j) PROVE Promised!Next
  <2> DEFINE w == [walk[j] EXCEPT !.missed = @ \cup {at[j]}, !.failed = TRUE]
  <2>1. Waiting(j) /\ UNCHANGED <<cands, result>> /\ TryNext(j, w)
    BY <1>4 DEF Fail
  <2>2. w.ahead \subseteq cands[j]
    <3>1. walk[j] \in Walk
      BY DEF TypeOK
    <3>2. w.ahead = walk[j].ahead
      BY <3>1 DEF Walk
    <3> QED
      BY <1>0, <2>1, <3>2 DEF PromiseJob
  <2> HIDE DEF w
  <2>3. Promised!Ask(j) \/ Promised!GiveUp
    BY <2>1, <2>2, TryNextKeepsPromise
  <2> QED
    BY <2>3 DEF Promised!Next
<1>5. ASSUME NEW j \in Jobs, Raise(j) PROVE Promised!Next
  <2>1. pc' = [k \in Jobs |-> IF k \in {j} THEN "done" ELSE pc[k]]
        /\ UNCHANGED <<cands, asked, result>>
    BY <1>0, <1>5 DEF Raise, End
  <2>2. {j} \in SUBSET {k \in Jobs : pc[k] = "waiting"}
    BY <1>5 DEF Raise, Waiting
  <2>3. Promised!GiveUp
    BY <1>0, <2>1, <2>2, GivesUp
  <2> QED
    BY <2>3 DEF Promised!Next
<1>6. CASE Tick \/ ChangeEligible \/ UNCHANGED vars
  BY <1>6 DEF Tick, ChangeEligible, vars, job, Phase, Waiting
<1>7. CASE Restart
  <2> DEFINE J == {k \in Jobs : pc[k] = "waiting"}
  <2>1. pc' = [k \in Jobs |-> IF k \in J THEN "done" ELSE pc[k]]
        /\ UNCHANGED <<cands, asked, result>>
    BY <1>0, <1>7 DEF Restart, Waiting
  <2>2. Promised!GiveUp
    BY <1>0, <2>1, GivesUp
  <2> QED
    BY <2>2 DEF Promised!Next
<1> QED
  BY <1>1, <1>2, <1>3, <1>4, <1>5, <1>6, <1>7 DEF Next, Progress

\* Whatever technique, failovers and breakers do, and whatever changes in the
\* registry or in Sovereign Mode meanwhile, a request's prompts go to backends of
\* the set fixed when it started, and its answer comes from one of those asked.
THEOREM EngineKeepsPromise == Spec => Promise
<1>1. Init => Promised!Init
  BY DEF Init, Promised!Init, Waiting
<1>2. Spec => []PromiseInv
  BY PromiseInit, PromiseStep, TypeCorrect, PTL DEF Spec
<1> QED
  BY <1>1, <1>2, PromiseStepMaps, TypeCorrect, PTL DEF Spec, Promise, Promised!Spec

\* execute and its breakers: types, breakers, the order of the walk and its end.
THEOREM EngineStaysSound == Spec => []EngineSound
BY TypeCorrect, BreakersStaySane, FailoverWalksInOrder, GivesUpAfterAll, PTL DEF EngineSound
=============================================================================
