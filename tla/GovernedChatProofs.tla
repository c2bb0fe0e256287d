------------------------- MODULE GovernedChatProofs -------------------------
(***************************************************************************)
(* Proofs about GovernedChat: what the gateway and the pipeline promise of *)
(* every request, for every number of requests, keys and backends.         *)
(*                                                                         *)
(* Inv is inductive.  Its parts follow a request (Lifecycle), what was     *)
(* decided when it was routed (Governed), what the limits count            *)
(* (RateCounted, SpendCounted: what is spent already and what the requests *)
(* in flight may still spend), and the cache (CacheKept).                  *)
(***************************************************************************)
EXTENDS GovernedChat, Sums

-----------------------------------------------------------------------------
(* The inductive invariant.                                                *)

\* A request is decided and has an outcome only when it has ended, and a prompt
\* is out only while it is in flight.
Lifecycle ==
  \A r \in Requests :
    /\ pc[r] = "inferring" => kind[r] \in Kinds /\ route[r] \in Route /\ ~kind[r].injection
    /\ pc[r] # "inferring" => sent[r] = {} /\ sealed[r] = {}
    /\ pc[r] # "done" => outcome[r] = None /\ decisions[r] = 0
    /\ pc[r] = "done" => outcome[r] \in Outcomes
    /\ outcome[r] = "served" => answer[r] \in Backends

\* What the first segment decided of a request in flight.
GovernedOne(k, was, inside, all) ==
  /\ inside \subseteq all /\ all \subseteq was.candidates
  /\ k.sensitive /\ was.approved # {} => was.candidates \subseteq was.approved
  /\ was.sovereign => was.candidates \cap Outside \subseteq was.egress
  /\ was.sovereign /\ k.backend = AutoModel => was.candidates \cap Outside = {}
  /\ k.backend # AutoModel => was.candidates = {k.backend}

Governed ==
  \A r \in Requests :
    pc[r] = "inferring" => GovernedOne(kind[r], route[r], sealed[r], sent[r])

Answered == {r \in recent : outcome[r] \in {"served", "hit"}}

\* Each request in flight may still add one answer to the hour.
RateCounted ==
  /\ IsFiniteSet(InFlight) /\ Cardinality(InFlight) <= peak
  /\ IsFiniteSet(recent)
  /\ MaxCalls > 0 =>
       Cardinality(Answered) + Cardinality(InFlight) <= MaxCalls - 1 + peak

Waiting(key) == {r \in InFlight : kind[r].key = key}

\* Each request in flight may still spend one answer of its key.
SpendCounted ==
  /\ IsFiniteSet(today)
  /\ SpendCap > 0 =>
       \A key \in Keys :
         Spend(key) + Cardinality(Waiting(key)) * Dearest <= SpendCap - 1 + peak * Dearest

\* A request that may be cached is in flight because the cache did not have it.
CacheKept ==
  /\ CacheClean /\ HitNamesProducer
  /\ peak <= 1 => \A r \in InFlight :
                    Cacheable(kind[r]) => cache[CacheKey(kind[r])] = None

Inv ==
  /\ TypeOK /\ Lifecycle /\ AuditedOnce /\ ChargedExactly
  /\ Governed /\ RateCounted /\ SpendCounted /\ CacheKept

-----------------------------------------------------------------------------
(* The shapes of the steps of a request.                                   *)

\* The handler ends before a prompt was sent.
TurnedAway(r, k, how) ==
  /\ pc[r] = "new" /\ how \in {"rejected", "refused", "hit", "error"} /\ End(r, how)
  /\ kind' = [kind EXCEPT ![r] = k]
  /\ \/ AddDecision(r) /\ how # "rejected"
     \/ UNCHANGED audit /\ how \in {"rejected", "error"}
  /\ agent_usage' \in [Agents -> 0..AgentCap]
  /\ peak' \in Nat /\ peak <= peak'
  /\ how = "hit" => ~RateLimited /\ Cardinality(InFlight) < peak'
  /\ UNCHANGED <<admin, key_usage, today, cache, answer>>

\* The handler ends after inference.
Concluded(r, how) ==
  /\ pc[r] = "inferring" /\ how \in {"served", "failed", "refused", "aborted"}
  /\ End(r, how)
  /\ AddDecision(r) \/ (UNCHANGED audit /\ how = "aborted")
  /\ LET row == IF how = "served" /\ kind[r].key # None THEN {r} ELSE {}
     IN key_usage' = key_usage \cup row /\ today' = today \cup row
  /\ \/ UNCHANGED <<answer, cache>> /\ how # "served"
     \/ /\ how \in {"served", "aborted"}
        /\ \E b \in sent[r] : answer' = [answer EXCEPT ![r] = b] /\ Store(r, b)
  /\ UNCHANGED <<admin, agent_usage, kind, peak>>

\* Only the administrator's settings change.
Reconfigured ==
  /\ licensed' \in BOOLEAN /\ sovereign' \in BOOLEAN
  /\ approved' \subseteq Backends /\ egress' \subseteq Outside
  /\ UNCHANGED <<audit, usage, cache, request>>

\* An admission is counted in peak.
LEMMA PeakGrows ==
  ASSUME TypeOK, IsFiniteSet(InFlight), NEW r \in Requests, NEW k \in Kinds, Admit(r, k)
  PROVE  /\ peak' \in Nat /\ peak <= peak' /\ Cardinality(InFlight) < peak'
         /\ agent_usage' \in [Agents -> 0..AgentCap]
<1>1. peak' \in Nat /\ peak <= peak' /\ Cardinality(InFlight) < peak'
  BY FS_CardinalityType DEF Admit, TypeOK
<1>2. agent_usage' \in [Agents -> 0..AgentCap]
  BY ChatAssumption DEF Admit, CountAgent, Admitted, AgentSpent, TypeOK, Kind
<1>3. QED
  BY <1>1, <1>2

\* What an audited end leaves, its failing writes included.
LEMMA DecideEnds ==
  ASSUME NEW r \in Requests, NEW how, Decide(r, how)
  PROVE  LET raised == IF pc[r] = "inferring" THEN "aborted" ELSE "error" IN
         \/ End(r, how) /\ AddDecision(r)
         \/ End(r, raised) /\ (AddDecision(r) \/ UNCHANGED audit)
BY DEF Decide, Raise

\* The first segment turns a request away or sends its prompt.
LEMMA SubmitShape ==
  ASSUME TypeOK, IsFiniteSet(InFlight), NEW r \in Requests, NEW k \in Kinds, Submit(r, k)
  PROVE  StartInference(r, k) \/ \E how \in Outcomes : TurnedAway(r, k, how)
<1> USE DEF Arrive, admin, TurnedAway
<1>1. CASE RejectAtGate(r, k)
  <2>1. TurnedAway(r, k, "rejected")
    BY <1>1 DEF RejectAtGate, TypeOK, audit
  <2>2. QED
    BY <2>1 DEF Outcomes
<1>2. CASE RefuseAtGateway(r, k)
  <2>1. TurnedAway(r, k, "refused") \/ TurnedAway(r, k, "error")
    BY <1>2, DecideEnds DEF RefuseAtGateway, TypeOK, audit
  <2>2. QED
    BY <2>1 DEF Outcomes
<1>3. CASE RefuseInPipeline(r, k)
  <2>1. TurnedAway(r, k, "refused") \/ TurnedAway(r, k, "error")
    BY <1>3, DecideEnds, PeakGrows DEF RefuseInPipeline, Admit, audit
  <2>2. QED
    BY <2>1 DEF Outcomes
<1>4. CASE ServeFromCache(r, k)
  <2>1. TurnedAway(r, k, "hit") \/ TurnedAway(r, k, "error")
    BY <1>4, DecideEnds, PeakGrows DEF ServeFromCache, Admit, Blocked, audit
  <2>2. QED
    BY <2>1 DEF Outcomes
<1>5. CASE RouteNowhere(r, k)
  <2>1. \/ TurnedAway(r, k, "refused") \/ TurnedAway(r, k, "error")
        \/ TurnedAway(r, k, "rejected")
    BY <1>5, DecideEnds, PeakGrows DEF RouteNowhere, Admit, audit
  <2>2. QED
    BY <2>1 DEF Outcomes
<1>6. CASE RaiseBeforePrompt(r, k)
  <2>1. TurnedAway(r, k, "error")
    BY <1>6, PeakGrows DEF RaiseBeforePrompt, Raise, Admit, audit
  <2>2. QED
    BY <2>1 DEF Outcomes
<1>7. CASE RaiseAtGate(r, k)
  <2>1. TurnedAway(r, k, "error")
    BY <1>7 DEF RaiseAtGate, Raise, TypeOK, audit
  <2>2. QED
    BY <2>1 DEF Outcomes
<1>8. QED
  BY <1>1, <1>2, <1>3, <1>4, <1>5, <1>6, <1>7 DEF Submit

\* A later segment tries another backend or ends the request.
LEMMA ContinueShape ==
  ASSUME TypeOK, NEW r \in Requests, Continue(r)
  PROVE  FailOver(r) \/ \E how \in Outcomes : Concluded(r, how)
<1> USE DEF admin, usage, Concluded
<1>1. CASE InferenceFails(r)
  <2>1. Concluded(r, "failed") \/ Concluded(r, "aborted")
    BY <1>1, DecideEnds DEF InferenceFails
  <2>2. QED
    BY <2>1 DEF Outcomes
<1>2. CASE InferenceRaises(r)
  <2>1. Concluded(r, "aborted")
    BY <1>2 DEF InferenceRaises, Raise
  <2>2. QED
    BY <2>1 DEF Outcomes
<1>3. CASE BlockOutput(r)
  <2>1. Concluded(r, "refused") \/ Concluded(r, "aborted")
    BY <1>3, DecideEnds DEF BlockOutput
  <2>2. QED
    BY <2>1 DEF Outcomes
<1>4. CASE Serve(r)
  <2>1. \/ End(r, "served") /\ AddDecision(r) /\ Charge(r)
        \/ /\ End(r, "aborted") /\ (AddDecision(r) \/ UNCHANGED audit)
           /\ Charge(r) \/ UNCHANGED <<key_usage, today>>
    BY <1>4, DecideEnds DEF Serve, Raise
  <2>2. Concluded(r, "served") \/ Concluded(r, "aborted")
    <3>1. CASE End(r, "served") /\ AddDecision(r) /\ Charge(r)
      <4>1. outcome'[r] = "served"
        BY <3>1 DEF End, TypeOK
      <4>2. QED
        BY <1>4, <3>1, <4>1 DEF Serve, Charge
    <3>2. CASE /\ End(r, "aborted") /\ (AddDecision(r) \/ UNCHANGED audit)
               /\ Charge(r) \/ UNCHANGED <<key_usage, today>>
      <4>1. outcome'[r] = "aborted"
        BY <3>2 DEF End, TypeOK
      <4>2. UNCHANGED <<key_usage, today>>
        BY <3>2, <4>1 DEF Charge
      <4>3. QED
        BY <1>4, <3>2, <4>2 DEF Serve
    <3>3. QED
      BY <2>1, <3>1, <3>2
  <2>3. QED
    BY <2>2 DEF Outcomes
<1>5. QED
  BY <1>1, <1>2, <1>3, <1>4 DEF Continue

\* The steps there are.
LEMMA StepShape ==
  ASSUME TypeOK, IsFiniteSet(InFlight), [Next]_vars
  PROVE  \/ \E r \in Requests, k \in Kinds :
              StartInference(r, k) \/ \E how \in Outcomes : TurnedAway(r, k, how)
         \/ \E r \in Requests : FailOver(r) \/ \E how \in Outcomes : Concluded(r, how)
         \/ Reconfigured \/ ClearCache \/ \E r \in Requests : AgeOut(r)
         \/ NewBudgetDay \/ NewAgentDay \/ Restart
<1>1. ASSUME SetSovereign \/ ChangeEgress \/ ChangeLicense
             \/ \E b \in Backends : Approve(b) \/ Unapprove(b)
      PROVE  Reconfigured
  BY <1>1 DEF SetSovereign, ChangeEgress, ChangeLicense, Approve, Unapprove, Reconfigured, TypeOK
<1>2. ASSUME UNCHANGED vars PROVE Reconfigured
  BY <1>2 DEF vars, admin, Reconfigured, TypeOK
<1>3. ASSUME Administer PROVE Reconfigured \/ ClearCache
  BY <1>1, <1>3 DEF Administer
<1>4. QED
  BY <1>2, <1>3, SubmitShape, ContinueShape DEF Next

-----------------------------------------------------------------------------
(* What is spent.                                                          *)

\* The dearest answer costs a number, and no answer costs more.
LEMMA DearestIs == Dearest \in Nat /\ \A b \in Backends : Price[b] <= Dearest
<1> DEFINE prices == {0} \cup {Price[b] : b \in Backends}
<1>1. IsFiniteSet(prices)
  <2>1. IsFiniteSet({Price[b] : b \in Backends})
    <3>1. Price \in Surjection(Backends, {Price[b] : b \in Backends})
      BY ChatAssumption DEF Surjection
    <3>2. QED
      BY <3>1, ChatAssumption, FS_Surjection
  <2>2. QED
    BY <2>1, FS_AddElement
<1>2. prices \subseteq Nat /\ prices \subseteq Int /\ prices # {}
  BY ChatAssumption
<1>3. \E x \in prices : \A y \in prices : x >= y
  BY <1>1, <1>2, GreatestNumber
<1>4. Dearest \in prices /\ \A y \in prices : Dearest >= y
  BY <1>3 DEF Dearest, Max
<1>5. QED
  BY <1>2, <1>4

\* What each request costs its key.
Cost == [r \in {q \in Requests : answer[q] \in Backends} |-> Price[answer[r]]]

\* The sum over requests that were answered is the sum of their costs.
LEMMA SpendIs ==
  ASSUME NEW S, IsFiniteSet(S), S \subseteq DOMAIN Cost
  PROVE  MapThenSumSet(LAMBDA r : Price[answer[r]], S) = Total(Cost, S)
<1> DEFINE Sums(g) ==
      g = [s \in SUBSET S |->
             IF s = {} THEN 0
             ELSE Price[answer[CHOOSE x \in s : TRUE]] + g[s \ {CHOOSE x \in s : TRUE}]]
<1>1. \A s \in SUBSET S : s # {} => Cost[Pick(s)] = Price[answer[Pick(s)]]
  BY PickIn DEF Cost
<1>2. \A g : Sums(g) <=> IsSum(g, Cost, S)
  BY <1>1 DEF IsSum, SumsOn, SumStep, Pick
<1>3. PICK h : IsSum(h, Cost, S) /\ Total(Cost, S) = h[S]
  BY TotalIs
<1>4. \E g : Sums(g) /\ MapThenSumSet(LAMBDA r : Price[answer[r]], S) = g[S]
  BY <1>2, <1>3 DEF MapThenSumSet, MapThenFoldSet
<1>5. PICK g : IsSum(g, Cost, S) /\ MapThenSumSet(LAMBDA r : Price[answer[r]], S) = g[S]
  BY <1>2, <1>4
<1>6. \A s \in SUBSET S : g[s] = h[s]
  BY <1>3, <1>5, SumUnique
<1>7. QED
  BY <1>3, <1>5, <1>6

\* Nothing was spent by nobody.
LEMMA SpendOfNone == MapThenSumSet(LAMBDA r : Price[answer[r]], {}) = 0
<1>1. IsFiniteSet({}) /\ {} \subseteq DOMAIN Cost
  BY FS_EmptySet
<1>2. Cost \in [DOMAIN Cost -> Nat]
  BY ChatAssumption DEF Cost
<1>3. QED
  BY <1>1, <1>2, SpendIs, SumOfMore

-----------------------------------------------------------------------------
(* The invariant holds at the start and is kept by every step.             *)

LEMMA InitInv == Init => Inv
<1> SUFFICES ASSUME Init PROVE Inv
  OBVIOUS
<1> USE DEF Init
<1>1. TypeOK
  BY ChatAssumption DEF TypeOK
<1>2. Lifecycle /\ AuditedOnce /\ Governed
  BY ChatAssumption DEF Lifecycle, AuditedOnce, Governed, Outcomes
<1>3. InFlight = {} /\ Answered = {}
  BY DEF InFlight, Answered
<1>4. ChargedExactly
  BY ChatAssumption DEF ChargedExactly, Outcomes
<1>5. RateCounted
  BY <1>3, FS_EmptySet, ChatAssumption DEF RateCounted
<1>6. SpendCounted
  <2>1. \A key \in Keys : Waiting(key) = {} /\ {r \in today : kind[r].key = key} = {}
    BY <1>3 DEF Waiting
  <2>2. \A key \in Keys : Spend(key) = 0
    BY <2>1, SpendOfNone DEF Spend
  <2>3. 0 * Dearest = 0
    BY DearestIs
  <2>4. ASSUME SpendCap > 0, NEW key \in Keys
        PROVE  Spend(key) + Cardinality(Waiting(key)) * Dearest <= SpendCap - 1 + peak * Dearest
    <3>1. Spend(key) = 0 /\ Cardinality(Waiting(key)) * Dearest = 0 /\ peak * Dearest = 0
      BY <2>1, <2>2, <2>3, FS_EmptySet
    <3>2. QED
      BY <2>4, <3>1, ChatAssumption
  <2>5. QED
    BY <2>4, FS_EmptySet DEF SpendCounted
<1>7. CacheKept
  BY <1>3 DEF CacheKept, CacheClean, HitNamesProducer
<1>8. QED
  BY <1>1, <1>2, <1>4, <1>5, <1>6, <1>7 DEF Inv

\* Types.
LEMMA TypeStep ==
  ASSUME Inv, [Next]_vars
  PROVE  TypeOK'
<1> USE DEF TypeOK, admin, audit, usage, request
<1>0. TypeOK /\ Lifecycle /\ IsFiniteSet(InFlight)
  BY DEF Inv, RateCounted
<1>1. ASSUME NEW r \in Requests, NEW k \in Kinds, StartInference(r, k) PROVE TypeOK'
  <2>1. /\ peak' \in Nat
        /\ agent_usage' \in [Agents -> 0..AgentCap]
    BY <1>0, <1>1, PeakGrows DEF StartInference
  <2>2. Candidates(k) \subseteq Backends
    BY <1>0, ChatAssumption DEF Candidates, Filter, Kind
  <2>3. route' \in [Requests -> Route \cup {None}]
    <3>1. [candidates |-> Candidates(k), sovereign |-> sovereign,
           approved |-> approved, egress |-> egress] \in Route
      BY <1>0, <2>2 DEF Route
    <3>2. QED
      BY <1>0, <1>1, <3>1 DEF StartInference
  <2>4. /\ sent' \in [Requests -> SUBSET Backends]
        /\ sealed' \in [Requests -> SUBSET Backends]
    BY <1>0, <1>1, <2>2 DEF StartInference, Prompt
  <2>5. kind' \in [Requests -> Kinds \cup {None}]
    BY <1>0, <1>1 DEF StartInference, Admit, Arrive
  <2>6. QED
    BY <1>0, <1>1, <2>1, <2>3, <2>4, <2>5 DEF StartInference, Admit, Arrive
<1>2. ASSUME NEW r \in Requests, NEW k \in Kinds, NEW how \in Outcomes, TurnedAway(r, k, how)
      PROVE  TypeOK'
  BY <1>0, <1>2 DEF TurnedAway, End, AddDecision
<1>3. ASSUME NEW r \in Requests, FailOver(r) PROVE TypeOK'
  <2>1. route[r] \in Route
    BY <1>0, <1>3 DEF FailOver, Lifecycle
  <2>2. route[r].candidates \subseteq Backends
    BY <2>1 DEF Route
  <2>3. QED
    BY <1>0, <1>3, <2>2 DEF FailOver, Prompt
<1>4. ASSUME NEW r \in Requests, NEW how \in Outcomes, Concluded(r, how) PROVE TypeOK'
  <2>1. /\ decisions' \in [Requests -> Nat] /\ recent' \subseteq Requests
        /\ key_usage' \subseteq Requests /\ today' \subseteq key_usage'
    BY <1>0, <1>4 DEF Concluded, AddDecision
  <2>2. /\ pc' \in [Requests -> {"new", "inferring", "done"}]
        /\ outcome' \in [Requests -> Outcomes \cup {None}]
        /\ route' \in [Requests -> Route \cup {None}]
        /\ sent' \in [Requests -> SUBSET Backends] /\ sealed' \in [Requests -> SUBSET Backends]
    BY <1>0, <1>4 DEF Concluded, End
  <2>3. answer' \in [Requests -> Backends \cup {None}]
    BY <1>0, <1>4 DEF Concluded
  <2>4. cache' \in [CacheKeys -> Entry \cup {None}]
    <3>1. kind[r] \in Kinds
      BY <1>0, <1>4 DEF Concluded, Lifecycle
    <3>2. CacheKey(kind[r]) \in CacheKeys
      BY <3>1 DEF CacheKeys
    <3>3. ASSUME NEW b \in sent[r], Store(r, b)
          PROVE  cache' \in [CacheKeys -> Entry \cup {None}]
      BY <1>0, <3>2, <3>3 DEF Store, Entry
    <3>4. QED
      BY <1>0, <1>4, <3>3 DEF Concluded
  <2>5. QED
    BY <1>0, <1>4, <2>1, <2>2, <2>3, <2>4 DEF Concluded
<1>5. CASE Reconfigured
  BY <1>0, <1>5 DEF Reconfigured
<1>6. CASE ClearCache
  BY <1>0, <1>6 DEF ClearCache
<1>7. ASSUME NEW r \in Requests, AgeOut(r) PROVE TypeOK'
  BY <1>0, <1>7 DEF AgeOut
<1>8. CASE NewBudgetDay \/ NewAgentDay
  BY <1>0, <1>8, ChatAssumption DEF NewBudgetDay, NewAgentDay
<1>9. CASE Restart
  BY <1>0, <1>9 DEF Restart, Outcomes
<1>10. QED
  BY <1>0, <1>1, <1>2, <1>3, <1>4, <1>5, <1>6, <1>7, <1>8, <1>9, StepShape

\* Where a request is, and its one decision.
LEMMA LifecycleStep ==
  ASSUME Inv, [Next]_vars
  PROVE  Lifecycle' /\ AuditedOnce'
<1> USE DEF admin, audit, usage, request
<1>0. TypeOK /\ Lifecycle /\ AuditedOnce /\ IsFiniteSet(InFlight)
  BY DEF Inv, RateCounted
<1>1. ASSUME NEW r \in Requests, NEW k \in Kinds, StartInference(r, k)
      PROVE  Lifecycle' /\ AuditedOnce'
  <2>1. ~k.injection
    BY <1>1 DEF StartInference, Blocked
  <2>2. Candidates(k) \subseteq Backends
    BY <1>0, ChatAssumption DEF Candidates, Filter, Kind, TypeOK
  <2>3. route'[r] \in Route
    BY <1>0, <1>1, <2>2 DEF StartInference, Route, TypeOK
  <2>4. /\ pc'[r] = "inferring" /\ kind'[r] = k /\ decisions' = decisions
        /\ outcome' = outcome /\ answer' = answer
        /\ \A q \in Requests \ {r} :
             /\ pc'[q] = pc[q] /\ kind'[q] = kind[q] /\ route'[q] = route[q]
             /\ sent'[q] = sent[q] /\ sealed'[q] = sealed[q]
    BY <1>0, <1>1 DEF StartInference, Admit, Arrive, Prompt, TypeOK
  <2>5. outcome[r] = None /\ decisions[r] = 0
    BY <1>0, <1>1 DEF StartInference, Admit, Arrive, Lifecycle
  <2>6. QED
    BY <1>0, <2>1, <2>3, <2>4, <2>5, ChatAssumption DEF Lifecycle, AuditedOnce, Outcomes
<1>2. ASSUME NEW r \in Requests, NEW k \in Kinds, NEW how \in Outcomes, TurnedAway(r, k, how)
      PROVE  Lifecycle' /\ AuditedOnce'
  <2>1. /\ pc'[r] = "done" /\ outcome'[r] = how /\ sent'[r] = {} /\ sealed'[r] = {}
        /\ answer' = answer
        /\ \A q \in Requests \ {r} :
             /\ pc'[q] = pc[q] /\ kind'[q] = kind[q] /\ route'[q] = route[q]
             /\ sent'[q] = sent[q] /\ sealed'[q] = sealed[q]
             /\ outcome'[q] = outcome[q] /\ decisions'[q] = decisions[q]
    BY <1>0, <1>2 DEF TurnedAway, End, AddDecision, TypeOK
  <2>2. decisions[r] = 0 /\ how \in {"rejected", "refused", "hit", "error"}
    BY <1>0, <1>2 DEF TurnedAway, Lifecycle
  <2>3. \/ decisions'[r] = 1 /\ how # "rejected"
        \/ decisions'[r] = 0 /\ how \in {"rejected", "error"}
    BY <1>0, <1>2, <2>2 DEF TurnedAway, AddDecision, TypeOK
  <2>4. QED
    BY <1>0, <2>1, <2>2, <2>3, ChatAssumption DEF Lifecycle, AuditedOnce, Outcomes
<1>3. ASSUME NEW r \in Requests, FailOver(r) PROVE Lifecycle' /\ AuditedOnce'
  BY <1>0, <1>3 DEF FailOver, Prompt, Lifecycle, AuditedOnce, TypeOK
<1>4. ASSUME NEW r \in Requests, NEW how \in Outcomes, Concluded(r, how)
      PROVE  Lifecycle' /\ AuditedOnce'
  <2>1. /\ pc'[r] = "done" /\ outcome'[r] = how /\ sent'[r] = {} /\ sealed'[r] = {}
        /\ kind' = kind
        /\ \A q \in Requests \ {r} :
             /\ pc'[q] = pc[q] /\ route'[q] = route[q] /\ answer'[q] = answer[q]
             /\ sent'[q] = sent[q] /\ sealed'[q] = sealed[q]
             /\ outcome'[q] = outcome[q] /\ decisions'[q] = decisions[q]
    BY <1>0, <1>4 DEF Concluded, End, AddDecision, TypeOK
  <2>2. how = "served" => answer'[r] \in Backends
    BY <1>0, <1>4 DEF Concluded, TypeOK
  <2>3. decisions[r] = 0 /\ how \in {"served", "failed", "refused", "aborted"}
    BY <1>0, <1>4 DEF Concluded, Lifecycle
  <2>4. decisions'[r] = 1 \/ (decisions'[r] = 0 /\ how = "aborted")
    BY <1>0, <1>4, <2>3 DEF Concluded, AddDecision, TypeOK
  <2>5. QED
    BY <1>0, <2>1, <2>2, <2>3, <2>4, ChatAssumption DEF Lifecycle, AuditedOnce, Outcomes
<1>5. CASE Reconfigured \/ ClearCache \/ NewBudgetDay \/ NewAgentDay
  BY <1>0, <1>5 DEF Reconfigured, ClearCache, NewBudgetDay, NewAgentDay, Lifecycle, AuditedOnce
<1>6. ASSUME NEW r \in Requests, AgeOut(r) PROVE Lifecycle' /\ AuditedOnce'
  BY <1>0, <1>6 DEF AgeOut, Lifecycle, AuditedOnce
<1>7. CASE Restart
  <2>1. \A q \in Requests :
          /\ pc'[q] # "inferring" /\ sent'[q] = {} /\ sealed'[q] = {}
          /\ \/ pc[q] = "inferring" /\ pc'[q] = "done" /\ outcome'[q] = "lost"
             \/ pc[q] # "inferring" /\ pc'[q] = pc[q] /\ outcome'[q] = outcome[q]
    BY <1>0, <1>7 DEF Restart, InFlight, TypeOK
  <2>2. UNCHANGED <<decisions, answer, kind>>
    BY <1>7 DEF Restart
  <2>3. QED
    BY <1>0, <2>1, <2>2 DEF Lifecycle, AuditedOnce, Outcomes
<1>8. QED
  BY <1>0, <1>1, <1>2, <1>3, <1>4, <1>5, <1>6, <1>7, StepShape

\* A request that has ended is left alone.
LEMMA Settled ==
  ASSUME Inv, [Next]_vars
  PROVE  /\ \A q \in Requests : pc[q] = "done" =>
              /\ pc'[q] = "done" /\ kind'[q] = kind[q]
              /\ outcome'[q] = outcome[q] /\ answer'[q] = answer[q]
         /\ peak \in Nat /\ peak' \in Nat /\ peak <= peak'
<1> USE DEF TypeOK, request
<1>0. TypeOK /\ IsFiniteSet(InFlight)
  BY DEF Inv, RateCounted
<1>1. ASSUME NEW r \in Requests, NEW k \in Kinds, StartInference(r, k)
      PROVE  /\ \A q \in Requests : pc[q] = "done" =>
                  /\ pc'[q] = "done" /\ kind'[q] = kind[q]
                  /\ outcome'[q] = outcome[q] /\ answer'[q] = answer[q]
             /\ peak' \in Nat /\ peak <= peak'
  <2>1. peak' \in Nat /\ peak <= peak'
    BY <1>0, <1>1, PeakGrows DEF StartInference
  <2>2. QED
    BY <1>0, <1>1, <2>1 DEF StartInference, Admit, Arrive
<1>2. CASE \E r \in Requests, k \in Kinds : \E how \in Outcomes : TurnedAway(r, k, how)
  BY <1>0, <1>2 DEF TurnedAway, End
<1>3. CASE \E r \in Requests : FailOver(r)
  BY <1>0, <1>3 DEF FailOver
<1>4. CASE \E r \in Requests : \E how \in Outcomes : Concluded(r, how)
  BY <1>0, <1>4 DEF Concluded, End
<1>5. CASE Reconfigured \/ ClearCache \/ NewBudgetDay \/ NewAgentDay \/ \E r \in Requests : AgeOut(r)
  BY <1>0, <1>5 DEF Reconfigured, ClearCache, NewBudgetDay, NewAgentDay, AgeOut
<1>6. CASE Restart
  BY <1>0, <1>6 DEF Restart, InFlight
<1>7. QED
  BY <1>0, <1>1, <1>2, <1>3, <1>4, <1>5, <1>6, StepShape

\* A named backend is the only candidate, and the router looks inside.
LEMMA CandidatesAre ==
  ASSUME NEW k
  PROVE  /\ k.backend # AutoModel => Candidates(k) = {k.backend}
         /\ sovereign /\ k.backend = AutoModel => Candidates(k) \cap Outside = {}
BY DEF Candidates

\* What was decided when a request was routed still holds of its failovers.
LEMMA GovernedStep ==
  ASSUME Inv, [Next]_vars
  PROVE  Governed'
<1> USE DEF TypeOK, request
<1>0. TypeOK /\ Lifecycle /\ Governed /\ IsFiniteSet(InFlight)
  BY DEF Inv, RateCounted
<1>1. ASSUME NEW r \in Requests, NEW k \in Kinds, StartInference(r, k) PROVE Governed'
  <2> DEFINE was == [candidates |-> Candidates(k), sovereign |-> sovereign,
                     approved |-> approved, egress |-> egress]
  <2>1. \A q \in Requests \ {r} :
          /\ pc'[q] = pc[q] /\ kind'[q] = kind[q] /\ route'[q] = route[q]
          /\ sent'[q] = sent[q] /\ sealed'[q] = sealed[q]
    BY <1>0, <1>1 DEF StartInference, Admit, Arrive, Prompt
  <2>2. kind'[r] = k /\ route'[r] = was
    BY <1>0, <1>1 DEF StartInference, Admit, Arrive
  <2>3. sealed'[r] \subseteq sent'[r] /\ sent'[r] \subseteq Candidates(k)
    <3>1. sent[r] = {} /\ sealed[r] = {}
      BY <1>0, <1>1 DEF StartInference, Admit, Arrive, Lifecycle
    <3>2. QED
      BY <1>0, <1>1, <3>1 DEF StartInference, Prompt
  <2>4. k.sensitive /\ approved # {} => Candidates(k) \subseteq approved
    BY <1>1 DEF StartInference, Blocked, SensitiveBlocks, Candidates, Filter
  <2>5. sovereign => Candidates(k) \cap Outside \subseteq egress
    BY <1>1 DEF StartInference, Admit, Admitted, OutOfBounds, SovereignBlocks, Candidates
  <2>6. sovereign /\ k.backend = AutoModel => Candidates(k) \cap Outside = {}
    BY CandidatesAre
  <2>7. k.backend # AutoModel => Candidates(k) = {k.backend}
    BY CandidatesAre
  <2>8. GovernedOne(kind'[r], was, sealed'[r], sent'[r])
    BY <2>2, <2>3, <2>4, <2>5, <2>6, <2>7 DEF GovernedOne
  <2>9. \A q \in Requests \ {r} : pc'[q] = "inferring" =>
          GovernedOne(kind'[q], route'[q], sealed'[q], sent'[q])
    BY <1>0, <2>1 DEF Governed
  <2>10. QED
    BY <2>2, <2>8, <2>9 DEF Governed
<1>2. ASSUME NEW r \in Requests, NEW k \in Kinds, NEW how \in Outcomes, TurnedAway(r, k, how)
      PROVE  Governed'
  BY <1>0, <1>2 DEF TurnedAway, End, Governed
<1>3. ASSUME NEW r \in Requests, FailOver(r) PROVE Governed'
  <2>1. PICK b \in route[r].candidates : Prompt(r, b)
    BY <1>3 DEF FailOver
  <2>2. /\ sent'[r] = sent[r] \cup {b} /\ sealed'[r] \subseteq sealed[r] \cup {b}
        /\ \A q \in Requests \ {r} : sent'[q] = sent[q] /\ sealed'[q] = sealed[q]
    BY <1>0, <2>1 DEF Prompt
  <2>3. UNCHANGED <<pc, kind, route>>
    BY <1>3 DEF FailOver
  <2>4. GovernedOne(kind[r], route[r], sealed[r], sent[r])
    BY <1>0, <1>3 DEF FailOver, Governed
  <2>5. GovernedOne(kind[r], route[r], sealed'[r], sent'[r])
    BY <2>1, <2>2, <2>4 DEF GovernedOne
  <2>6. QED
    BY <1>0, <2>2, <2>3, <2>5 DEF Governed
<1>4. ASSUME NEW r \in Requests, NEW how \in Outcomes, Concluded(r, how) PROVE Governed'
  BY <1>0, <1>4 DEF Concluded, End, Governed
<1>5. CASE Reconfigured \/ ClearCache \/ NewBudgetDay \/ NewAgentDay \/ \E r \in Requests : AgeOut(r)
  BY <1>0, <1>5 DEF Reconfigured, ClearCache, NewBudgetDay, NewAgentDay, AgeOut, Governed
<1>6. CASE Restart
  BY <1>0, <1>6 DEF Restart, InFlight, Governed
<1>7. QED
  BY <1>0, <1>1, <1>2, <1>3, <1>4, <1>5, <1>6, StepShape

\* The ledger holds the requests that were served under a key.
LEMMA ChargedStep ==
  ASSUME Inv, [Next]_vars
  PROVE  ChargedExactly'
<1> USE DEF TypeOK, request, usage
<1>0. TypeOK /\ Lifecycle /\ ChargedExactly /\ IsFiniteSet(InFlight)
  BY DEF Inv, RateCounted
<1> DEFINE Owed == {q \in Requests : outcome[q] = "served" /\ kind[q].key # None}
<1>1. ASSUME NEW r \in Requests, outcome[r] = None, outcome'[r] # "served",
             key_usage' = key_usage,
             \A q \in Requests \ {r} : outcome'[q] = outcome[q] /\ kind'[q] = kind[q]
      PROVE  ChargedExactly'
  BY <1>0, <1>1, ChatAssumption DEF ChargedExactly, Outcomes
<1>2. ASSUME NEW r \in Requests, NEW k \in Kinds, StartInference(r, k) PROVE ChargedExactly'
  <2>1. outcome[r] = None /\ outcome' = outcome /\ key_usage' = key_usage
    BY <1>0, <1>2 DEF StartInference, Admit, Arrive, Lifecycle
  <2>2. \A q \in Requests \ {r} : kind'[q] = kind[q]
    BY <1>0, <1>2 DEF StartInference, Admit, Arrive
  <2>3. QED
    BY <1>1, <2>1, <2>2, ChatAssumption DEF Outcomes
<1>3. ASSUME NEW r \in Requests, NEW k \in Kinds, NEW how \in Outcomes, TurnedAway(r, k, how)
      PROVE  ChargedExactly'
  BY <1>0, <1>1, <1>3 DEF TurnedAway, End, Lifecycle
<1>4. ASSUME NEW r \in Requests, NEW how \in Outcomes, Concluded(r, how) PROVE ChargedExactly'
  <2>1. /\ outcome[r] = None /\ outcome'[r] = how /\ kind' = kind
        /\ \A q \in Requests \ {r} : outcome'[q] = outcome[q]
    BY <1>0, <1>4 DEF Concluded, End, Lifecycle
  <2>2. CASE how = "served" /\ kind[r].key # None
    <3>1. key_usage' = key_usage \cup {r}
      BY <1>4, <2>2 DEF Concluded
    <3>2. QED
      BY <1>0, <2>1, <2>2, <3>1 DEF ChargedExactly
  <2>3. CASE ~(how = "served" /\ kind[r].key # None)
    <3>1. key_usage' = key_usage
      BY <1>4, <2>3 DEF Concluded
    <3>2. QED
      BY <1>0, <2>1, <2>3, <3>1, ChatAssumption DEF ChargedExactly, Outcomes
  <2>4. QED
    BY <2>2, <2>3
<1>5. CASE \/ Reconfigured \/ ClearCache \/ NewBudgetDay \/ NewAgentDay
           \/ \E r \in Requests : AgeOut(r) \/ FailOver(r)
  BY <1>0, <1>5 DEF Reconfigured, ClearCache, NewBudgetDay, NewAgentDay, AgeOut, FailOver, ChargedExactly
<1>6. CASE Restart
  <2>1. \A q \in Requests : outcome'[q] = "served" <=> outcome[q] = "served"
    BY <1>0, <1>6, ChatAssumption DEF Restart, InFlight, Lifecycle, Outcomes
  <2>2. QED
    BY <1>0, <1>6, <2>1 DEF Restart, ChargedExactly
<1>7. QED
  BY <1>0, <1>2, <1>3, <1>4, <1>5, <1>6, StepShape

\* The cache.
LEMMA CacheStep ==
  ASSUME Inv, [Next]_vars
  PROVE  CacheKept'
<1> USE DEF TypeOK, request
<1>0. TypeOK /\ Lifecycle /\ CacheKept /\ IsFiniteSet(InFlight) /\ Cardinality(InFlight) <= peak
  BY DEF Inv, RateCounted
<1>1. \A c \in CacheKeys : cache[c] # None =>
        /\ cache[c] \in Entry /\ cache[c].by \in Requests /\ pc[cache[c].by] = "done"
  BY <1>0, ChatAssumption DEF CacheKept, CacheClean, Lifecycle, Entry, Outcomes
<1>2. /\ \A q \in Requests : pc[q] = "done" =>
              /\ kind'[q] = kind[q] /\ outcome'[q] = outcome[q] /\ answer'[q] = answer[q]
      /\ peak \in Nat /\ peak' \in Nat /\ peak <= peak'
  BY Settled
\* An entry that stays, stays true.
<1>3. \A c \in CacheKeys : cache[c] # None /\ cache'[c] = cache[c] =>
        LET q == cache'[c].by IN
        /\ CacheKey(kind'[q]) = c /\ ~kind'[q].sensitive /\ ~kind'[q].injection
        /\ outcome'[q] \in {"served", "aborted"}
        /\ peak' <= 1 => cache'[c].backend = answer'[q]
  BY <1>0, <1>1, <1>2 DEF CacheKept, CacheClean, HitNamesProducer
<1>4. ASSUME cache' = cache,
             peak' <= 1 => \A r \in InFlight' :
                             Cacheable(kind'[r]) => cache'[CacheKey(kind'[r])] = None
      PROVE  CacheKept'
  BY <1>3, <1>4 DEF CacheKept, CacheClean, HitNamesProducer
<1>5. ASSUME cache' = cache, \A r \in InFlight' : r \in InFlight /\ kind'[r] = kind[r]
      PROVE  CacheKept'
  BY <1>0, <1>2, <1>4, <1>5 DEF CacheKept
<1>6. ASSUME NEW r \in Requests, NEW k \in Kinds, StartInference(r, k) PROVE CacheKept'
  <2>1. \A q \in InFlight' : q = r \/ (q \in InFlight /\ kind'[q] = kind[q])
    BY <1>0, <1>6 DEF StartInference, Admit, Arrive, InFlight
  <2>2. kind'[r] = k /\ cache' = cache
    BY <1>0, <1>6 DEF StartInference, Admit, Arrive
  <2>3. Cacheable(k) => cache[CacheKey(k)] = None
    BY <1>6 DEF StartInference, Hits
  <2>4. QED
    BY <1>0, <1>2, <1>4, <2>1, <2>2, <2>3 DEF CacheKept
<1>7. ASSUME NEW r \in Requests, NEW k \in Kinds, NEW how \in Outcomes, TurnedAway(r, k, how)
      PROVE  CacheKept'
  <2>1. \A q \in InFlight' : q \in InFlight /\ kind'[q] = kind[q]
    BY <1>0, <1>7 DEF TurnedAway, End, InFlight
  <2>2. QED
    BY <1>5, <1>7, <2>1 DEF TurnedAway
<1>8. ASSUME NEW r \in Requests, NEW how \in Outcomes, Concluded(r, how) PROVE CacheKept'
  <2>1. /\ r \in InFlight /\ InFlight' = InFlight \ {r} /\ kind' = kind
        /\ outcome'[r] = how /\ peak' = peak
    BY <1>0, <1>8 DEF Concluded, End, InFlight
  <2>2. CASE cache' = cache
    BY <1>5, <2>1, <2>2
  <2>3. CASE cache' # cache
    <3>1. PICK b \in sent[r] : answer' = [answer EXCEPT ![r] = b] /\ Store(r, b)
      BY <1>8, <2>3 DEF Concluded
    <3> DEFINE key == CacheKey(kind[r])
               column == IF cache[key] = None THEN b ELSE cache[key].backend
    <3>2. Cacheable(kind[r]) /\ cache' = [cache EXCEPT ![key] = [backend |-> column, by |-> r]]
      BY <2>3, <3>1 DEF Store
    <3>3. /\ key \in CacheKeys /\ ~kind[r].sensitive /\ ~kind[r].injection
          /\ how \in {"served", "aborted"}
      BY <1>0, <1>8, <2>1, <2>3, <3>2
         DEF Concluded, Lifecycle, InFlight, CacheKeys, Cacheable
    <3>4. /\ cache'[key] = [backend |-> column, by |-> r]
          /\ \A c \in CacheKeys : c # key => cache'[c] = cache[c]
      BY <1>0, <3>2, <3>3
    <3>5. CacheClean'
      <4>1. SUFFICES ASSUME NEW c \in CacheKeys, cache'[c] # None
                     PROVE  LET q == cache'[c].by IN
                            /\ CacheKey(kind'[q]) = c
                            /\ ~kind'[q].sensitive /\ ~kind'[q].injection
                            /\ outcome'[q] \in {"served", "aborted"}
        BY DEF CacheClean
      <4>2. CASE c = key
        BY <2>1, <3>3, <3>4, <4>2
      <4>3. CASE c # key
        BY <1>3, <3>4, <4>1, <4>3
      <4>4. QED
        BY <4>2, <4>3
    <3>6. ASSUME peak' <= 1 PROVE InFlight' = {} /\ cache[key] = None
      <4>1. InFlight = {r}
        BY <1>0, <1>2, <2>1, <3>6, OneInSmall, FS_CardinalityType
      <4>2. QED
        BY <1>0, <2>1, <3>2, <3>6, <4>1 DEF CacheKept
    <3>7. HitNamesProducer'
      <4>1. SUFFICES ASSUME peak' <= 1, NEW c \in CacheKeys, cache'[c] # None
                     PROVE  cache'[c].backend = answer'[cache'[c].by]
        BY DEF HitNamesProducer
      <4>2. CASE c = key
        <5>1. cache'[c] = [backend |-> b, by |-> r]
          BY <3>4, <3>6, <4>1, <4>2
        <5>2. answer'[r] = b
          BY <1>0, <3>1
        <5>3. QED
          BY <5>1, <5>2
      <4>3. CASE c # key
        BY <1>3, <3>4, <4>1, <4>3
      <4>4. QED
        BY <4>2, <4>3
    <3>8. QED
      BY <3>5, <3>6, <3>7 DEF CacheKept
  <2>4. QED
    BY <2>2, <2>3
<1>9. CASE \/ Reconfigured \/ NewBudgetDay \/ NewAgentDay
           \/ \E r \in Requests : AgeOut(r) \/ FailOver(r)
  <2>1. cache' = cache /\ InFlight' = InFlight /\ kind' = kind
    BY <1>9 DEF Reconfigured, NewBudgetDay, NewAgentDay, AgeOut, FailOver, InFlight
  <2>2. QED
    BY <1>5, <2>1
<1>10. CASE ClearCache
  <2>1. \A c \in CacheKeys : cache'[c] = None
    BY <1>10 DEF ClearCache
  <2>2. \A r \in InFlight' : CacheKey(kind'[r]) \in CacheKeys
    BY <1>0, <1>10 DEF ClearCache, InFlight, Lifecycle, CacheKeys
  <2>3. QED
    BY <2>1, <2>2 DEF CacheKept, CacheClean, HitNamesProducer
<1>11. CASE Restart
  <2>1. InFlight' = {} /\ cache' = cache
    BY <1>0, <1>11 DEF Restart, InFlight
  <2>2. QED
    BY <1>5, <2>1
<1>12. QED
  BY <1>0, <1>6, <1>7, <1>8, <1>9, <1>10, <1>11, StepShape

\* The hour: what was answered, and what is in flight.
LEMMA RateStep ==
  ASSUME Inv, [Next]_vars
  PROVE  RateCounted'
<1> USE DEF TypeOK, request, audit
<1>0. TypeOK /\ Lifecycle /\ RateCounted
  BY DEF Inv
<1>1. /\ Answered \subseteq recent /\ IsFiniteSet(Answered)
      /\ Cardinality(InFlight) \in Nat /\ Cardinality(Answered) \in Nat
      /\ Cardinality(Answered) <= Cardinality(recent) /\ Cardinality(recent) \in Nat
      /\ peak \in Nat /\ peak' \in Nat /\ peak <= peak'
  BY <1>0, Settled, FS_Subset, FS_CardinalityType DEF RateCounted, Answered
\* What was answered without an admission: the bound grows with the peak.
<1>2. ASSUME InFlight' \subseteq InFlight, IsFiniteSet(recent'), Answered' \subseteq Answered
      PROVE  RateCounted'
  <2>1. /\ IsFiniteSet(InFlight') /\ Cardinality(InFlight') \in Nat
        /\ Cardinality(InFlight') <= Cardinality(InFlight)
        /\ Cardinality(Answered') \in Nat /\ Cardinality(Answered') <= Cardinality(Answered)
    BY <1>0, <1>1, <1>2, FS_Subset, FS_CardinalityType DEF RateCounted
  <2>2. QED
    BY <1>0, <1>1, <1>2, <2>1, ChatAssumption DEF RateCounted
<1>3. ASSUME NEW r \in Requests, NEW k \in Kinds, StartInference(r, k) PROVE RateCounted'
  <2>1. InFlight' = InFlight \cup {r} /\ r \notin InFlight
    BY <1>0, <1>3 DEF StartInference, Admit, Arrive, InFlight
  <2>2. /\ IsFiniteSet(InFlight')
        /\ Cardinality(InFlight') = Cardinality(InFlight) + 1
    BY <1>0, <2>1, FS_AddElement DEF RateCounted
  <2>3. Cardinality(InFlight) < peak'
    BY <1>0, <1>3, PeakGrows DEF StartInference, RateCounted
  <2>4. recent' = recent /\ Answered' = Answered
    BY <1>0, <1>3 DEF StartInference, Answered
  <2>5. MaxCalls > 0 => Cardinality(recent) < MaxCalls
    BY <1>1, <1>3, ChatAssumption DEF StartInference, Blocked, RateLimited
  <2>6. QED
    BY <1>0, <1>1, <2>2, <2>3, <2>4, <2>5, ChatAssumption DEF RateCounted
<1>4. ASSUME NEW r \in Requests, NEW k \in Kinds, NEW how \in Outcomes, TurnedAway(r, k, how)
      PROVE  RateCounted'
  <2>1. InFlight' = InFlight
    BY <1>0, <1>4 DEF TurnedAway, End, InFlight
  <2>2. IsFiniteSet(recent')
    <3>1. recent' \subseteq recent \cup {r}
      BY <1>4 DEF TurnedAway, AddDecision
    <3>2. QED
      BY <1>0, <3>1, OneMore DEF RateCounted
  <2>3. \A q \in Requests \ {r} : outcome'[q] = outcome[q]
    BY <1>0, <1>4 DEF TurnedAway, End
  <2>4. outcome'[r] = how /\ recent' \subseteq recent \cup {r}
    BY <1>0, <1>4 DEF TurnedAway, End, AddDecision
  <2>5. CASE how # "hit"
    <3>1. how # "served"
      BY <1>4 DEF TurnedAway
    <3>2. Answered' \subseteq Answered
      BY <1>0, <2>3, <2>4, <2>5, <3>1 DEF Answered
    <3>3. QED
      BY <1>2, <2>1, <2>2, <3>2
  <2>6. CASE how = "hit"
    <3>1. Answered' \subseteq Answered \cup {r}
      BY <1>0, <2>3, <2>4 DEF Answered
    <3>2. Cardinality(Answered') \in Nat /\ Cardinality(Answered') <= Cardinality(Answered) + 1
      BY <1>1, <3>1, OneMore
    <3>3. Cardinality(InFlight) < peak' /\ (MaxCalls > 0 => Cardinality(recent) < MaxCalls)
      BY <1>1, <1>4, <2>6, ChatAssumption DEF TurnedAway, RateLimited
    <3>4. QED
      BY <1>0, <1>1, <2>1, <2>2, <3>2, <3>3, ChatAssumption DEF RateCounted
  <2>7. QED
    BY <2>5, <2>6
<1>5. ASSUME NEW r \in Requests, NEW how \in Outcomes, Concluded(r, how) PROVE RateCounted'
  <2>1. InFlight' = InFlight \ {r} /\ r \in InFlight
    BY <1>0, <1>5 DEF Concluded, End, InFlight
  <2>2. /\ IsFiniteSet(InFlight') /\ Cardinality(InFlight') = Cardinality(InFlight) - 1
        /\ Cardinality(InFlight') \in Nat
    BY <1>0, <2>1, OneLess, FS_CardinalityType DEF RateCounted
  <2>3. IsFiniteSet(recent')
    <3>1. recent' \subseteq recent \cup {r}
      BY <1>5 DEF Concluded, AddDecision
    <3>2. QED
      BY <1>0, <3>1, OneMore DEF RateCounted
  <2>4. Answered' \subseteq Answered \cup {r}
    <3>1. recent' \subseteq recent \cup {r} /\ \A q \in Requests \ {r} : outcome'[q] = outcome[q]
      BY <1>0, <1>5 DEF Concluded, End, AddDecision
    <3>2. QED
      BY <1>0, <3>1 DEF Answered
  <2>5. Cardinality(Answered') \in Nat /\ Cardinality(Answered') <= Cardinality(Answered) + 1
    BY <1>1, <2>4, OneMore
  <2>6. QED
    BY <1>0, <1>1, <2>2, <2>3, <2>5, ChatAssumption DEF RateCounted
<1>6. CASE Reconfigured \/ ClearCache \/ NewBudgetDay \/ NewAgentDay \/ \E r \in Requests : FailOver(r)
  <2>1. UNCHANGED <<pc, recent, outcome>>
    BY <1>6 DEF Reconfigured, ClearCache, NewBudgetDay, NewAgentDay, FailOver
  <2>2. QED
    BY <1>0, <1>2, <2>1 DEF InFlight, Answered, RateCounted
<1>7. ASSUME NEW r \in Requests, AgeOut(r) PROVE RateCounted'
  <2>1. recent' \subseteq recent /\ UNCHANGED <<pc, outcome>>
    BY <1>7 DEF AgeOut
  <2>2. IsFiniteSet(recent')
    BY <1>0, <2>1, FS_Subset DEF RateCounted
  <2>3. QED
    BY <1>2, <2>1, <2>2 DEF InFlight, Answered
<1>8. CASE Restart
  <2>1. InFlight' = {} /\ recent' = recent
    BY <1>0, <1>8 DEF Restart, InFlight
  <2>2. Answered' \subseteq Answered
    BY <1>0, <1>8 DEF Restart, Answered
  <2>3. QED
    BY <1>0, <1>2, <2>1, <2>2 DEF RateCounted
<1>9. QED
  BY <1>0, <1>3, <1>4, <1>5, <1>6, <1>7, <1>8, StepShape DEF RateCounted

\* Requests whose charge counts against the key's day.
SpentBy(key) == {r \in today : kind[r].key = key}

\* The spending of a key is the sum of the costs of its requests.
LEMMA SpendNow ==
  TypeOK /\ Lifecycle /\ ChargedExactly /\ IsFiniteSet(today) =>
    \A key \in Keys :
      /\ IsFiniteSet(SpentBy(key)) /\ SpentBy(key) \subseteq DOMAIN Cost
      /\ Cost \in [DOMAIN Cost -> Nat]
      /\ Spend(key) = Total(Cost, SpentBy(key)) /\ Spend(key) \in Nat
<1> SUFFICES ASSUME TypeOK, Lifecycle, ChargedExactly, IsFiniteSet(today), NEW key \in Keys
             PROVE  /\ IsFiniteSet(SpentBy(key)) /\ SpentBy(key) \subseteq DOMAIN Cost
                    /\ Cost \in [DOMAIN Cost -> Nat]
                    /\ Spend(key) = Total(Cost, SpentBy(key)) /\ Spend(key) \in Nat
  OBVIOUS
<1>1. IsFiniteSet(SpentBy(key))
  BY FS_Subset DEF SpentBy
<1>2. SpentBy(key) \subseteq DOMAIN Cost
  BY DEF SpentBy, Cost, TypeOK, Lifecycle, ChargedExactly
<1>3. Cost \in [DOMAIN Cost -> Nat]
  BY ChatAssumption DEF Cost
<1>4. Spend(key) = Total(Cost, SpentBy(key))
  BY <1>1, <1>2, SpendIs DEF Spend, SpentBy
<1>5. Total(Cost, SpentBy(key)) \in Nat
  BY <1>1, <1>2, <1>3, SumOfMore
<1>6. QED
  BY <1>1, <1>2, <1>3, <1>4, <1>5

\* The day: what was spent, and what is in flight.
LEMMA SpendStep ==
  ASSUME Inv, [Next]_vars
  PROVE  SpendCounted'
<1> USE DEF TypeOK, request, usage
<1>0. /\ TypeOK /\ Lifecycle /\ RateCounted /\ SpendCounted /\ ChargedExactly
      /\ TypeOK' /\ Lifecycle' /\ RateCounted' /\ ChargedExactly'
  BY TypeStep, LifecycleStep, RateStep, ChargedStep DEF Inv
<1>1. peak \in Nat /\ peak' \in Nat /\ peak <= peak' /\ Dearest \in Nat
  BY Settled, DearestIs
<1>2. \A key \in Keys :
        /\ IsFiniteSet(SpentBy(key)) /\ SpentBy(key) \subseteq DOMAIN Cost
        /\ Cost \in [DOMAIN Cost -> Nat]
        /\ Spend(key) = Total(Cost, SpentBy(key)) /\ Spend(key) \in Nat
  BY <1>0, SpendNow DEF SpendCounted
<1>3. (TypeOK /\ Lifecycle /\ ChargedExactly /\ IsFiniteSet(today))' =>
      (\A key \in Keys :
        /\ IsFiniteSet(SpentBy(key)) /\ SpentBy(key) \subseteq DOMAIN Cost
        /\ Cost \in [DOMAIN Cost -> Nat]
        /\ Spend(key) = Total(Cost, SpentBy(key)) /\ Spend(key) \in Nat)'
  BY SpendNow, PTL
<1>4. \A key \in Keys :
        /\ Waiting(key) \subseteq InFlight
        /\ IsFiniteSet(Waiting(key)) /\ Cardinality(Waiting(key)) \in Nat
        /\ Cardinality(Waiting(key)) <= Cardinality(InFlight)
        /\ Cardinality(InFlight) \in Nat
  BY <1>0, FS_Subset, FS_CardinalityType DEF Waiting, RateCounted
\* What was spent stays spent: its requests have ended.
<1>5. \A r \in today : kind'[r] = kind[r] /\ answer'[r] = answer[r] /\ answer[r] \in Backends
                       /\ r \in Requests /\ pc[r] = "done"
  BY <1>0, Settled, ChatAssumption DEF Lifecycle, ChargedExactly, Outcomes
<1>6. \A key \in Keys : \A r \in SpentBy(key) : Cost'[r] = Cost[r] /\ r \in DOMAIN Cost'
  BY <1>0, <1>5 DEF SpentBy, Cost
<1>7. ASSUME today' = today PROVE \A key \in Keys : Spend(key)' = Spend(key)
  <2>1. SUFFICES ASSUME NEW key \in Keys PROVE Spend(key)' = Spend(key)
    OBVIOUS
  <2>2. SpentBy(key)' = SpentBy(key)
    BY <1>5, <1>7 DEF SpentBy
  <2>3. Total(Cost', SpentBy(key)) = Total(Cost, SpentBy(key))
    BY <1>2, <1>6, SumSame
  <2>4. Spend(key)' = Total(Cost', SpentBy(key)')
    BY <1>0, <1>3, <1>7 DEF SpendCounted
  <2>5. QED
    BY <1>2, <2>2, <2>3, <2>4
<1>8. ASSUME IsFiniteSet(today'),
             \A key \in Keys : /\ Waiting(key)' \subseteq Waiting(key)
                               /\ Spend(key)' \in Nat /\ Spend(key)' <= Spend(key)
      PROVE  SpendCounted'
  <2>1. SUFFICES ASSUME SpendCap > 0, NEW key \in Keys
                 PROVE  Spend(key)' + Cardinality(Waiting(key)') * Dearest
                          <= SpendCap - 1 + peak' * Dearest
    BY <1>8 DEF SpendCounted
  <2>2. /\ Cardinality(Waiting(key)') \in Nat
        /\ Cardinality(Waiting(key)') <= Cardinality(Waiting(key))
    BY <1>4, <1>8, FS_Subset, FS_CardinalityType
  <2>3. /\ Cardinality(Waiting(key)') * Dearest \in Nat
        /\ Cardinality(Waiting(key)') * Dearest <= Cardinality(Waiting(key)) * Dearest
        /\ Cardinality(Waiting(key)) * Dearest \in Nat
    BY <1>1, <1>4, <2>2, Times
  <2>4. peak * Dearest \in Nat /\ peak' * Dearest \in Nat /\ peak * Dearest <= peak' * Dearest
    BY <1>1, Times
  <2>5. Spend(key) + Cardinality(Waiting(key)) * Dearest <= SpendCap - 1 + peak * Dearest
    BY <1>0, <2>1 DEF SpendCounted
  <2>6. /\ Spend(key) \in Nat /\ Spend(key)' \in Nat /\ Spend(key)' <= Spend(key)
        /\ SpendCap \in Nat
    BY <1>2, <1>8, ChatAssumption
  <2>7. QED
    BY <2>3, <2>4, <2>5, <2>6
<1>9. ASSUME today' = today, \A key \in Keys : Waiting(key)' \subseteq Waiting(key)
      PROVE  SpendCounted'
  <2>1. IsFiniteSet(today')
    BY <1>0, <1>9 DEF SpendCounted
  <2>2. \A key \in Keys : Spend(key)' \in Nat /\ Spend(key)' <= Spend(key)
    BY <1>2, <1>7, <1>9
  <2>3. QED
    BY <1>8, <1>9, <2>1, <2>2
<1>10. ASSUME NEW r \in Requests, NEW k \in Kinds, StartInference(r, k) PROVE SpendCounted'
  <2>1. /\ InFlight' = InFlight \cup {r} /\ r \notin InFlight /\ today' = today
        /\ kind'[r] = k /\ \A q \in InFlight : kind'[q] = kind[q]
    BY <1>0, <1>10 DEF StartInference, Admit, Arrive, InFlight
  <2>2. IsFiniteSet(today')
    BY <1>0, <2>1 DEF SpendCounted
  <2>3. Cardinality(InFlight) < peak' /\ Cardinality(InFlight) \in Nat
    BY <1>0, <1>10, PeakGrows, FS_CardinalityType DEF StartInference, RateCounted
  <2>4. SUFFICES ASSUME SpendCap > 0, NEW key \in Keys
                 PROVE  Spend(key)' + Cardinality(Waiting(key)') * Dearest
                          <= SpendCap - 1 + peak' * Dearest
    BY <2>2 DEF SpendCounted
  <2>5. Spend(key)' = Spend(key) /\ Spend(key) \in Nat /\ SpendCap \in Nat
    BY <1>2, <1>7, <2>1, ChatAssumption
  <2>6. CASE k.key = key
    <3>1. key # None
      BY ChatAssumption
    <3>2. Spend(key) < SpendCap
      BY <1>10, <2>4, <2>5, <2>6, <3>1 DEF StartInference, Admit, Admitted, OverBudget
    <3>3. /\ Cardinality(Waiting(key)') \in Nat
          /\ Cardinality(Waiting(key)') <= Cardinality(Waiting(key)) + 1
      <4>1. Waiting(key)' \subseteq Waiting(key) \cup {r}
        BY <2>1 DEF Waiting
      <4>2. QED
        BY <1>4, <4>1, OneMore
    <3>4. Cardinality(Waiting(key)') <= peak'
      BY <1>1, <1>4, <2>3, <3>3
    <3>5. /\ Cardinality(Waiting(key)') * Dearest \in Nat /\ peak' * Dearest \in Nat
          /\ Cardinality(Waiting(key)') * Dearest <= peak' * Dearest
      BY <1>1, <3>3, <3>4, Times
    <3>6. QED
      BY <2>5, <3>2, <3>5
  <2>7. CASE k.key # key
    <3>1. Waiting(key)' = Waiting(key)
      BY <2>1, <2>7 DEF Waiting
    <3>2. /\ peak * Dearest \in Nat /\ peak' * Dearest \in Nat
          /\ peak * Dearest <= peak' * Dearest
          /\ Cardinality(Waiting(key)) * Dearest \in Nat
      BY <1>1, <1>4, Times
    <3>3. Spend(key) + Cardinality(Waiting(key)) * Dearest <= SpendCap - 1 + peak * Dearest
      BY <1>0, <2>4 DEF SpendCounted
    <3>4. QED
      BY <2>5, <3>1, <3>2, <3>3
  <2>8. QED
    BY <2>6, <2>7
<1>11. ASSUME NEW r \in Requests, NEW k \in Kinds, NEW how \in Outcomes, TurnedAway(r, k, how)
       PROVE  SpendCounted'
  <2>1. InFlight' = InFlight /\ today' = today /\ \A q \in InFlight : kind'[q] = kind[q]
    BY <1>0, <1>11 DEF TurnedAway, End, InFlight
  <2>2. QED
    BY <1>9, <2>1 DEF Waiting
<1>12. ASSUME NEW r \in Requests, NEW how \in Outcomes, Concluded(r, how) PROVE SpendCounted'
  <2>1. InFlight' = InFlight \ {r} /\ r \in InFlight /\ kind' = kind
    BY <1>0, <1>12 DEF Concluded, End, InFlight
  <2>2. \A key \in Keys : Waiting(key)' \subseteq Waiting(key)
    BY <2>1 DEF Waiting
  <2>3. CASE ~(how = "served" /\ kind[r].key # None)
    <3>1. today' = today
      BY <1>12, <2>3 DEF Concluded
    <3>2. QED
      BY <1>9, <2>2, <3>1
  <2>4. CASE how = "served" /\ kind[r].key # None
    <3>1. today' = today \cup {r} /\ r \notin today /\ kind[r] \in Kinds
      BY <1>0, <1>5, <1>12, <2>1, <2>4 DEF Concluded, Lifecycle, InFlight
    <3>2. IsFiniteSet(today')
      BY <1>0, <3>1, FS_AddElement DEF SpendCounted
    <3>3. answer'[r] \in Backends /\ r \in DOMAIN Cost' /\ Cost'[r] <= Dearest /\ Cost'[r] \in Nat
      <4>1. outcome'[r] = "served"
        BY <1>0, <1>12, <2>4 DEF Concluded, End
      <4>2. answer'[r] \in Backends
        BY <1>0, <4>1 DEF Lifecycle
      <4>3. r \in DOMAIN Cost' /\ Cost'[r] = Price[answer'[r]]
        BY <4>2 DEF Cost
      <4>4. QED
        BY <4>2, <4>3, DearestIs, ChatAssumption
    <3>4. SUFFICES ASSUME SpendCap > 0, NEW key \in Keys
                   PROVE  Spend(key)' + Cardinality(Waiting(key)') * Dearest
                            <= SpendCap - 1 + peak' * Dearest
      BY <3>2 DEF SpendCounted
    <3>5. Total(Cost', SpentBy(key)) = Spend(key) /\ Spend(key) \in Nat
      BY <1>2, <1>6, SumSame
    <3>6. /\ Spend(key)' = Total(Cost', SpentBy(key)') /\ Spend(key)' \in Nat
          /\ Cost' \in [DOMAIN Cost' -> Nat]
      BY <1>0, <1>3, <3>2
    <3>7. Spend(key) + Cardinality(Waiting(key)) * Dearest <= SpendCap - 1 + peak * Dearest
      BY <1>0, <3>4 DEF SpendCounted
    <3>8. peak' = peak
      BY <1>12 DEF Concluded
    <3>9. CASE kind[r].key = key
      <4>1. SpentBy(key)' = SpentBy(key) \cup {r} /\ r \notin SpentBy(key)
        BY <2>1, <3>1, <3>9 DEF SpentBy
      <4>2. SpentBy(key) \subseteq DOMAIN Cost'
        BY <1>6
      <4>3. Total(Cost', SpentBy(key) \cup {r}) = Cost'[r] + Total(Cost', SpentBy(key))
        BY <1>2, <3>3, <3>6, <4>1, <4>2, SumOfMore
      <4>4. Spend(key)' = Cost'[r] + Spend(key)
        BY <3>5, <3>6, <4>1, <4>3
      <4>5. /\ Cardinality(Waiting(key)') \in Nat
            /\ Cardinality(Waiting(key)) = Cardinality(Waiting(key)') + 1
        <5>1. Waiting(key)' = Waiting(key) \ {r} /\ r \in Waiting(key)
          BY <2>1, <3>9 DEF Waiting
        <5>2. QED
          BY <1>4, <5>1, OneLess, FS_CardinalityType
      <4>6. /\ Cardinality(Waiting(key)) * Dearest = Cardinality(Waiting(key)') * Dearest + Dearest
            /\ Cardinality(Waiting(key)') * Dearest \in Nat /\ peak * Dearest \in Nat
        BY <1>1, <4>5, Times
      <4>7. QED
        BY <1>1, <3>3, <3>5, <3>7, <3>8, <4>4, <4>6, ChatAssumption
    <3>10. CASE kind[r].key # key
      <4>1. SpentBy(key)' = SpentBy(key) /\ Waiting(key)' = Waiting(key)
        BY <1>5, <2>1, <3>1, <3>10 DEF SpentBy, Waiting
      <4>2. QED
        BY <3>5, <3>6, <3>7, <3>8, <4>1
    <3>11. QED
      BY <3>9, <3>10
  <2>5. QED
    BY <2>3, <2>4
<1>13. CASE \/ Reconfigured \/ ClearCache \/ NewAgentDay
            \/ \E r \in Requests : AgeOut(r) \/ FailOver(r)
  <2>1. UNCHANGED <<pc, kind, today>>
    BY <1>13 DEF Reconfigured, ClearCache, NewAgentDay, AgeOut, FailOver
  <2>2. QED
    BY <1>9, <2>1 DEF InFlight, Waiting
<1>14. CASE NewBudgetDay
  <2>1. today' = {} /\ UNCHANGED <<pc, kind, peak>>
    BY <1>14 DEF NewBudgetDay
  <2>2. IsFiniteSet(today')
    BY <2>1, FS_EmptySet
  <2>3. \A key \in Keys : Waiting(key)' \subseteq Waiting(key)
    BY <2>1 DEF InFlight, Waiting
  <2>4. \A key \in Keys : Spend(key)' = 0
    <3>1. \A key \in Keys : SpentBy(key)' = {}
      BY <2>1 DEF SpentBy
    <3>2. \A key \in Keys : Spend(key)' = Total(Cost', {}) /\ Cost' \in [DOMAIN Cost' -> Nat]
      BY <1>0, <1>3, <2>2, <3>1
    <3>3. QED
      BY <3>2, FS_EmptySet, SumOfMore
  <2>5. QED
    BY <1>2, <1>8, <2>2, <2>3, <2>4
<1>15. CASE Restart
  <2>1. InFlight' = {} /\ today' = today
    BY <1>0, <1>15 DEF Restart, InFlight
  <2>2. QED
    BY <1>9, <2>1 DEF Waiting
<1>16. QED
  BY <1>0, <1>10, <1>11, <1>12, <1>13, <1>14, <1>15, StepShape DEF RateCounted

-----------------------------------------------------------------------------
(* What holds in every state.                                              *)

\* Inv is an invariant.
THEOREM Invariance == Spec => []Inv
<1>1. Inv /\ [Next]_vars => Inv'
  BY TypeStep, LifecycleStep, ChargedStep, GovernedStep, RateStep, SpendStep, CacheStep DEF Inv
<1>2. QED
  BY InitInv, <1>1, PTL DEF Spec

\* A response that carries an answer or an audited refusal has exactly one
\* decision, an unaudited refusal none: append_check runs once per request.
THEOREM EveryRequestAuditedOnce == Spec => []AuditedOnce
<1>1. Inv => AuditedOnce
  BY DEF Inv
<1>2. QED
  BY Invariance, <1>1, PTL

\* A sensitive prompt reaches only backends that were approved when it was
\* routed, whatever failover tries and the administrator changes.
THEOREM SensitiveStaysConfined == Spec => []SensitiveConfined
<1>1. Inv => SensitiveConfined
  BY DEF Inv, Lifecycle, Governed, GovernedOne, SensitiveConfined, TypeOK
<1>2. QED
  BY Invariance, <1>1, PTL

\* Under Sovereign Mode a prompt leaves the boundary only for the backend its
\* caller named, at an approved host.
THEOREM SovereignStaysConfined == Spec => []SovereignConfined
<1>1. Inv => SovereignConfined
  BY DEF Inv, Lifecycle, Governed, GovernedOne, SovereignConfined, TypeOK
<1>2. QED
  BY Invariance, <1>1, PTL

\* A key pays once for each answer it was given, and for nothing else.
THEOREM KeysPayOncePerAnswer == Spec => []ChargedExactly
<1>1. Inv => ChargedExactly
  BY DEF Inv
<1>2. QED
  BY Invariance, <1>1, PTL

\* The daily cap of a key and the hourly limit are overshot by what is in flight
\* at once and no more; an agent's cap never is.
THEOREM LimitsAreKept == Spec => []LimitsHold
<1>1. Inv => LimitsHold
  <2> SUFFICES ASSUME Inv PROVE BudgetBound /\ RateBound
    BY DEF Inv, LimitsHold
  <2>1. RateBound
    <3>1. Cardinality(InFlight) \in Nat /\ Cardinality(Answered) \in Nat /\ peak \in Nat
      BY FS_CardinalityType, FS_Subset DEF Inv, RateCounted, Answered, TypeOK
    <3>2. MaxCalls > 0 => Cardinality(Answered) <= MaxCalls - 1 + peak
      BY <3>1, ChatAssumption DEF Inv, RateCounted
    <3>3. QED
      BY <3>2 DEF RateBound, Answered
  <2>2. BudgetBound
    <3>1. SUFFICES ASSUME SpendCap > 0, NEW key \in Keys
                   PROVE  Spend(key) <= SpendCap - 1 + peak * Dearest
      BY DEF BudgetBound
    <3>2. Spend(key) \in Nat
      BY SpendNow DEF Inv, SpendCounted
    <3>3. Cardinality(Waiting(key)) \in Nat
      BY FS_CardinalityType, FS_Subset DEF Inv, RateCounted, Waiting
    <3>4. Cardinality(Waiting(key)) * Dearest \in Nat /\ peak * Dearest \in Nat
      BY <3>3, DearestIs, Times DEF Inv, TypeOK
    <3>5. Spend(key) + Cardinality(Waiting(key)) * Dearest <= SpendCap - 1 + peak * Dearest
      BY <3>1 DEF Inv, SpendCounted
    <3>6. QED
      BY <3>2, <3>4, <3>5, ChatAssumption
  <2>3. QED
    BY <2>1, <2>2
<1>2. QED
  BY Invariance, <1>1, PTL

\* The cache holds answers of clean requests of the same team and prompt, under
\* the name of the backend that gave them as long as requests come one by one.
THEOREM CacheStaysTrue == Spec => []CacheTrue
<1>1. Inv => CacheTrue
  BY DEF Inv, CacheKept, CacheTrue
<1>2. QED
  BY Invariance, <1>1, PTL
=============================================================================
