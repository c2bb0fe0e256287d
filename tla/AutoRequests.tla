---------------------------- MODULE AutoRequests -----------------------------
(***************************************************************************)
(* Requests that passed the gates, from the cache to the charge: reuse of  *)
(* an earlier answer, compression, choice of the backend, the answer, what *)
(* is stored, traced, charged and learned - while owners change features,  *)
(* prices and routing, rate answers and clear the cache.                   *)
(*                                                                         *)
(* All of it runs on the event loop, which is free during inference; only  *)
(* clearing the cache runs in the thread pool.  Every read and write of    *)
(* the cache, the traces and the learning loop is fail-soft.               *)
(***************************************************************************)
EXTENDS LearningLoop, ResponseReuse

CONSTANTS
  Requests,         \* each is made once
  Latencies,        \* observed latencies
  Usages,           \* tokens of an answer
  PriceEdits,       \* rows an owner may enter
  Brains,           \* which router org settings and the environment choose
  InitialFeatures,  \* tables an earlier process left
  InitialTraces,
  InitialPrices,
  Ratings,          \* bound: the ratings given, of -1, 0 and 1
  MaxChanges        \* bound: changes by owners and raters, and restarts
                    \* that cut off requests

AutoModel == 0
ASSUME AutoAssumption ==
  /\ Endpoints = Backends \cup {AutoModel}
  /\ Requests \subseteq Ids /\ None \notin Requests
  /\ \A k \in Kinds :
       /\ k.endpoint \in Endpoints /\ k.question \in Questions
       /\ k.intent \in Intents /\ k.difficulty \in {"easy", "hard"}
       /\ k.sensitive \in BOOLEAN /\ k.deterministic \in BOOLEAN
       /\ k.allowed \in {None} \cup SUBSET Backends
  /\ \A k, l \in Kinds : k.model = l.model => k.endpoint = l.endpoint
  /\ Latencies \subseteq Nat
  /\ Usages \subseteq [input : Nat, output : Nat]
  /\ PriceEdits \subseteq Row
  /\ \A table \in InitialPrices : PriceTable(table)
  /\ \A table \in InitialFeatures : FeatureTable(table)
  /\ \A table \in InitialTraces :
       TraceTable(table) /\ Rewarded(table) /\ DOMAIN table \cap Requests = {}
  /\ Brains \subseteq {"rules", "llm", "learned"}
  /\ Ratings \subseteq -1..1
  /\ MaxChanges \in Nat

VARIABLES
  brain,     \* the router that is chosen
  req,       \* each request
  loop,      \* the request in the middle of its handler, or None
  changes,
  raced      \* history: the cache was cleared between a hit and its record

routeVars == <<latency, sovereign, routeTraces, brain>>
vars == <<priceVars, routeVars, reuseVars, req, loop, changes, raced>>

Unseen == [stage |-> "unseen"]

Init ==
  /\ prices \in InitialPrices /\ today = 0
  /\ latency = [b \in Backends |-> None]
  /\ sovereign \in BOOLEAN
  /\ routeTraces \in InitialTraces
  /\ brain \in Brains
  /\ features \in InitialFeatures
  /\ ReuseInit
  /\ req = [r \in Requests |-> Unseen]
  /\ loop = None /\ changes = 0 /\ raced = FALSE

Changed == changes < MaxChanges /\ changes' = changes + 1
IsAuto(k) == k.endpoint = AutoModel

-----------------------------------------------------------------------------
(* The handler.                                                            *)

\* A backend that is named has to exist and, in Sovereign Mode, to be inside.
Resolves(k) ==
  ~IsAuto(k) => /\ k.endpoint \in NamesOf(DOMAIN Registry)
                /\ sovereign => InBoundary[k.endpoint]

\* The cache has an answer: from here to the record nothing else runs on the loop.
FindHit(r, k) ==
  /\ loop = None /\ req[r] = Unseen
  /\ Resolves(k) /\ IsCacheable(k)
  /\ Lookup(k) # 0
  /\ LET entry == cache[Lookup(k)] IN
     req' = [req EXCEPT ![r] = [stage |-> "hit", kind |-> k, entry |-> entry]]
  /\ loop' = r
  /\ UNCHANGED <<priceVars, routeVars, reuseVars, changes, raced>>

Reused(k, charged) ==
  [stage |-> "served", kind |-> k, reused |-> TRUE, traced |-> 0, charged |-> charged]

\* Mutant: a hit costs what the answer did.
ServeHit_Charged(r) ==
  /\ loop = r /\ req[r].stage = "hit"
  /\ Hit(req[r].entry)
  /\ loop' = None
  /\ \E t \in Usages : req' = [req EXCEPT ![r] =
       Reused(@.kind, CostOf(@.entry.backend, AnyModel, t))]
  /\ UNCHANGED <<priceVars, routeVars, features, trimmed, changes, raced>>

\* record_hit, the trace, and a charge of nothing.
ServeHit(r) ==
  /\ loop = r /\ req[r].stage = "hit"
  /\ Hit(req[r].entry) \/ UNCHANGED <<cache, savings>>
  /\ loop' = None
  /\ req' = [req EXCEPT ![r] = Reused(@.kind, 0)]
  /\ UNCHANGED <<priceVars, routeVars, features, trimmed, changes, raced>>

\* The plans a brain may make: the intent model answers anything, or nothing.
BrainPlans(k, cands) ==
  {BrainPlan(brain, SentDifficulty(k), k.intent, cands, k.allowed, c) :
     c \in IF brain = "rules" THEN {None} ELSE Classes \cup {None}}

Inferring(k, plan, eligible, known) ==
  [stage |-> "inferring", kind |-> k, plan |-> plan, eligible |-> eligible,
   known |-> known, cacheable |-> IsCacheable(k)]

\* No answer is reused - there is none, or its lookup failed - and the router
\* decides: the best scored candidate replaces the brain's, or the scoring
\* raises.  The cache's verdict, the plan and the candidates are kept over the
\* inference.
StartAuto(r, k) ==
  /\ loop = None /\ req[r] = Unseen
  /\ IsAuto(k)
  /\ trimmed' = Trimmed(k)
  /\ LET cands == Candidates(k.allowed)
         Go(b, known) == req' = [req EXCEPT ![r] = Inferring(k, b, NamesOf(cands), known)]
     IN \/ cands = {} /\ req' = [req EXCEPT ![r] = [stage |-> "refused"]]
        \/ /\ cands # {}
           /\ Go(SmartTarget(SentDifficulty(k), k.intent, cands),
                 {Scored(b) : b \in NamesOf(cands)})
        \/ cands # {} /\ \E b \in BrainPlans(k, cands) : Go(b, {})
  /\ UNCHANGED <<priceVars, routeVars, features, cache, savings, loop, changes, raced>>

\* A request that names its backend.
StartNamed(r, k) ==
  /\ loop = None /\ req[r] = Unseen
  /\ ~IsAuto(k) /\ Resolves(k)
  /\ trimmed' = Trimmed(k)
  /\ req' = [req EXCEPT ![r] =
               Inferring(k, k.endpoint, {k.endpoint}, {})]
  /\ UNCHANGED <<priceVars, routeVars, features, cache, savings, loop, changes, raced>>

\* The engine observes the latency of an answer; a named backend is asked
\* without it.
Observe(r, b) ==
  IF IsAuto(req[r].kind) THEN \E ms \in Latencies : latency' = [latency EXCEPT ![b] = ms]
  ELSE UNCHANGED latency

\* The model a trace looks its price up with: the one of the backend that
\* answered an auto request, and the whole model string of a named one.
TracedModel(k, b) == IF IsAuto(k) THEN ModelOf[b] ELSE AnyModel

\* A clean answer of backend b: stored, and traced with its cost.
Answer(r, b, tokens) ==
  /\ loop = None /\ req[r].stage = "inferring" /\ b \in req[r].eligible
  /\ LET k == req[r].kind IN
     /\ \/ UNCHANGED cache
        \/ req[r].cacheable /\ \E embeds \in BOOLEAN : cache' = Stored(k, b, embeds)
     /\ req' = [req EXCEPT ![r] =
          [stage |-> "traced", kind |-> k, backend |-> b, plan |-> @.plan, tokens |-> tokens,
           traced |-> CostOf(b, TracedModel(k, b), tokens), since |-> today]]
  /\ Observe(r, b)
  /\ loop' = r
  /\ UNCHANGED <<priceVars, sovereign, routeTraces, brain, features, savings, trimmed,
                 changes, raced>>

\* history: who answered, and why the trace may tell another cost.
Settled(k, b, plan, traced, tokens, since) ==
  [stage |-> "served", kind |-> k, reused |-> FALSE, traced |-> traced,
   charged |-> CostOf(b, AnyModel, tokens), answered |-> b, fell |-> b # plan,
   late |-> since # today,
   own |-> \E row \in InEffect(b, TracedModel(k, b)) : row.model # AnyModel]

\* The charge, at the price of the whole backend, and the trace to learn from,
\* with the difficulty of the question as it was asked.
Settle(r) ==
  /\ loop = r /\ req[r].stage = "traced"
  /\ LET k == req[r].kind
         b == req[r].backend
         done == Settled(k, b, req[r].plan, req[r].traced, req[r].tokens, req[r].since)
     IN /\ req' = [req EXCEPT ![r] = done]
        /\ \/ UNCHANGED routeTraces
           \/ IsAuto(k) /\ routeTraces' = Recorded(r, NewTrace(k.difficulty, b, done.fell))
  /\ loop' = None
  /\ UNCHANGED <<priceVars, latency, sovereign, brain, reuseVars, changes, raced>>

\* The backends fail, or the answer is blocked: no charge and nothing to learn.
Fail(r) ==
  /\ loop = None /\ req[r].stage = "inferring"
  /\ req' = [req EXCEPT ![r] = [stage |-> "refused"]]
  /\ UNCHANGED latency \/ \E b \in req[r].eligible : Observe(r, b)
  /\ UNCHANGED <<priceVars, sovereign, routeTraces, brain, reuseVars, loop, changes, raced>>

-----------------------------------------------------------------------------
(* Administration.                                                         *)

PutFeatures(ep, e) ==
  /\ loop = None /\ Changed
  /\ features' = Configured(ep, e)
  /\ UNCHANGED <<priceVars, routeVars, cache, savings, trimmed, req, loop, raced>>

SetPricing(row) ==
  /\ loop = None /\ Changed
  /\ Upsert(row)
  /\ UNCHANGED <<today, routeVars, reuseVars, req, loop, raced>>

SubmitFeedback(id, rating) ==
  /\ loop = None /\ Changed
  /\ ApplyFeedback(id, rating)
  /\ UNCHANGED <<priceVars, latency, sovereign, brain, reuseVars, req, loop, raced>>

\* In the thread pool: also while the loop is between a hit and its record.
ClearCache ==
  /\ Changed
  /\ Clear
  /\ raced' = (loop # None /\ req[loop].stage = "hit")
  /\ UNCHANGED <<priceVars, routeVars, features, trimmed, req, loop>>

NextDay ==
  /\ Midnight
  /\ UNCHANGED <<routeVars, reuseVars, req, loop, changes, raced>>

\* Requests under way and observed latencies are gone, the tables stay.
Restart ==
  /\ Changed \/ UNCHANGED <<req, changes>>
  /\ loop' = None
  /\ req' = [r \in Requests |-> IF req[r].stage \in {"unseen", "served"} THEN req[r]
                                ELSE [stage |-> "refused"]]
  /\ latency' = [b \in Backends |-> None]
  /\ UNCHANGED <<priceVars, sovereign, routeTraces, brain, reuseVars, raced>>

Handle(r) ==
  \/ \E k \in Kinds : FindHit(r, k) \/ StartAuto(r, k) \/ StartNamed(r, k)
  \/ ServeHit(r)
  \/ \E b \in Backends, tokens \in Usages : Answer(r, b, tokens)
  \/ Settle(r)
  \/ Fail(r)

Administer ==
  \/ \E e \in FeatureEdits : PutFeatures(e[1], e[2])
  \/ \E row \in PriceEdits : SetPricing(row)
  \/ \E id \in Ids, rating \in Ratings : SubmitFeedback(id, rating)
  \/ ClearCache

Next ==
  \/ \E r \in Requests : Handle(r)
  \/ Administer
  \/ NextDay
  \/ Restart

Spec == Init /\ [][Next]_vars
-----------------------------------------------------------------------------
Stages == {"unseen", "refused", "hit", "inferring", "traced", "served"}

TypeOK ==
  /\ PricesTypeOK
  /\ LearningTypeOK
  /\ ReuseTypeOK
  /\ latency \in [Backends -> Latencies \cup {None}]
  /\ \A r \in Requests : /\ req[r].stage \in Stages
                         /\ req[r].stage \in {"hit", "traced"} <=> loop = r
  /\ changes \in 0..MaxChanges

Waiting == {r \in Requests : req[r].stage = "inferring"}

\* "Never escapes the governance filter or the eligible-candidate set": whatever
\* the brain, what it learned - also of backends that are gone or outside the
\* boundary - and whether the scoring raises, a request is sent to an eligible
\* backend that governance allows.
NeverEscapes ==
  \A r \in Waiting :
    LET b == req[r].plan IN
    /\ b \in NamesOf(DOMAIN Registry)
    /\ sovereign => InBoundary[b]
    /\ IsAuto(req[r].kind) /\ req[r].kind.allowed # None => b \in req[r].kind.allowed

Spread(values) == Max(values) - Min(values)

\* No other that was scored has at least the plan's quality for at most its cost
\* and its latency, and is better in one of them - in cost or latency by more than
\* a two-hundredth of the candidates' spread, which is what the rounding of the
\* scores hides.
NothingBetter(plan, known) ==
  \A c, d \in known :
    /\ c.target = plan
    /\ d.quality >= c.quality /\ d.cost <= c.cost /\ d.latency <= c.latency
    => /\ d.quality = c.quality
       /\ ~(200 * (c.cost - d.cost) > Spread({x.cost : x \in known}))
       /\ ~(200 * (c.latency - d.latency) > Spread({x.latency : x \in known}))

\* The scored choice is never dominated by another candidate.
Undominated == \A r \in Waiting : NothingBetter(req[r].plan, req[r].known)

\* Answers are reused within a team and an endpoint, by and from requests that
\* are neither sensitive nor random; the answer to another request only where
\* the endpoint reuses semantically, was doing so when it stored it, and the
\* questions are as similar as the owner asks.
ReuseScoped ==
  \A r \in Requests : req[r].stage = "hit" =>
    LET k == req[r].kind
        by == req[r].entry.by
    IN /\ by.team = k.team /\ by.endpoint = k.endpoint
       /\ ~k.sensitive /\ ~by.sensitive
       /\ k.deterministic /\ by.deterministic
       /\ CacheKey(k) # CacheKey(by) =>
            /\ EffectiveStrategy(k) = "semantic" /\ req[r].entry.embedded
            /\ Similarity[k.question, by.question] >= Config(k.endpoint).threshold

\* An endpoint's savings have a row for each hit its answers count, and no other
\* unless the cache was cleared between a hit and its record.
HitsAccounted ==
  \A ep \in Endpoints :
    LET hits == MapThenSumSet(LAMBDA i : cache[i].hits,
                              {i \in DOMAIN cache : cache[i].endpoint = ep})
        rows == Cardinality({i \in DOMAIN savings : savings[i] = ep})
    IN hits <= rows /\ (~raced => hits = rows)

\* What is learned: only routed answers leave a trace, of the backend that
\* answered, in the bucket of the question; and however often an answer was
\* rated, its reward is that of the last rating.
LearnsOutcomes ==
  /\ Rewarded(routeTraces)
  /\ \A id \in DOMAIN routeTraces \cap Requests :
       LET t == routeTraces[id] IN
         /\ req[id].stage = "served" /\ ~req[id].reused
         /\ IsAuto(req[id].kind)
         /\ t.backend = req[id].answered /\ t.fell = req[id].fell
         /\ t.difficulty = req[id].kind.difficulty

\* Billback and budget tell one story: a request is charged what its trace
\* reports, nothing if it was answered from the cache - unless the model that
\* answered has a price of its own, or midnight fell between the two.
BilledAsTraced ==
  \A r \in Requests : req[r].stage = "served" =>
    IF req[r].reused THEN req[r].charged = 0 /\ req[r].traced = 0
    ELSE ~req[r].own /\ ~req[r].late => req[r].charged = req[r].traced

\* The learning loop never learns what did not happen and never prefers what was
\* not earned: the table has the answers' own outcomes with their last rating,
\* and the preference is a best backend of those with enough of them.
LearningSound == TypeOK /\ LearnsOutcomes /\ PreferenceEarned
=============================================================================
