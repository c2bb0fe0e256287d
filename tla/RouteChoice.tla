----------------------------- MODULE RouteChoice -----------------------------
(***************************************************************************)
(* Which backend an auto request is sent to.  A brain - rules, the intent  *)
(* model, or what was learned from earlier answers - makes a plan, and the *)
(* two-stage router replaces its backend by the best scored candidate,     *)
(* unless the scoring raises.  Nothing here changes state.                 *)
(***************************************************************************)
EXTENDS Prices, Sequences, FiniteSetsExt

CONSTANTS
  Registry,     \* the backends in the order they were registered
  Tier,         \* backend -> 1, 2 or 3
  InBoundary,   \* backend -> inside the trust boundary
  ModelOf,      \* backend -> its default model
  MinTraces,    \* MIN_TRACES of the learning loop
  None

ASSUME RouteAssumption ==
  /\ Registry \in Seq(Backends)
  /\ Tier \in [Backends -> 1..3]
  /\ InBoundary \in [Backends -> BOOLEAN]
  /\ ModelOf \in [Backends -> Models \cup {AnyModel}]
  /\ MinTraces \in Nat \ {0}
  /\ None \notin Backends /\ \A allowed \in SUBSET Backends : None # allowed

VARIABLES
  latency,      \* backend -> last observed latency, or None
  sovereign,    \* Sovereign Mode
  routeTraces   \* table route_traces: id -> [difficulty, backend, fell, rating, reward]

Intents == {"automatic", "cheapest", "fastest", "best-quality"}
Classes == [goal : {"cost", "speed", "quality"}, difficulty : {"easy", "hard"}]

\* Eligible backends, as positions in the registry; `allowed` is None where
\* governance does not restrict.
Candidates(allowed) ==
  {i \in DOMAIN Registry : /\ sovereign => InBoundary[Registry[i]]
                           /\ allowed = None \/ Registry[i] \in allowed}

NamesOf(cands) == {Registry[i] : i \in cands}

-----------------------------------------------------------------------------
(* The brains.  min and max take the first of several.                     *)

LeastBy(cands, Key(_)) ==
  Registry[Min({i \in cands : \A j \in cands : Key(Registry[i]) <= Key(Registry[j])})]

Never == 1000000   \* the latency of a backend that was not observed

Cheapest(cands) == LeastBy(cands, LAMBDA b : PriceOf(b, ModelOf[b]).input)
Fastest(cands) == LeastBy(cands, LAMBDA b : IF latency[b] = None THEN Never ELSE latency[b])
Strongest(cands) == LeastBy(cands, LAMBDA b : -Tier[b])

RulesPlan(difficulty, intent, cands) ==
  CASE intent = "cheapest" -> Cheapest(cands)
    [] intent = "fastest" -> Fastest(cands)
    [] intent \in {"automatic", "best-quality"} ->
         IF difficulty = "hard" THEN Strongest(cands) ELSE Cheapest(cands)

\* The intent model is asked about automatic requests only; None: no answer.
LLMPlan(difficulty, intent, cands, class) ==
  IF intent # "automatic" \/ class = None THEN RulesPlan(difficulty, intent, cands)
  ELSE IF class.goal = "quality" \/ class.difficulty = "hard" THEN Strongest(cands)
  ELSE IF class.goal = "speed" THEN Fastest(cands)
  ELSE Cheapest(cands)

\* preference: the backend with the best mean reward in a bucket, of those with
\* enough traces; it has to be positive.  Ties go to the first name.
Bucket(difficulty, b) ==
  {id \in DOMAIN routeTraces : /\ routeTraces[id].difficulty = difficulty
                               /\ routeTraces[id].backend = b}
Rewards(ids) == MapThenSumSet(LAMBDA id : routeTraces[id].reward, ids)
Better(ids, others) == Rewards(ids) * Cardinality(others) > Rewards(others) * Cardinality(ids)

\* One backend more, after those with smaller names.
Prefer(difficulty, allowed, b, best) ==
  LET ids == Bucket(difficulty, b) IN
  IF /\ Cardinality(ids) >= MinTraces
     /\ allowed = None \/ b \in allowed
     /\ IF best = None THEN Rewards(ids) > 0
        ELSE Better(ids, Bucket(difficulty, best))
  THEN b ELSE best

Preference(difficulty, allowed) ==
  MapThenFoldSet(LAMBDA b, best : Prefer(difficulty, allowed, b, best), None,
                 LAMBDA b : b, Max, Backends)

\* Mutant: the preferred backend is taken as it is.
LearnedPlan_Unchecked(difficulty, intent, cands, allowed, class) ==
  LET best == Preference(difficulty, allowed) IN
  IF intent = "automatic" /\ best # None THEN best
  ELSE LLMPlan(difficulty, intent, cands, class)

\* The preferred backend replaces the one of the plan, if it is a candidate.
LearnedPlan(difficulty, intent, cands, allowed, class) ==
  LET best == Preference(difficulty, allowed) IN
  IF intent = "automatic" /\ best \in NamesOf(cands) THEN best
  ELSE LLMPlan(difficulty, intent, cands, class)

BrainPlan(brain, difficulty, intent, cands, allowed, class) ==
  CASE brain = "rules" -> RulesPlan(difficulty, intent, cands)
    [] brain = "llm" -> LLMPlan(difficulty, intent, cands, class)
    [] brain = "learned" -> LearnedPlan(difficulty, intent, cands, allowed, class)

-----------------------------------------------------------------------------
(* The scores, in ten-thousandths; weights and qualities in hundredths.    *)

Quality(b) == <<50, 75, 95>>[Tier[b]]

Weights(intent) ==
  CASE intent = "cheapest" -> [quality |-> 30, cost |-> 100, latency |-> 20]
    [] intent = "fastest" -> [quality |-> 30, cost |-> 20, latency |-> 100]
    [] intent = "smartest" -> [quality |-> 100, cost |-> 2, latency |-> 2]

\* An automatic request gets its intent from its difficulty.
CatalogIntent(intent, difficulty) ==
  CASE intent \in {"cheapest", "fastest"} -> intent
    [] intent = "best-quality" -> "smartest"
    [] intent = "automatic" -> IF difficulty = "hard" THEN "smartest" ELSE "cheapest"

\* What is compared.  A latency that was not observed counts as 0, and the cost
\* is the mean of the two prices, here twice that.
Scored(b) ==
  LET p == PriceOf(b, ModelOf[b]) IN
  [target |-> b, quality |-> Quality(b), cost |-> p.input + p.output,
   latency |-> IF latency[b] = None THEN 0 ELSE latency[b]]

\* n / d, rounded
Rounded(n, d) == (2 * n + d) \div (2 * d)

\* Mutant: costs and latencies are rewarded.
Score_Adds(w, c, all) ==
  LET costs == {x.cost : x \in all}
      lats == {x.latency : x \in all}
      dc == IF Max(costs) > Min(costs) THEN Max(costs) - Min(costs) ELSE 1
      dl == IF Max(lats) > Min(lats) THEN Max(lats) - Min(lats) ELSE 1
  IN Rounded(w.quality * c.quality * dc * dl + 100 * w.cost * (c.cost - Min(costs)) * dl
               + 100 * w.latency * (c.latency - Min(lats)) * dc,
             dc * dl)

\* Cost and latency are normalised over the candidates.
Score(w, c, all) ==
  LET costs == {x.cost : x \in all}
      lats == {x.latency : x \in all}
      dc == IF Max(costs) > Min(costs) THEN Max(costs) - Min(costs) ELSE 1
      dl == IF Max(lats) > Min(lats) THEN Max(lats) - Min(lats) ELSE 1
  IN Rounded(w.quality * c.quality * dc * dl - 100 * w.cost * (c.cost - Min(costs)) * dl
               - 100 * w.latency * (c.latency - Min(lats)) * dc,
             dc * dl)

\* The highest score, then the highest quality, then the first name.
Resolve(intent, all) ==
  LET s(c) == Score(Weights(intent), c, all) IN
  (CHOOSE c \in all : \A d \in all \ {c} :
     \/ s(c) > s(d)
     \/ s(c) = s(d) /\ c.quality > d.quality
     \/ s(c) = s(d) /\ c.quality = d.quality /\ c.target < d.target).target

SmartTarget(difficulty, intent, cands) ==
  Resolve(CatalogIntent(intent, difficulty), {Scored(b) : b \in NamesOf(cands)})

-----------------------------------------------------------------------------
\* "A backend needs at least MIN_TRACES rewarded traces in a bucket before it
\* can be preferred, and only if its mean reward is positive": whether all
\* backends may be chosen or one of them may not, the preference is a best one of
\* those that earned it, and there is one if any did.
PreferenceEarned ==
  LET known == {routeTraces[id].backend : id \in DOMAIN routeTraces} IN
  \A difficulty \in {routeTraces[id].difficulty : id \in DOMAIN routeTraces} :
    LET traces == [b \in known |-> Bucket(difficulty, b)]
        earned == {b \in known : /\ Cardinality(traces[b]) >= MinTraces
                                 /\ Rewards(traces[b]) > 0}
    IN \A without \in {{}} \cup {{b} : b \in known} :
         LET best == Preference(difficulty, IF without = {} THEN None ELSE known \ without)
         IN IF earned \ without = {} THEN best = None
            ELSE /\ best \in earned \ without
                 /\ \A b \in earned \ without : ~Better(traces[b], traces[best])
=============================================================================
