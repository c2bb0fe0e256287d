---------------------------- MODULE ResponseReuse ----------------------------
(***************************************************************************)
(* The response cache with both of its strategies, its counters, and the   *)
(* features of each endpoint that configure it.  An answer is reused for   *)
(* the identical request, or, where an endpoint reuses semantically, for   *)
(* the most similar question that was asked there.                         *)
(***************************************************************************)
EXTENDS Integers, Sequences, FiniteSets, FiniteSetsExt

CONSTANTS
  Endpoints,      \* backends, and AutoModel for what the router decides
  Kinds,          \* requests: what they ask, of which endpoint, for which team
  Questions,      \* last user messages
  Similarity,     \* <<q, r>> -> cosine of their embeddings, in percent
  Length,         \* question -> "short", "medium", "long", "huge"
  Timely,         \* questions that ask for something current
  FeatureEdits    \* <<endpoint, e>>: the features an owner may name, with their values

Feature == [cache : BOOLEAN, strategy : {"exact", "semantic", "smart"}, threshold : 0..100,
            compression : BOOLEAN, mode : {"baseline", "aggressive", "smart"}]

FeatureTable(table) ==
  DOMAIN table \subseteq Endpoints /\ \A ep \in DOMAIN table : table[ep] \in Feature

ASSUME ReuseAssumption ==
  /\ Similarity \in [Questions \X Questions -> 0..100]
  /\ Timely \subseteq Questions
  /\ \A e \in FeatureEdits : \E f \in Feature :
       /\ e[1] \in Endpoints
       /\ DOMAIN e[2] \subseteq DOMAIN f /\ \A n \in DOMAIN e[2] : e[2][n] = f[n]

VARIABLES
  features,   \* table endpoint_features: endpoint -> its features
  cache,      \* table response_cache, oldest first
  savings,    \* table cache_savings: the endpoint of each row
  trimmed     \* table compression_savings: the endpoint and mode of each row

reuseVars == <<features, cache, savings, trimmed>>

\* What applies without a row, and the columns' own defaults.
NoRow == [cache |-> TRUE, strategy |-> "smart", threshold |-> 90,
          compression |-> TRUE, mode |-> "smart"]
NewRow == [cache |-> FALSE, strategy |-> "exact", threshold |-> 100,
           compression |-> FALSE, mode |-> "baseline"]

Config(ep) == IF ep \in DOMAIN features THEN features[ep] ELSE NoRow

\* set_config: the row is made if there is none, and then edited.
Configured(ep, e) ==
  LET row == IF ep \in DOMAIN features THEN features[ep] ELSE NewRow
      edited == [n \in DOMAIN row |-> IF n \in DOMAIN e THEN e[n] ELSE row[n]]
  IN [x \in DOMAIN features \cup {ep} |-> IF x = ep THEN edited ELSE features[x]]

-----------------------------------------------------------------------------
IsCacheable(k) == ~k.sensitive /\ Config(k.endpoint).cache /\ k.deterministic

\* "smart" decides per question: what is current is never reused.
SmartStrategy(q) ==
  IF q \in Timely THEN "skip" ELSE IF Length[q] = "short" THEN "exact" ELSE "semantic"

EffectiveStrategy(k) ==
  IF Config(k.endpoint).strategy = "smart" THEN SmartStrategy(k.question)
  ELSE Config(k.endpoint).strategy

\* The cache key: the model string, all messages and the parameters.
CacheKey(k) == [model |-> k.model, question |-> k.question, context |-> k.context,
                parameters |-> k.parameters]

Exact(k) == {i \in DOMAIN cache : cache[i].key = CacheKey(k) /\ cache[i].team = k.team}

\* Mutant: the answers of every team are compared.
Similar_AnyTeam(k) ==
  {i \in DOMAIN cache : cache[i].endpoint = k.endpoint /\ cache[i].embedded}

\* What the semantic lookup compares: the question only.
Similar(k) ==
  {i \in DOMAIN cache : /\ cache[i].team = k.team
                        /\ cache[i].endpoint = k.endpoint
                        /\ cache[i].embedded}

\* lookup: the row to reuse, or 0.
Lookup(k) ==
  LET strategy == EffectiveStrategy(k)
      Sim(i) == Similarity[k.question, cache[i].key.question]
      threshold == Config(k.endpoint).threshold
      Best == {i \in Similar(k) : Sim(i) > 0 /\ \A j \in Similar(k) :
                 Sim(j) < Sim(i) \/ (Sim(j) = Sim(i) /\ i <= j)}
      Near == {i \in Best : strategy = "semantic" /\ threshold < 100 /\ Sim(i) >= threshold}
      Found == IF strategy = "skip" THEN {} ELSE IF Exact(k) # {} THEN Exact(k) ELSE Near
  IN IF Found = {} THEN 0 ELSE CHOOSE i \in Found : TRUE

\* store: a row of the same key gets the new answer and embedding, and keeps its
\* backend and its hits.  `embeds`: the embedding model answers.
\* history: by, the request that was answered.
Stored(k, backend, embeds) ==
  LET embedded == EffectiveStrategy(k) = "semantic" /\ embeds IN
  IF EffectiveStrategy(k) = "skip" THEN cache
  ELSE IF Exact(k) # {}
    THEN LET i == CHOOSE i \in Exact(k) : TRUE IN
         [cache EXCEPT ![i].by = k, ![i].endpoint = k.endpoint, ![i].embedded = embedded]
  ELSE Append(cache, [key |-> CacheKey(k), team |-> k.team, endpoint |-> k.endpoint,
                      backend |-> backend, embedded |-> embedded, hits |-> 0, by |-> k])

\* record_hit: one transaction; the row may be gone by now.
Hit(entry) ==
  /\ cache' = [i \in DOMAIN cache |->
                 IF cache[i].key = entry.key /\ cache[i].team = entry.team
                 THEN [cache[i] EXCEPT !.hits = @ + 1] ELSE cache[i]]
  /\ savings' = Append(savings, entry.endpoint)

\* Mutant: the savings stay.
Clear_KeepsSavings == cache' = <<>> /\ UNCHANGED savings

\* clear: both tables, in one transaction.
Clear == cache' = <<>> /\ savings' = <<>>

-----------------------------------------------------------------------------
(* Compression, of the question that is sent and scored, not of the key.   *)

EffectiveMode(k) ==
  LET c == Config(k.endpoint) IN
  IF ~c.compression THEN "skip"
  ELSE IF c.mode # "smart" THEN c.mode
  ELSE CASE Length[k.question] \in {"short", "medium"} -> "skip"
         [] Length[k.question] = "long" -> "baseline"
         [] Length[k.question] = "huge" -> "aggressive"

\* record: only what a mode shortens is counted.
Trimmed(k) == IF EffectiveMode(k) # "skip" /\ EffectiveMode(k) \in k.shortens
              THEN Append(trimmed, <<k.endpoint, EffectiveMode(k)>>) ELSE trimmed

\* The difficulty of what is sent: some questions are hard by their length only.
SentDifficulty(k) ==
  IF EffectiveMode(k) \in k.eases THEN "easy" ELSE k.difficulty

-----------------------------------------------------------------------------
ReuseInit ==
  /\ cache = <<>> /\ savings = <<>> /\ trimmed = <<>>

ReuseTypeOK ==
  /\ FeatureTable(features)
  /\ \A i \in DOMAIN cache : cache[i].by \in Kinds /\ cache[i].endpoint \in Endpoints
  /\ \A i, j \in DOMAIN cache :
       cache[i].key = cache[j].key /\ cache[i].team = cache[j].team => i = j
=============================================================================
