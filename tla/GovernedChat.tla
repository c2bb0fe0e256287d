---------------------------- MODULE GovernedChat ----------------------------
(***************************************************************************)
(* The life of a chat request: the gateway's gates (license, key budget,   *)
(* sovereignty, team scope, agent cap), the governed pipeline (firewall,   *)
(* sensitive routing, rate limit, response cache), inference with          *)
(* failover, and what is recorded afterwards (cache entry, audit decision, *)
(* charge).                                                                *)
(*                                                                         *)
(* The handler runs on the event loop and waits only for a backend, so a   *)
(* request is: one atomic segment up to its first prompt, one segment per  *)
(* failover, one segment after the last answer.  Between segments anything *)
(* may happen: other requests, an administrator, the clock, a restart.     *)
(* What the first segment decided is kept and used by the later ones.      *)
(***************************************************************************)
EXTENDS Naturals, FiniteSets, FiniteSetsExt

CONSTANTS
  Requests,        \* the requests clients send
  Kinds,           \* what a request may ask (see Kind)
  Keys, Teams, Agents, Prompts,
  Backends,
  Outside,         \* backends outside the network boundary
  AutoModel,            \* model "auto": the router chooses the backend
  None,
  TeamScope,       \* team -> backends it may name
  Price,           \* backend -> cost of one answer
  SpendCap,        \* cost_cap_daily of every key; 0 is no cap
  MaxCalls,        \* max_calls_per_hour of the blocking policy; 0 is no policy
  AgentCap,        \* daily_request_cap of every agent
  MaxInFlight,     \* bound: requests inside inference at once
  Changes,         \* bound: what the administrator and the clock change
  StorageMayFail   \* whether a SQLite write may raise

\* A request: who calls, for which backend, what the firewall finds in the
\* prompt, and whether temperature allows the cache to be used.
Kind == [key : Keys \cup {None}, team : Teams, agent : Agents \cup {None},
         backend : Backends \cup {AutoModel}, prompt : Prompts,
         sensitive : BOOLEAN, injection : BOOLEAN, deterministic : BOOLEAN]

\* `rejected` is a refusal the code does not audit; `error` an exception that
\* reaches the client as HTTP 500, `aborted` one after a prompt was sent; `lost`
\* a request a restart cut off.
Outcomes ==
  {"served", "hit", "refused", "failed", "rejected", "error", "aborted", "lost"}

ASSUME ChatAssumption ==
  /\ Kinds \subseteq Kind
  /\ IsFiniteSet(Backends) /\ Outside \subseteq Backends
  /\ AutoModel \notin Backends /\ None \notin Backends \cup Keys \cup Agents \cup Requests \cup Outcomes
  /\ TeamScope \in [Teams -> SUBSET Backends]
  /\ Price \in [Backends -> Nat]
  /\ SpendCap \in Nat /\ MaxCalls \in Nat /\ AgentCap \in Nat
  /\ MaxInFlight \in Nat \ {0}
  /\ Changes \subseteq {"sovereign", "sensitive", "egress", "license", "hour", "day"}
  /\ StorageMayFail \in BOOLEAN

VARIABLES
  licensed,     \* the license gate lets inference through
  sovereign,    \* effective Sovereign Mode
  approved,     \* table sensitive_backends
  egress,       \* outside backends whose host an owner approved
  decisions,    \* number of audit_log rows of each request
  recent,       \* requests whose audit_log row is less than an hour old
  key_usage,    \* requests with a charge in table key_usage
  today,        \* those charged since the organisation's last midnight
  agent_usage,  \* table agent_usage, today
  cache,        \* table response_cache
  pc,           \* where each request is
  kind,         \* what each request asks
  route,        \* what governance allowed when the request was routed
  sent,         \* backends a request in flight has sent its prompt to
  sealed,       \* history: those it reached while Sovereign Mode was on
  answer,       \* the backend that answered the request
  outcome,      \* how the request ended
  peak          \* history: most requests in flight at an admission

admin   == <<licensed, sovereign, approved, egress>>
audit   == <<decisions, recent>>
usage   == <<key_usage, today, agent_usage>>
request == <<pc, kind, route, sent, sealed, answer, outcome, peak>>
vars    == <<admin, audit, usage, cache, request>>

Route == [candidates : SUBSET Backends, sovereign : BOOLEAN,
          approved : SUBSET Backends, egress : SUBSET Outside]

\* cache_key(model_str, messages, kw) and the team.
CacheKey(k) == <<k.team, k.backend, k.prompt>>
CacheKeys == {CacheKey(k) : k \in Kinds}

\* An entry's backend column, and (history) the request that produced its
\* response.
Entry == [backend : Backends, by : Requests]

InFlight == {r \in Requests : pc[r] = "inferring"}

-----------------------------------------------------------------------------
(* What the gates read.                                                    *)

\* spend: the key's cost today.
Spend(key) ==
  MapThenSumSet(LAMBDA r : Price[answer[r]], {r \in today : kind[r].key = key})

\* Mutant: a key is stopped only when its cap is exceeded.
OverBudget_Exceeded(k) == k.key # None /\ SpendCap > 0 /\ Spend(k.key) > SpendCap

\* budgets.check, for a caller with a key.
OverBudget(k) == k.key # None /\ SpendCap > 0 /\ Spend(k.key) >= SpendCap

\* enforce_backend: an explicitly named outside backend needs an approved host.
SovereignBlocks(k) == sovereign /\ k.backend \in Outside \ egress

\* An explicit backend that sovereignty or the team's scope refuses.
OutOfBounds(k) ==
  k.backend # AutoModel /\ (SovereignBlocks(k) \/ k.backend \notin TeamScope[k.team])

\* check_and_record_agent refuses.
AgentSpent(k) == k.agent # None /\ agent_usage[k.agent] >= AgentCap

Admitted(k) == licensed /\ ~OverBudget(k) /\ ~OutOfBounds(k) /\ ~AgentSpent(k)

\* block_reason: a sensitive request names a backend that is not approved; no
\* approved backend at all means the filter is off.
SensitiveBlocks(k) ==
  k.sensitive /\ k.backend # AutoModel /\ approved # {} /\ k.backend \notin approved

\* _violation of the rate-limit policy: every audited request of the last hour
\* counts, the refused ones too.
RateLimited == MaxCalls > 0 /\ Cardinality(recent) >= MaxCalls

Blocked(k) == k.injection \/ SensitiveBlocks(k) \/ RateLimited

\* Mutant: sensitive prompts are cached.
Cacheable_IgnoresSensitive(k) == k.deterministic

\* is_cacheable.
Cacheable(k) == k.deterministic /\ ~k.sensitive

\* lookup finds an entry.
Hits(k) == Cacheable(k) /\ cache[CacheKey(k)] # None

\* Mutant: the router is not told of the approved set.
Filter_NotPassed(k) == Backends

\* The approved set restricts an auto request that is sensitive.
Filter(k) == IF k.sensitive /\ approved # {} THEN approved ELSE Backends

\* Mutant: the router does not look at Sovereign Mode.
Candidates_IgnoresSovereign(k) == IF k.backend = AutoModel THEN Filter(k) ELSE {k.backend}

\* candidates(registry, sovereign, allowed), or the backend named.
Candidates(k) ==
  IF k.backend = AutoModel
  THEN {b \in Filter(k) : sovereign => b \notin Outside}
  ELSE {k.backend}

-----------------------------------------------------------------------------
(* What the handler records.                                               *)

\* The audit_log row of append_check.
AddDecision(r) ==
  /\ decisions' = [decisions EXCEPT ![r] = @ + 1]
  /\ recent' = recent \cup {r}

\* The handler returns; what it kept is gone.
End(r, how) ==
  /\ pc' = [pc EXCEPT ![r] = "done"]
  /\ outcome' = [outcome EXCEPT ![r] = how]
  /\ route' = [route EXCEPT ![r] = None]
  /\ sent' = [sent EXCEPT ![r] = {}]
  /\ sealed' = [sealed EXCEPT ![r] = {}]

\* An exception leaves the handler.
Raise(r) == End(r, IF pc[r] = "inferring" THEN "aborted" ELSE "error")

\* append_check, then the response; when it raises, the row may already be
\* committed and the client gets an error.
Decide(r, how) ==
  \/ AddDecision(r) /\ End(r, how)
  \/ /\ StorageMayFail
     /\ AddDecision(r) \/ UNCHANGED audit
     /\ Raise(r)

\* check_and_record_agent counts a request it lets through.
CountAgent(k) ==
  agent_usage' = IF k.agent = None THEN agent_usage
                 ELSE [agent_usage EXCEPT ![k.agent] = @ + 1]

\* record_usage, reached only by a response that is not an error.
Charge(r) ==
  LET row == IF outcome'[r] = "served" /\ kind[r].key # None THEN {r} ELSE {}
  IN key_usage' = key_usage \cup row /\ today' = today \cup row

Arrive(r, k) ==
  /\ pc[r] = "new"
  /\ kind' = [kind EXCEPT ![r] = k]
  /\ UNCHANGED <<admin, key_usage, today>>

\* A request past the gates of the gateway.
Admit(r, k) ==
  /\ Arrive(r, k)
  /\ Admitted(k)
  /\ CountAgent(k)
  /\ peak' = IF peak > Cardinality(InFlight) THEN peak ELSE Cardinality(InFlight) + 1

\* store: an existing row keeps its backend column, and a failure is ignored.
Store(r, b) ==
  LET key == CacheKey(kind[r])
      column == IF cache[key] = None THEN b ELSE cache[key].backend
  IN IF Cacheable(kind[r])
     THEN \/ cache' = [cache EXCEPT ![key] = [backend |-> column, by |-> r]]
          \/ StorageMayFail /\ UNCHANGED cache
     ELSE UNCHANGED cache

-----------------------------------------------------------------------------
(* The first segment of chat_completions and governed_chat.                *)

\* The license gate, the agent cap and "no eligible backend" refuse without an
\* audit row.
RejectAtGate(r, k) ==
  /\ Arrive(r, k)
  /\ ~licensed \/ (AgentSpent(k) /\ ~OverBudget(k) /\ ~OutOfBounds(k))
  /\ End(r, "rejected")
  /\ UNCHANGED <<audit, agent_usage, cache, answer, peak>>

\* A spent key, a sealed boundary or a team's scope.
RefuseAtGateway(r, k) ==
  /\ Arrive(r, k)
  /\ licensed /\ (OverBudget(k) \/ OutOfBounds(k))
  /\ Decide(r, "refused")
  /\ UNCHANGED <<agent_usage, cache, answer, peak>>

\* Injection, a sensitive prompt for an unapproved backend, or the rate limit.
RefuseInPipeline(r, k) ==
  /\ Admit(r, k)
  /\ Blocked(k)
  /\ Decide(r, "refused")
  /\ UNCHANGED <<cache, answer>>

\* A prior answer is served; it costs nothing.
ServeFromCache(r, k) ==
  /\ Admit(r, k)
  /\ ~Blocked(k) /\ Hits(k)
  /\ Decide(r, "hit")
  /\ UNCHANGED <<cache, answer>>

\* The router finds no backend: a block when the sensitive filter is to blame,
\* else an unaudited 503.
RouteNowhere(r, k) ==
  /\ Admit(r, k)
  /\ ~Blocked(k) /\ ~Hits(k) /\ Candidates(k) = {}
  /\ IF k.sensitive /\ approved # {}
     THEN Decide(r, "refused")
     ELSE End(r, "rejected") /\ UNCHANGED audit
  /\ UNCHANGED <<cache, answer>>

Prompt(r, b) ==
  /\ sent' = [sent EXCEPT ![r] = @ \cup {b}]
  /\ sealed' = IF sovereign THEN [sealed EXCEPT ![r] = @ \cup {b}] ELSE sealed

\* The request is routed and its prompt sent to a first backend.
StartInference(r, k) ==
  /\ Admit(r, k)
  /\ ~Blocked(k) /\ ~Hits(k)
  /\ Cardinality(InFlight) < MaxInFlight
  /\ route' = [route EXCEPT ![r] = [candidates |-> Candidates(k), sovereign |-> sovereign,
                                    approved |-> approved, egress |-> egress]]
  /\ \E b \in Candidates(k) : Prompt(r, b)
  /\ pc' = [pc EXCEPT ![r] = "inferring"]
  /\ UNCHANGED <<audit, cache, answer, outcome>>

\* Every candidate's circuit breaker is open (RuntimeError), or recording the
\* compression fails: an exception nothing catches.
RaiseBeforePrompt(r, k) ==
  /\ Admit(r, k)
  /\ ~Blocked(k) /\ ~Hits(k)
  /\ (k.backend = AutoModel /\ Candidates(k) # {}) \/ StorageMayFail
  /\ Raise(r)
  /\ UNCHANGED <<audit, cache, answer>>

\* check_and_record_agent itself raises.
RaiseAtGate(r, k) ==
  /\ Arrive(r, k)
  /\ StorageMayFail /\ k.agent # None /\ Admitted(k)
  /\ Raise(r)
  /\ UNCHANGED <<audit, agent_usage, cache, answer, peak>>

-----------------------------------------------------------------------------
(* The later segments.                                                     *)

\* Mutant: failover forgets what it has tried.
FailOver_Forgets(r) ==
  /\ pc[r] = "inferring"
  /\ kind[r].backend = AutoModel
  /\ \E b \in route[r].candidates \ sent[r] : sent' = [sent EXCEPT ![r] = {b}]
  /\ UNCHANGED <<admin, audit, usage, cache, pc, kind, route, sealed, answer, outcome, peak>>

\* execute: the backend failed and the next candidate of the plan is tried.
FailOver(r) ==
  /\ pc[r] = "inferring"
  /\ kind[r].backend = AutoModel
  /\ \E b \in route[r].candidates \ sent[r] : Prompt(r, b)
  /\ UNCHANGED <<admin, audit, usage, cache, pc, kind, route, answer, outcome, peak>>

\* Mutant: a failed backend is not audited.
InferenceFails_NoAudit(r) ==
  /\ pc[r] = "inferring"
  /\ End(r, "failed")
  /\ UNCHANGED <<admin, audit, usage, cache, kind, answer, peak>>

\* No candidate is left (or the others' breakers are open): an audited 502.
InferenceFails(r) ==
  /\ pc[r] = "inferring"
  /\ Decide(r, "failed")
  /\ UNCHANGED <<admin, usage, cache, kind, answer, peak>>

\* Anything but httpx.HTTPError (a body that is not JSON, the breakers opening
\* between two calls of a technique) leaves the handler.
InferenceRaises(r) ==
  /\ pc[r] = "inferring"
  /\ Raise(r)
  /\ UNCHANGED <<admin, audit, usage, cache, kind, answer, peak>>

\* Mutant: a blocked answer is charged.
BlockOutput_Charged(r) ==
  /\ pc[r] = "inferring"
  /\ Decide(r, "refused")
  /\ \E b \in sent[r] : answer' = [answer EXCEPT ![r] = b]
  /\ key_usage' = IF kind[r].key # None THEN key_usage \cup {r} ELSE key_usage
  /\ UNCHANGED <<admin, today, agent_usage, cache, kind, peak>>

\* The output firewall or the toxicity filter blocks the answer.
BlockOutput(r) ==
  /\ pc[r] = "inferring"
  /\ Decide(r, "refused")
  /\ UNCHANGED <<admin, usage, cache, kind, answer, peak>>

\* The answer (with a multi-call technique, that of any backend tried) is
\* stored, audited, and charged to the caller's key, in this order.
Serve(r) ==
  /\ pc[r] = "inferring"
  /\ \E b \in sent[r] :
       /\ answer' = [answer EXCEPT ![r] = b]
       /\ Store(r, b)
  /\ \/ Decide(r, "served") /\ Charge(r)
     \/ /\ StorageMayFail           \* record_usage raises
        /\ AddDecision(r) /\ Raise(r)
        /\ UNCHANGED <<key_usage, today>>
  /\ UNCHANGED <<admin, agent_usage, kind, peak>>

-----------------------------------------------------------------------------
(* Meanwhile.                                                              *)

SetSovereign ==
  /\ "sovereign" \in Changes
  /\ sovereign' = ~sovereign
  /\ UNCHANGED <<licensed, approved, egress, audit, usage, cache, request>>

Approve(b) ==
  /\ "sensitive" \in Changes
  /\ approved' = approved \cup {b}
  /\ UNCHANGED <<licensed, sovereign, egress, audit, usage, cache, request>>

Unapprove(b) ==
  /\ "sensitive" \in Changes
  /\ approved' = approved \ {b}
  /\ UNCHANGED <<licensed, sovereign, egress, audit, usage, cache, request>>

ChangeEgress ==
  /\ "egress" \in Changes
  /\ egress' \in SUBSET Outside
  /\ UNCHANGED <<licensed, sovereign, approved, audit, usage, cache, request>>

ChangeLicense ==
  /\ "license" \in Changes
  /\ licensed' = ~licensed
  /\ UNCHANGED <<sovereign, approved, egress, audit, usage, cache, request>>

\* A row becomes older than an hour.
AgeOut(r) ==
  /\ "hour" \in Changes
  /\ recent' = recent \ {r}
  /\ UNCHANGED <<admin, decisions, usage, cache, request>>

\* Midnight in the organisation's time zone (budgets), and in UTC (agents).
NewBudgetDay ==
  /\ "day" \in Changes
  /\ today' = {}
  /\ UNCHANGED <<admin, audit, key_usage, agent_usage, cache, request>>

NewAgentDay ==
  /\ "day" \in Changes
  /\ agent_usage' = [a \in Agents |-> 0]
  /\ UNCHANGED <<admin, audit, key_usage, today, cache, request>>

ClearCache ==
  /\ cache' = [key \in CacheKeys |-> None]
  /\ UNCHANGED <<admin, audit, usage, request>>

\* The process is restarted; requests in flight vanish, the database stays.  (A
\* crash inside a segment leaves what a failing write leaves, see Decide.)
Restart ==
  /\ InFlight # {}
  /\ pc' = [r \in Requests |-> IF r \in InFlight THEN "done" ELSE pc[r]]
  /\ outcome' = [r \in Requests |-> IF r \in InFlight THEN "lost" ELSE outcome[r]]
  /\ route' = [r \in Requests |-> None]
  /\ sent' = [r \in Requests |-> {}]
  /\ sealed' = [r \in Requests |-> {}]
  /\ UNCHANGED <<admin, audit, usage, cache, kind, answer, peak>>

Init ==
  /\ licensed = TRUE
  /\ sovereign \in {on \in BOOLEAN : on => "sovereign" \in Changes}
  /\ approved = {} /\ egress = {}
  /\ decisions = [r \in Requests |-> 0] /\ recent = {}
  /\ key_usage = {} /\ today = {} /\ agent_usage = [a \in Agents |-> 0]
  /\ cache = [key \in CacheKeys |-> None]
  /\ pc = [r \in Requests |-> "new"]
  /\ kind = [r \in Requests |-> None]
  /\ route = [r \in Requests |-> None]
  /\ sent = [r \in Requests |-> {}] /\ sealed = [r \in Requests |-> {}]
  /\ answer = [r \in Requests |-> None]
  /\ outcome = [r \in Requests |-> None]
  /\ peak = 0

Submit(r, k) ==
  \/ RejectAtGate(r, k) \/ RefuseAtGateway(r, k) \/ RefuseInPipeline(r, k)
  \/ ServeFromCache(r, k) \/ RouteNowhere(r, k)
  \/ StartInference(r, k) \/ RaiseBeforePrompt(r, k) \/ RaiseAtGate(r, k)

Continue(r) ==
  FailOver(r) \/ InferenceFails(r) \/ InferenceRaises(r) \/ BlockOutput(r) \/ Serve(r)

Administer ==
  \/ SetSovereign \/ ChangeEgress \/ ChangeLicense \/ ClearCache
  \/ \E b \in Backends : Approve(b) \/ Unapprove(b)

Next ==
  \/ \E r \in Requests, k \in Kinds : Submit(r, k)
  \/ \E r \in Requests : Continue(r) \/ AgeOut(r)
  \/ Administer \/ NewBudgetDay \/ NewAgentDay \/ Restart

Spec == Init /\ [][Next]_vars

\* A backend call ends: the client of complete() times out after 120 s.
FairSpec == Spec /\ \A r \in Requests : WF_vars(Continue(r))

-----------------------------------------------------------------------------
(* Properties.                                                             *)

\* The types of the variables; no agent is ever counted beyond its daily cap,
\* and what counts against a key's day has a usage row.
TypeOK ==
  /\ licensed \in BOOLEAN /\ sovereign \in BOOLEAN
  /\ approved \subseteq Backends /\ egress \subseteq Outside
  /\ decisions \in [Requests -> Nat] /\ recent \subseteq Requests
  /\ key_usage \subseteq Requests /\ today \subseteq key_usage
  /\ agent_usage \in [Agents -> 0..AgentCap]
  /\ cache \in [CacheKeys -> Entry \cup {None}]
  /\ pc \in [Requests -> {"new", "inferring", "done"}]
  /\ kind \in [Requests -> Kinds \cup {None}]
  /\ route \in [Requests -> Route \cup {None}]
  /\ sent \in [Requests -> SUBSET Backends] /\ sealed \in [Requests -> SUBSET Backends]
  /\ answer \in [Requests -> Backends \cup {None}]
  /\ outcome \in [Requests -> Outcomes \cup {None}]
  /\ peak \in Nat

\* Whatever the interleaving of requests, administration, failing writes and
\* restarts: a response that carries an answer or an audited refusal has exactly
\* one decision, an unaudited refusal none, and nothing is decided early.
AuditedOnce ==
  \A r \in Requests :
    /\ outcome[r] \in {"served", "hit", "refused", "failed"} => decisions[r] = 1
    /\ outcome[r] \in {None, "rejected", "lost"} => decisions[r] = 0
    /\ decisions[r] <= 1

\* A sensitive prompt, through every failover, reaches only the backends that
\* were approved when it was routed (if any were), even when the approval or
\* the plan changes while it is in flight.
SensitiveConfined ==
  \A r \in Requests :
    sent[r] # {} /\ kind[r].sensitive /\ route[r].approved # {}
      => sent[r] \subseteq route[r].approved

\* While Sovereign Mode is on, a prompt leaves the boundary only for a backend
\* named by the caller whose host an owner approved, or for a request that was
\* routed before the mode was switched on.
SovereignConfined ==
  \A r \in Requests :
    sealed[r] \cap Outside # {} /\ route[r].sovereign
      => kind[r].backend # AutoModel /\ sealed[r] \subseteq route[r].egress

\* What the dearest answer costs.
Dearest == Max({0} \cup {Price[b] : b \in Backends})

\* The daily cap is checked before and charged after inference, so concurrent
\* requests may overshoot it, by no more than one answer for each request that
\* was in flight at once.
BudgetBound ==
  SpendCap > 0 =>
    \A key \in Keys : Spend(key) <= SpendCap - 1 + peak * Dearest

\* The hourly limit is read before and counted after inference: the answers of
\* an hour exceed it by no more than the requests in flight at once.
RateBound ==
  MaxCalls > 0 =>
    Cardinality({r \in recent : outcome[r] \in {"served", "hit"}}) <= MaxCalls - 1 + peak

\* A key pays once for each answer a backend gave it and for nothing else: not
\* for a cache hit, a refusal, a failure or an answer that was blocked.
ChargedExactly ==
  key_usage = {r \in Requests : outcome[r] = "served" /\ kind[r].key # None}

\* A cached answer was produced for the same team and prompt by a request that
\* was neither sensitive nor an injection, and it passed the output firewall.
CacheClean ==
  \A c \in CacheKeys : cache[c] # None =>
    LET q == cache[c].by
    IN /\ CacheKey(kind[q]) = c
       /\ ~kind[q].sensitive /\ ~kind[q].injection
       /\ outcome[q] \in {"served", "aborted"}

\* As long as requests are served one at a time, a cache hit names the backend
\* that produced its answer.  Two concurrent misses of one prompt break it: the
\* second answer replaces the first without its backend.
HitNamesProducer ==
  peak <= 1 =>
    \A c \in CacheKeys : cache[c] # None => cache[c].backend = answer[cache[c].by]

\* A request that waits for a backend is answered, refused or cut off.
EventuallyEnds == \A r \in Requests : pc[r] = "inferring" ~> pc[r] = "done"

\* What the documents say: a prompt that was sent and whose request ended left
\* a decision in the audit log.
NoUnauditedPath ==
  \A r \in Requests :
    outcome[r] \in {"served", "failed", "aborted"} => decisions[r] > 0

\* What the documents say: while Sovereign Mode is on no prompt leaves the
\* boundary but for an approved host.
SovereignEnforced ==
  \A r \in Requests : sealed[r] \cap Outside \subseteq IF route[r] = None THEN {} ELSE route[r].egress

\* Limits that are read before and counted after inference, the daily cap of a
\* key and the hourly limit, are overshot by what was in flight at once and no
\* more; the agent cap, read and counted in one step, never is (TypeOK).
LimitsHold == TypeOK /\ BudgetBound /\ RateBound

\* What the cache keeps may be given to the team: it is clean, and as long as
\* requests come one at a time it names the backend that produced it.
CacheTrue == CacheClean /\ HitNamesProducer
=============================================================================
