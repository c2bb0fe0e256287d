# A TLA+ verification of the Precepta control plane

Precepta (`app/`, with the vendor's license service in `licensing/`) is a
self-hosted, governed control plane for AI inference: a FastAPI application
that authenticates a caller, applies governance to a prompt, routes it to a
backend inside (or, by approval, outside) the owner's boundary, and records
what it did in a tamper-evident log. This directory holds its TLA+ model, the
TLC runs over small instances of it, and TLAPS proofs for all instances.

## 1. The system

### How it runs

One uvicorn process serves everything. `async def` handlers run on the event
loop and interleave only where they `await`; in the chat path that is the call
of a backend. Plain `def` handlers run in Starlette's thread pool, truly in
parallel with the loop. A `get_conn()` block (`app/db.py:15-30`) is a fresh
SQLite connection in WAL mode with a 5 s busy timeout; its SELECTs autocommit
and a deferred transaction opens at its first write, so *read, then write* in
one block is not atomic against another thread. The container is restarted
when it dies (`restart: unless-stopped`): memory is lost, committed rows stay.
The egress broker is another process that reads a file at every CONNECT.

### Inventory

| Component | State | Operations | What is hard | What makes it correct |
|---|---|---|---|---|
| Audit trail (`adapters/audit`) | `audit_log`, `tamper_evident_audit_log` | append_check, append, verify, export, head, reset | loop and pool threads append at once; two transactions per decision; reset and restart in between | no event lost, doubled or reordered; breaks stay visible; every decision anchored |
| Attestation (`sovereign/attestation.py`) | none of its own | build_attestation | four connections, one of them an append | its count, verdict and anchor fit together |
| Egress allowlist (`sovereign/egress.py`, `broker.py`) | `approved_egress`, the allowfile, its `.tmp` | add, remove, seed, sync; the broker's read | table and file change in separate steps, one `.tmp` name for all threads | the broker enforces the table |
| Chat gateway (`main.py`) | `key_usage`, `agent_usage` | chat_completions | caps are read before and charged after an await | overshoot is bounded, a request is charged once |
| Governed pipeline (`gateway/pipeline.py`) | per request | governed_chat | many early returns and exceptions, an await in the middle | exactly one decision; confinement holds through failover |
| Routing engine (`router/engine.py`, `state.py`) | circuit breakers, in memory | execute, call_model | jobs share breakers; answers come out of order; failover | walk order, bounded prompts, no starvation by a breaker |
| Router brains, scoring, intent | last latencies | decide, score, resolve | several brains, one overriding another, on stale knowledge | the plan is an eligible candidate and not a dominated one |
| Sovereign Mode (`controls.py`) | one control row | switch, read | read at routing, used later | nothing leaves the boundary while on |
| Sensitive-data routing (`governance/sensitive.py`) | `sensitive_backends` | approve, unapprove, filter | empty table means off | sensitive prompts reach approved backends only |
| Policy engine (`governance/policy.py`) | `governance_policies` | evaluate, create, edit, toggle | edits and toggles read before they write; limits are counted from the audit log | most restrictive wins, no edit is lost |
| Budgets and metering (`budgets.py`, `pricing.py`) | `key_usage`, `model_prices` | check, record_usage, spend, price lookup | check then charge; four caps; local midnight; dated prices | a cap bounds spending, and charge and trace agree |
| Response cache, compression (`cache.py`, `features.py`) | `response_cache`, `cache_savings`, `endpoint_features` | lookup, store, hit, clear, configure | concurrent misses; reuse by similarity; clearing in the pool | answers are not shared across teams, nothing sensitive is kept, hits are accounted |
| OpenGuard, scopes | `agent_budgets`, `agent_usage` | check_and_record_agent | boundary, midnight | never over the cap |
| API keys, sessions, SSO | `api_keys`, sessions | issue, suspend, revoke, lookup by name | names are not unique | a key's limits are its own |
| Backend registry (`adapters/model`) | live dict, `registered_backends` | register, edit, correct boundary, remove, complete | two steps, two threads, an await inside an edit | memory and table agree with the last word of the owner |
| Customer licensing (`licensing.py`) | `app_license` | activate, heartbeat, status | grace boundaries; a ping that awaits the vendor | expiry stops inference, the console stays |
| License vendor (`licensing/`) | `logins`, `licenses`, `installs` | trial, plan change, revoke, heartbeat | row, key on file and keys in deployments drift apart; signing keys change | one trial per subject; both sides compute one state |
| Router configuration | `router_config`, a secret | update | two transactions | no half update |
| Notifications | `notifications` | notify | check then insert; its day is not the caps' day | one a day, and never none |
| Learning loop (`learning.py`) | `route_traces` | record, rate, prefer | ratings come late, change, name backends that are gone | a preference is earned and eligible |
| Traces, telemetry | own tables | record | fail-soft | a trace's cost is what was charged |
| MCP server | none | five tools | chat tool skips the gateway's gates | same pipeline |
| Catalog, copilot, compliance, console | mostly static | reports | none | outside the model |

### How the parts interact

A caller authenticates by key or session. `chat_completions` (gateway) runs
license gate, key budget, Sovereign Mode and scopes, agent cap, then calls
`governed_chat` (pipeline): firewall, sensitive filter, policy, cache,
compression, inference, output firewall, store, audit. Inference of an `auto`
request goes through a brain, the scoring and `engine.execute`, which walks the
candidates under the shared breakers. Afterwards the key is charged and the
learning loop records who answered. Every decision goes through
`append_check`, which writes `audit_log` and then the chain; egress changes,
cache hits, compressions, license events and the attestation's probe append to
the chain directly. Owners change Sovereign Mode, approvals, egress, policies,
backends, keys, prices and features while requests are in flight.

The model cuts this at three seams. `GovernedChat` has the whole chain of gates
with an abstract key, cache and router; `KeyedRequests` opens up the credential
and the budget in front of it, step by step; `AutoRequests` opens up what
follows the gates, from the cache to the charge. `ControlPlane` is the
management API that edits what they read.

## 2. Modules and how they correspond to the code

| Module | Models | State | Actions |
|---|---|---|---|
| `AuditChain` | `SqliteAudit.append_check`, `AuditChain.append/verify/export/head_hash`, `build_attestation`, `reset_activity` | both tables, per thread program counter and locals; histories: decisions a failure cut off, events a reset erased, whether two appends have raced, the threads a reset overlapped | one per SQLite connection: LogCheck, ReadHead, InsertRow, AppendFails, AttestVerify/Count/Anchor, ExportRows/Head, ResetActivity, Restart |
| `HashChain` | how a row links to the one before: operators only, for the two audit modules | reads rows | none |
| `AuditTamper` | `_hash`, `verify_rows` against edited tables | the table now; the table as written is a definition | Alter, DropRow, Replay |
| `EgressAllowlist` | `add_host`, `remove_host`, `sync_allowfile`, seeds, `create_app`, `is_allowed` | table, files as inodes, two names, per thread progress; histories: the last write failed, changes have overlapped | one per file operation: AddHost, RemoveHost, SeedLicense, ListHosts, OpenTmp, WriteTmp, ReplaceLive, SyncFails, Restart |
| `GovernedChat` | `chat_completions` + `governed_chat` + what they call | administration, audit counts, usage, cache, requests in flight | one per segment between awaits and outcome |
| `RouterEngine` | `execute`, `call_model`, `Breaker`, techniques | breakers, clock, jobs with their walk | Execute, NoneEligible, Succeed, Fail, Raise, Tick, ChangeEligible, Restart |
| `Inference` | abstract: what a routed inference promises | phase, allowed, asked, result | Start, Ask, Answer, GiveUp |
| `Licensing` | `app/licensing.py`, the gate, the vendor's `store.py`, `core.py`, `service.py` | the vendor's three tables and signer, each deployment's row, trusted key and heartbeat; histories: keys given out, terms granted | Onboard, OnboardCutOff, SetPlan, Revoke, RotateSigner, Arrive, Activate, SendHeartbeat, ReceiveReply, HeartbeatFails, HeartbeatRefused, Redeploy, Tick |
| `Handlers` | how management requests run: the loop keeps a handler from its body to its end, the pool runs others beside it | what is left to do on the loop and on each worker | (parts of the actions below) |
| `PolicyStore` | `governance_policies`, `evaluate`, `scope_matches` | the table; history: edits and toggles per policy | CreatePolicy, EditReads, EditWrites, ToggleReads, ToggleWrites |
| `BackendRegistry` | the live registry and `registered_backends` | both, edits being uploaded; history: the owner's last word | RegisterBackend, SaveBackend, SaveFails, UpdateReads, UpdateBackend, SetBoundary, MarkLive, RemoveLive, DeleteRow, RegistryRestart |
| `RouterConfig` | `router_config` and its secret | both | PutKey, PutRows, PutRowsFails |
| `ControlPlane` | the three above in one process, with its restarts | theirs | theirs, Restart |
| `KeyedRequests` | keys, sessions, `budgets.check`, `notify`, the gateway's use of them | the tables, org settings, requests being admitted or inferring; histories: each answer with the rows that serving it wrote, refusals | Authenticate, LookUp, CheckBudget, CheckScope, Serve, Fail, one per endpoint that edits keys, sessions and settings, ClockTicks, Restart |
| `Prices` | `model_prices`, `price_info` | table, date | Upsert, Midnight |
| `RouteChoice` | brains, learned preference, scoring: operators only | reads prices, latencies, traces | none |
| `LearningLoop` | `route_traces` | the table | Recorded, ApplyFeedback |
| `ResponseReuse` | cache with its strategies and savings, features, compression | four tables | Configured, Stored, Hit, Clear |
| `AutoRequests` | a request after the gates, over the four above | theirs and each request | FindHit, ServeHit, StartAuto, StartNamed, Answer, Settle, Fail, PutFeatures, SetPricing, SubmitFeedback, ClearCache, NextDay, Restart |
| `MC...` | TLC instances: symmetry sets, mixes of requests, backends and edits; `MCAdmission` puts `KeyedRequests` and `Licensing`, which share no state, into one run, each moving while the other has not begun | | |
| `...Proofs` | theorems and proofs of the module they are named for; `AuditChainProofs` also of `AuditTamper`, `AdmissionProofs` of `KeyedRequests` and `Licensing`, which both stand in front of the gateway's gates | | |
| `Null` | declares `None`, the missing value of the two modules that `AdmissionProofs` joins | | |
| `Sums` | what the proofs need of finite sums, extremes, division and loops over a sequence, and induction over sets of numbers | | |

`RouterEngine` implements `Inference` (`Promise == Promised!Spec`, with
`phase` computed from `pc` and `allowed` being the candidates).

### Granularity

A step is what one thread does between two points at which another can
observe it. On the event loop that is everything between two awaits:
`GovernedChat` has one action for the whole segment before the first backend
call, by outcome, and one for everything after an answer. In `AuditChain` and
`EgressAllowlist`, where pool threads take part, a step is one SQLite
connection's read or write, or one file operation. `GovernedChat`
treats an audit append as one step because on the loop it is one; what
appends of other threads do to the chain is the subject of `AuditChain`.
`ControlPlane` and `KeyedRequests` have one step per connection again, because
pool handlers commit between those of the loop; in `AutoRequests` the only pool
handler is clearing the cache, so a loop segment is cut only where clearing
makes a difference (a hit and its record, an answer and its charge). A
write that fails ("database is locked" after 5 s, a full disk) is a separate
outcome that raises where the code lets it raise and is swallowed where the
code swallows it.

### Abstractions

* A SHA-256 digest is the id of its event (`AuditChain`; ids are uuid4 and never
  repeat) or the text it covers (`AuditTamper`: equal digests mean equal texts).
  The text joins fields with `|`, so two bodies that cut one text differently
  are distinct but have one digest (`Shifted`).
* What the firewall finds in a prompt is an input of the request (`sensitive`,
  `injection`); in an answer a free choice.
* Which candidate a brain prefers is a free choice among the candidates. Brain and
  engine run in one segment, so the planned backend is a candidate; a
  thread-pool change of the registry between the two is not modelled.
* A policy's loop (`Evaluate`) and the preference's (`Prefer`) are folds over a set that
  take its numbers in order, as the loops take the rows; what is loaded is that
  set of positions.
* In `AutoRequests` a request that names a backend is sent to it only if the registry
  resolves the name and governance left it eligible (`Resolves`,
  `app/main.py:1699-1710`); otherwise it fails before inference.
* In `GovernedChat` the cache has exact reuse and any candidate may be preferred;
  `AutoRequests` has the strategies and the brains. Similarity of two questions
  is a constant matrix there, in percent, and embedding may fail.
* The intent model's answer is a free choice among all classifications and
  none. Scores are integers, in ten-thousandths as the code rounds them.
* `Handlers`: an async handler that has read its body does not await again, so it
  keeps the loop; what it awaits before (the body of an edit) is a step of
  its own where state was read before (`UpdateReads`).
* Of a backend's row the key (standing for every field an edit may leave out)
  and the boundary flag are kept; of the policies' conditions one of the request
  and one of the counters.
* Time in `KeyedRequests` is counted in half days, so that a zone's midnight and
  UTC midnight are different ticks; months are `DaysPerMonth` local days.
* `AutoRequests` fixes Sovereign Mode and the brain for a behaviour: each request
  reads them once, and what a switch in flight does is in `GovernedChat`.
* Of an answer's cost only the backend's price is kept; compression only
  decides whether a write can fail before the prompt.
* `time.monotonic()` is a counter; local and UTC midnights are two actions.
* Breakers of `GovernedChat` are a free choice (any candidate may be skipped);
  `RouterEngine` has them.

## 3. Runs

Passing runs exhaust their state spaces; together they take every action.
Invariants that TLC checks and TLAPS proves under one argument are checked as one
formula: `ChainSound`, `FilesSound`, `EngineSound`, `KeysSound`, `RegistrySound`,
`LimitsHold`, `LearningSound` and `ChargingSound` each join a module's type invariant
with its structural ones, `ChangesKept` and `CacheTrue` join two halves of one
promise; the parts keep names and comments of their own.

| Run | Question and result |
|---|---|
| `AuditChain_threads` | Two appending threads, resets, failures, restarts: the chain is sound (types, each event once, links point back), it verifies unless two appends raced, an unanchored decision is under way or was cut off by a failure, an anchored one has its row, a report's head is not older than its count, a broken chain stays broken. |
| `AuditTamper` | `verify_rows` accepts exactly the tables that read as a prefix of what was written: any edit, reordering, replay or interior deletion is caught; truncation at the end, and moving a field boundary inside one text, are not. |
| `EgressAllowlist_threads` | Two threads: after any race or failure the next change that nothing overlaps publishes the whole table; without overlap the broker never sees a partial file, and a revoked host leaves it. |
| `GovernedChat_routing` | Sensitive prompts stay in the set approved when they were routed, Sovereign Mode confines what is routed under it, while owners switch everything; a waiting request ends. |
| `GovernedChat_gates` | Every gate, failing write and restart: one decision per answered or refused request; key cap, agent cap and rate limit are overshot by no more than the requests in flight; each answer is charged once; the cache keeps only clean answers of the same team, and names their backend as long as one request is in flight. |
| `RouterEngine_jobs` | Two jobs, one or two calls each, on shared breakers: breakers stay sane, prompts are bounded, failover misses no candidate, the engine implements `Inference`, every job ends. |
| `ControlPlane_requests` | Owners edit policies, backends and the router's configuration at once, with two workers, two uploads, failing writes and restarts: edits of policies are never lost and toggles only to overlapping toggles, the decision is that of the strictest policy, registry and table end up as the owners said unless two requests that replace or remove one backend overlapped, and `hf` is never chosen without endpoint and key. |
| `Admission` | Two keys of one name and a person of that name: caps are judged exactly, blocks end only by a new day, zone, edit or revocation, alerts come once a UTC day and never fail to, a key is held to its own scope unless names collide or it is revoked during the admission; an answer is paid for by exactly one row of the ledger if its caller's name had a key up to the look-up, by none otherwise, and no row is without an answer. Terms, grace, plan changes, a rotated signing key, lost heartbeats: vendor and deployment compute one state, signing in again renews nothing, a ping that fails or speaks of another license stops nobody, every deployment ends read-only. |
| `AutoRequests_answers` | Cache to charge: requests go to eligible backends whatever was learned and whether scoring works, a scored choice is not dominated, a preference is earned, reuse stays within team, endpoint, similarity and harmless requests, savings match hits unless a clearing fell between, rewards are those of the last rating, charge equals trace except for a model's own price and midnight. |

Runs that end in a violation, each of a sentence the repository says about
itself (quoted in `PROJECT.json`):

| Run | What the code does |
|---|---|
| `AuditChain_fork` | Two threads append after one head: `verify()` returns FALSE for a log nobody touched. |
| `GovernedChat_unaudited` | An exception other than `httpx.HTTPError`/`LookupError` after the prompt was sent leaves no decision. |
| `Licensing_revoked` | A deployment hears from a heartbeat that its own license is revoked and goes on serving: `heartbeat_once` does not look at `revoked`, although the vendor's test says "client enforces in P17". |

Seen while modelling, without a run of their own:

* Allowlist: overlapping changes can leave a revoked host in the broker's file until
  the next change, although `sync_allowfile` says the file always reflects the
  table (`AlwaysReflects`, which `OneThreadAlwaysReflects` proves for one thread),
  and can rename the `.tmp` file another thread is writing over the live one. A
  restart approves a revoked sign-in host again.
* Sovereign Mode: a request routed before the mode was switched on may fail over
  to an outside backend after. Removing the last sensitive approval turns the
  sensitive filter off. A cache hit reports `in_boundary: true` for every entry.
* Licensing: nothing in `app/` calls `heartbeat_once`, or reads the `server_plan` it stores
  (`specs/phases/phase-17-self-host-licensing/plan.md:43`); after a change of the
  vendor's signing key `/onboard` still hands out the key on file.
* Keys and budgets: caps and scope belong to the oldest unrevoked key of a name, and
  a session whose subject has that name is held to its caps and charged too, although
  the comment at `app/main.py:1681` says "only for key-authenticated callers" (`Metered`
  says exactly which answers are charged); a key revoked between authentication and
  look-up leaves its answer uncharged; an `auto` request is
  not checked against team and key scopes; alerts are counted per UTC day, caps reset
  at local midnight; a multi-call technique is charged for the answer it picked
  only; refusals count towards the hourly limit of a policy.
* Prices: the charge looks up the backend's price, the trace the model's, so
  `budget` and `billback` differ for a model with a price of its own (`own` in
  `BilledAsTraced`).
* Registry: correcting or removing a built-in backend is forgotten at restart.
* Settings: a setting given as a JSON boolean is stored as "True", which readers
  that compare with "true" take for off.
* Features: the first edit of an endpoint switches the features it does not name from
  the defaults without a row (on, smart) to those of the table's columns (off, exact).
* Router: the scoring replaces the plan of every brain, so what was learned, and
  what the intent model said, decide only when the scoring raises; the learned
  brain looks in the bucket of the compressed question, while answers are filed
  under the question as asked; a latency never observed counts as the fastest.
* Cache: semantic reuse compares the last question only, not the messages before
  it, the parameters or the router's intent; two concurrent misses leave the first
  answer's backend with the second answer.
* The MCP chat tool skips the gateway's gates.

### Bounds and why they are enough

* `AuditChain`: two threads (the race needs two), four ids (a fork, its
  two successors and a report).
* `AuditTamper`: three rows, so first, interior and last differ; the number of
  edits is unbounded.
* `EgressAllowlist`: two hosts whose lines differ in length (a longer
  file overwritten by a shorter one leaves a tail), one seeded at startup and
  one by the heartbeat; `Inodes` is one more than
  all open files and names need, so `OpenTmp` always finds one; no other bound.
* `GovernedChat`: three requests (two in some runs), `MaxInFlight` of them waiting
  at once, kinds of request chosen per run (`MCGovernedChat`) so that every gate
  can refuse, caps of 1 and 2 so that limits are reached, passed and overshot.
  `Changes` names what the owner and the clock may do in a run; it only keeps
  the runs small.
* `RouterEngine`: two jobs, two backends, one or two calls, threshold 2,
  cooldown 1, `MaxTime` 2: long enough for a breaker to open, close and open
  again. The defaults (threshold 3, 30 s, three calls) are covered by the
  proofs, which hold for all values.
* `Licensing`: two subjects, one deployment, two key pairs; a trial of one day, a
  subscription of two, one day of grace, an admin's term that ended yesterday;
  keys are issued on days 0 and 1 (`LastSale`), at most two (`MaxKeys`), and day 4
  (`MaxTime`) is past every term and grace.

* `ControlPlane`: two workers, two uploads, five requests, two policies, a built-in
  and a registered backend: every pair of handlers overlaps in every order, with
  requests left to observe the result.
* `KeyedRequests`: one request at a time (admission holds the loop), two keys of
  one name, one change (ending a session does not count as one), two half days, two
  kinds of charge, two answers (`MaxAnswers`), a month of two days; the races are between
  a request and the pool. What several requests do to one
  cap is in `GovernedChat`.
* `AutoRequests`: two requests, one change, three candidates of all tiers and a fourth
  backend only the history knows; five kinds of request: three that share or
  nearly share a question in two teams, a sensitive one and a random one that
  names its backend. Ratings are bad ones and taken-back ones (`Ratings`; an
  answer nobody rated already counts as good), and a restart that cuts off a
  request counts as a change. The brain is `learned`, whose fallbacks are the
  other two. Latencies are unobserved or one value, an answer has one size.

Deadlock is checked in every run.

### Fairness

`FairSpec` makes only calls that are under way go on: a thread inside an
operation is scheduled (`WF` on `Sync`), and a backend call returns or
raises because the HTTP client has a 120 s timeout (`openai_compat.py:66`;
`WF` on `Continue`, `Progress`). In `Licensing` days pass (`WF` on `Tick`). Nobody is obliged to send a request, to
change a setting or to restart the process. Liveness of the allowlist excuses
a host whose removal raced another change or whose write failed: then it can
stay in the broker's file until the next change (a swallowed
`OSError`).

## 4. Proofs

All theorems are checked by TLAPS for every value of the constants that
satisfies the named assumptions, which TLC evaluates on every instance. They say:

* sentinel values differ from data (`ConstantsAssumption`, `NoneAssumption`,
  `HandlersAssumption` and parts of the others);
* sets of numbers are numbers, rates and limits are numbers and not negative, a
  threshold, a number of calls or of traces (`MinTraces`) is positive
  (`EngineAssumption`, `EgressAssumption`, `LicensingAssumption`, `RouteAssumption`,
  `KeyedAssumption`, where a key's caps and days are any integers); a month has a day, a
  written log an event;
* the backends are finitely many (`ChatAssumption`, `PricesAssumption`) and the
  tables that describe them cover each of them;
* what an administrator sends has the fields of what it changes
  (`PolicyAssumption`, `RegistryAssumption`, `ConfigAssumption`, `ReuseAssumption`,
  `KeyedAssumption`: an edit of a key names no other fields than its backends, caps and
  days, as `update_key` takes no other);
* a forged body does not join to the text of the one that was written
  (`TamperAssumption`), and the digest of an event is not 64 zeros
  (`GenesisAssumption`);
* tables that an earlier process left are tables this program writes, and
  requests with one model string are for one endpoint (`AutoAssumption`).

`AuditChainProofs`:
* `TypeCorrect` by `TypeInv` = types + what a thread holds at which program point.
* `ChainStaysSound` joins `TypeCorrect` with
  `LinksAlwaysPointBack` and `EventsRecordedOnce`, both by `ShapeInv`: ids that are in the
  chain, erased, or held by a thread are distinct and used; a head a thread has read is
  genesis, in the chain or erased. Needed because the properties alone say
  nothing of the id and head a thread is about to insert.
* `UnracedLogVerifies`: for any number of threads, as long as no two appends
  have raced, the head read is still the head when the row is inserted.
  `SingleWriterVerifies` is the case of one thread.
  `BrokenStaysBroken`: appending to a chain that does not verify gives one that
  does not (`VerifyAppend`).
* `UnanchoredAreExplained`: appending a row anchors exactly its own id
  (`AnchoredInsert`), so a decision stays explained at every step.
  `AnchoredHaveRows`: a decision has its row in `audit_log` when it is
  anchored, because the row is committed before the append starts, unless a
  reset came between the two.
* `HeadsCoverCounts` by `ReportsInv`: what a report has counted is still in the
  chain when its probe is appended, unless a reset overlapped it; a head that is
  read later is at or after that count.
* `EditsAreDetected`, of `AuditTamper`, for a chain and a choice of forgeries of any size
  and any number of edits. `Written`, a recursive function, exists (`WrittenExists`, by
  induction on the length) and its rows read as `NewRow` says (`OriginalIs`). `TableOK`:
  whoever copies values can put no hash into the table that was not there. So a row that
  verifies carries the digest of a written row, and a digest covers the number of its
  event and the link; by `VerifiedRow` a verified row that follows the
  first i - 1 written ones is the i-th, and linkage puts all of them in order.
  The other direction is `PrefixVerifies`.

`EgressAllowlistProofs`, for any number of threads: `LoneInv` says, as long as at
most one change is under way, for each of its stages what its file holds; with
`OverwriteEmpty` (writing into a truncated file leaves what was written) it
gives `BrokerFollowsTable` and `BrokerReadsWholeFiles` (with the types,
`FilesStaySound`). `OneThreadAlwaysReflects`:
with one thread changes never overlap, so the claim of
`sync_allowfile`, which fails for two threads, holds for one.

`RouterEngineProofs`:
* `EngineStaysSound` joins the following. `TypeCorrect`; `BreakersStaySane`, whose
  step needs that time only grows.
* `FailoverWalksInOrder`, `GivesUpAfterAll` by `OrderInv`: `missed`, the backend
  waited for and `ahead` split the candidates in walk order (`RankOrders`,
  `TryNextOrder`).
* `AttemptsAreBounded` by `BoundInv`: the prompts a job has sent and those it may
  still send (`StillToAsk`: the candidates its call has not reached, and every candidate for
  each call it has not begun) stay within the bound together. The bound alone is not
  inductive: it does not say that a call never returns to a candidate.
* `EngineKeepsPromise`: refinement of `Inference`. `PromiseInv` (what was asked
  is among the candidates, the techniques' answers among what was asked) lets
  every step map to a step of `Inference` or a stutter (`PromiseStepMaps`).

`AdmissionProofs`, of `KeyedRequests`, for any keys, names, sessions, edits, charges and
any number of requests, by one invariant (`KeyedInv`): the types, and of each request
what it has learned (`Known`). Each action has a lemma that keeps it.
* `ChargedOnce` by `ChargeKnown` and `Matched`: until the gateway looks the name up, the
  request counts as keyed as long as some key of its name is not revoked
  (`RevocationHeard`), so the look-up finds a key exactly then, and what it found is what
  serving the answer goes by. `ServeMatches`: the row appended belongs to the
  answer appended, and to no other. `ChargingSound` itself says nothing of a request that is still on
  its way to an answer.
* `ScopesHold` by `KeyKnown`: until a request is admitted its key's row keeps its name, and if the key was the only one of its name, the look-up by name
  finds that very row, with the scope it had; `ScopeKept` keeps that after the key is edited.
  `MetaIs`: the look-up finds the oldest key of the name that is not revoked.
* `CapsDecide`, in every state with the types: what `spend` adds up, row by row, is the
  sum over the rows of the running day or month (`SpentIs`, `WindowIs`; no row is from
  tomorrow, so *at or after* the window's start is *in* the window), and the loop over
  the four caps ends in the verdict of the strictest (`CheckIs`, with `WeighedOK` as the
  loop's invariant).
* `RefusalsAlerted`: `notify` appends each of its titles that was not sent today
  once (`NotifyAdds`; no alert is from tomorrow either), and a block raises an alert of its own.
* `BlocksLast`: as long as day and zone last, the rows charged to a name only become more
  (`UsedGrows`), and new keys come after the old ones, so the look-up finds the same row
  (`MetaStays`); no step takes a row from either table (`TablesGrow`).

`AdmissionProofs`, of `Licensing`, for any subjects, deployments, signers and terms:
* `TypeCorrect` by `RowInv`: stored keys were issued, keys and heartbeats name
  licenses that have a row, and a row agrees with its key on file. The types
  alone do not say that the vendor has a row to answer a heartbeat from.
* `OfflineStateAgrees` from the last part of `RowInv`: the two state computations,
  written differently, agree for both plans.
* `StopsAreCaused`: whether a deployment serves depends on the day, its key and the
  key it trusts, and only Tick, Activate and Redeploy change these. `StopsHaveCause` also
  allows the answer that revokes the very license in use, so that a client which
  enforced it would satisfy it too; that this one does not is the run `Licensing_revoked`.
* `TrialsAreNotRenewed`: inductive as it stands; with the types, `KeysStaySound`.

`ControlPlaneProofs`, for any number of workers, uploads, policies and updates:
* `RouterNeverDead` by `ConfigInv`: the configuration a handler still holds, after
  it stored the key, is as sound as the stored one (`UpdateSound`). Needed because
  a restart or a failed write may come between the two.
* `ChangesAreKept`, which is `EditsAreKept` and `TogglesAreCounted`, by `PolicyInv`: the version an edit has read is
  still the row's, because only the loop writes versions; and while no toggles of
  a policy have overlapped, the one under way is alone and has read the flag as
  it is. `EditedRule`: an edit makes a rule of a rule.
* `StrictestPolicyWins`: what the loop of `evaluate` returns, computed policy by
  policy, is the verdict of the strictest violated policy and names the oldest of that
  kind. `LoopDecides` is the loop's invariant, by induction on the set of policies
  looked at so far.
* `RegistryStaysSound`, with `LastWordIsKept`, by `RegistryInv`: for a backend of which no word
  is lost, `WordKept` says what registry, row and owner's word are to each other at
  each stage of a save, a correction or a removal, and that a write and a removal
  never run beside each other; `EditOK` what an upload still holds of the backend it began with.

`GovernedChatProofs`, for any number of requests, keys, teams and backends, by one
invariant (`Inv`), whose steps are split into the shapes a segment can have
(`TurnedAway`, a prompt sent, `Concluded`, `Reconfigured`):
* `EveryRequestAuditedOnce` and `KeysPayOncePerAnswer` by `Lifecycle`: nothing is
  decided, sent or charged outside its stage.
* `SensitiveStaysConfined` and `SovereignStaysConfined` by `Governed`: what a waiting
  request was routed with stays the bound of what it may ask, whatever
  administrators change meanwhile.
* `LimitsAreKept` by `RateCounted` and `SpendCounted`: a request in flight counts as
  if it had already answered, at the dearest backend's price. What is spent
  says nothing of what is about to be charged; with the requests in flight in the sum, admission
  is the only step that adds to it, and it checks the limit first.
* `CacheStaysTrue` by `CacheKept`: while requests come one at a time, one that may be cached
  is in flight only because the cache had no answer to it.

`AutoRequestsProofs`, for any registry, price book, history, traffic and
administrators:
* `NothingEscapes`: every brain, the learned preference and the scoring choose among the
  candidates (`PicksAreCandidates`, `PlansAreCandidates`); `InferOK` carries that to
  the answer.
* `ChoicesAreUndominated`: `Rounding` and `Scaled` bound what rounding to ten-thousandths
  can change, `Penalty` what the wait and the price add, so that `ScoreOrder` puts a dominated backend
  behind whatever dominates it, but for the stated margin (`SmartChoice`).
* `LearnsSoundly`: `PreferenceIsBest`, by induction on the set of backends seen, with
  fractions compared without division (`MeansCompare`); and `LearnsOutcomes`, inductive with the table's types.
* `ReuseStaysInScope` and `HitsAreAccounted` by `CacheSound`: rows are of distinct team
  and key, and each is as the request that wrote it. `HitOK` adds that a hit's row is still there when it is counted,
  unless the cache was cleared; `OneGreater` that counting one hit adds one to the sum.
* `ChargesMatchTraces` by `TracedOK`: between trace and charge the price book can
  change only by midnight (`NoOwnPrice`: without a price of its own a model costs what
  its backend costs). `OthersKept`, `HandledSound` and `CalmKept` say once which steps leave the other requests' parts alone.

`Sums` holds what these share: `CountingUp` (induction, as a statement about a set of numbers),
`SumAnyOrder` and `SumOfMore` (a sum over a finite set does not depend on the order and grows by
what is added), `SumOfPart` (a part of a set sums up to no more than the set), `MaxIs`,
`MinIs`, `LeastValue`, `Division`, and of a loop over a sequence, which the community modules define
as a function on sets of positions, that it exists and depends on its steps only (`LoopExists`, `SameLoop`).

Only model-checked: liveness, that is `RevocationReachesBroker`, `EventuallyEnds`,
`JobsEnd` and `EndsReadOnly` (TLAPS proves neither fairness arguments nor `ENABLED`
here). Every safety invariant and every action property of a passing run has a theorem.

## 5. Plan

Written, in the order of importance: the audit chain, the allowlist, the chat
path, the routing engine, licensing, the management API, keys and budgets, and
the way from cache to charge; the safety properties of all of them are proved.
What would come next, where a run can hold it: registry changes from the pool
during routing (`AutoRequests` with `BackendRegistry`), the OIDC exchange, and
the calls of the MCP server.

Runs keep to two or three actors, two or three values and three minutes each.

## 6. Not modelled, and why

User interface, deployment files, evaluation scripts, catalog, copilot,
compliance reports and demo data only present or generate. Of traces and
telemetry only the cost is modelled: the rest is fail-soft and no decision
reads it. Agent targets and their timing are not on the chat path. Wording, JSON
shapes, SSE framing and encryption are data formats. The OIDC exchange is the
identity provider's protocol; the model begins where it has made a session.
Role permissions of OpenGuard are a table lookup in front of each handler, and
every modelled request has passed it. The embeddings endpoint runs the same
gates without routing.
