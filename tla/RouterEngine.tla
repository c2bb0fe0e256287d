---------------------------- MODULE RouterEngine ----------------------------
(***************************************************************************)
(* engine.execute: a routed request (a job) is run by a reasoning          *)
(* technique, which calls the model once or several times; every call      *)
(* walks the candidates, the planned backend first and then in registry    *)
(* order, skips those whose circuit breaker is open, and moves on when one *)
(* fails.  The breakers are shared by all jobs and live in memory.         *)
(*                                                                         *)
(* The engine runs on the event loop and waits only in complete(): what it *)
(* does between two answers is one step.                                   *)
(***************************************************************************)
EXTENDS Naturals, FiniteSets

CONSTANTS
  Jobs,
  Backends,       \* numbers, in registry order
  Calls,          \* calls the techniques make: 1 for passthrough, n for best_of_n
  FailThreshold,  \* consecutive failures that open a breaker
  Cooldown,       \* how long it stays open
  MaxTime,        \* bound on the clock
  None

\* How a job ends.
Outcomes == {"answered", "none eligible", "failed", "unavailable", "raised", "lost"}

ASSUME EngineAssumption ==
  /\ Backends \subseteq Nat \ {0}
  /\ IsFiniteSet(Backends)
  /\ Calls \subseteq Nat \ {0}
  /\ FailThreshold \in Nat \ {0}
  /\ Cooldown \in Nat
  /\ MaxTime \in Nat
  /\ None \notin Backends
  /\ None \notin Outcomes

VARIABLES
  now,       \* time.monotonic()
  breaker,   \* the Breaker of each backend
  eligible,  \* what candidates(registry, sovereign, allowed) returns now
  pc,        \* where each job is
  cands,     \* the candidates the job started with
  plan,      \* the backend its plan names
  walk,      \* where its technique and its current call are
  at,        \* the backend it waits for
  result,    \* backend_used
  outcome,   \* how the job ended
  calls,     \* history: calls its technique was to make
  asked,     \* history: backends its prompt was sent to
  attempts   \* history: prompts sent

job  == <<pc, cands, plan, walk, at, result, outcome, calls, asked, attempts>>
vars == <<now, breaker, eligible, job>>

Breaker == [consecutive : Nat, open_until : Nat]
Closed  == [consecutive |-> 0, open_until |-> 0]

\* What a job keeps between two answers: calls still to make, the current one
\* included; backends that answered the earlier ones; and of the current call,
\* the candidates it has not reached, those it failed on or skipped, and
\* whether it failed on one (last_err).
Walk == [left : Nat, answers : SUBSET Backends, ahead : SUBSET Backends,
         missed : SUBSET Backends, failed : BOOLEAN]

\* A call that starts over candidates C, with n calls left.
Fresh(n, A, C) ==
  [left |-> n, answers |-> A, ahead |-> C, missed |-> {}, failed |-> FALSE]

Waiting(j) == pc[j] = "waiting"

IsOpen(brk) == now < brk.open_until

-----------------------------------------------------------------------------
(* The breaker.                                                            *)

RecordSuccess(b) == breaker' = [breaker EXCEPT ![b] = Closed]

RecordFailure(b) ==
  LET n == breaker[b].consecutive + 1
  IN breaker' = [breaker EXCEPT ![b] =
       [consecutive |-> n,
        open_until  |-> IF n >= FailThreshold THEN now + Cooldown ELSE @.open_until]]

-----------------------------------------------------------------------------
(* call_model.                                                             *)

\* The place of a backend in `ordered`, for a job planned on p.
Rank(p, b) == IF b = p THEN 0 ELSE b

\* A job ends; what is left of the walk is the candidates it missed.
End(j, how, missed) ==
  /\ pc' = [pc EXCEPT ![j] = "done"]
  /\ outcome' = [outcome EXCEPT ![j] = how]
  /\ at' = [at EXCEPT ![j] = None]
  /\ walk' = [walk EXCEPT ![j] = [Fresh(0, {}, {}) EXCEPT !.missed = missed]]

\* Mutant: the loop stops at a backend whose breaker is open.
TryNext_StopsAtOpen(j, w) ==
  LET Before(b) == {c \in w.ahead : Rank(plan'[j], c) < Rank(plan'[j], b)}
      usable    == {b \in w.ahead : ~IsOpen(breaker'[b]) /\ Before(b) = {}}
  IN \/ /\ usable = {}
        /\ End(j, IF w.failed THEN "failed" ELSE "unavailable", w.missed)
        /\ UNCHANGED <<asked, attempts>>
     \/ \E b \in usable :
        /\ pc' = [pc EXCEPT ![j] = "waiting"]
        /\ at' = [at EXCEPT ![j] = b]
        /\ walk' = [walk EXCEPT ![j] = [w EXCEPT !.ahead = @ \ {b}]]
        /\ asked' = [asked EXCEPT ![j] = @ \cup {b}]
        /\ attempts' = [attempts EXCEPT ![j] = @ + 1]
        /\ UNCHANGED outcome

\* Mutant: with every breaker open, the call waits for one to close.
TryNext_Blocks(j, w) ==
  LET usable    == {b \in w.ahead : ~IsOpen(breaker'[b])}
      Before(b) == {c \in w.ahead : Rank(plan'[j], c) < Rank(plan'[j], b)}
  IN \/ /\ usable = {}
        /\ pc' = [pc EXCEPT ![j] = "blocked"]
        /\ UNCHANGED <<at, walk, outcome, asked, attempts>>
     \/ \E b \in usable :
        /\ Before(b) \cap usable = {}
        /\ pc' = [pc EXCEPT ![j] = "waiting"]
        /\ at' = [at EXCEPT ![j] = b]
        /\ walk' = [walk EXCEPT ![j] = [w EXCEPT !.ahead  = @ \ (Before(b) \cup {b}),
                                                 !.missed = @ \cup Before(b)]]
        /\ asked' = [asked EXCEPT ![j] = @ \cup {b}]
        /\ attempts' = [attempts EXCEPT ![j] = @ + 1]
        /\ UNCHANGED outcome

\* The loop goes on from w: to the first candidate ahead whose breaker is
\* closed, or to an error when there is none.
TryNext(j, w) ==
  LET usable    == {b \in w.ahead : ~IsOpen(breaker'[b])}
      Before(b) == {c \in w.ahead : Rank(plan'[j], c) < Rank(plan'[j], b)}
  IN \/ /\ usable = {}
        /\ End(j, IF w.failed THEN "failed" ELSE "unavailable", w.missed \cup w.ahead)
        /\ UNCHANGED <<asked, attempts>>
     \/ \E b \in usable :
        /\ Before(b) \cap usable = {}
        /\ pc' = [pc EXCEPT ![j] = "waiting"]
        /\ at' = [at EXCEPT ![j] = b]
        /\ walk' = [walk EXCEPT ![j] = [w EXCEPT !.ahead  = @ \ (Before(b) \cup {b}),
                                                 !.missed = @ \cup Before(b)]]
        /\ asked' = [asked EXCEPT ![j] = @ \cup {b}]
        /\ attempts' = [attempts EXCEPT ![j] = @ + 1]
        /\ UNCHANGED outcome

-----------------------------------------------------------------------------
Init ==
  /\ now = 0
  /\ breaker = [b \in Backends |-> Closed]
  /\ eligible \in SUBSET Backends
  /\ pc = [j \in Jobs |-> "idle"]
  /\ cands = [j \in Jobs |-> {}]
  /\ plan = [j \in Jobs |-> None]
  /\ walk = [j \in Jobs |-> Fresh(0, {}, {})]
  /\ at = [j \in Jobs |-> None]
  /\ result = [j \in Jobs |-> None]
  /\ outcome = [j \in Jobs |-> None]
  /\ calls = [j \in Jobs |-> 0]
  /\ asked = [j \in Jobs |-> {}]
  /\ attempts = [j \in Jobs |-> 0]

\* No candidate: LookupError.
NoneEligible(j) ==
  /\ pc[j] = "idle"
  /\ eligible = {}
  /\ End(j, "none eligible", {})
  /\ UNCHANGED <<now, breaker, eligible, cands, plan, result, calls, asked, attempts>>

\* The brain has just planned on a candidate; cost-gating has settled the
\* number of calls.
Execute(j, p, n) ==
  /\ pc[j] = "idle"
  /\ p \in eligible
  /\ cands' = [cands EXCEPT ![j] = eligible]
  /\ plan' = [plan EXCEPT ![j] = p]
  /\ calls' = [calls EXCEPT ![j] = n]
  /\ UNCHANGED <<now, breaker, eligible, result>>
  /\ TryNext(j, Fresh(n, {}, eligible))

\* complete() returns: the technique makes its next call, or picks one of the
\* answers.
Succeed(j) ==
  /\ Waiting(j)
  /\ RecordSuccess(at[j])
  /\ UNCHANGED <<now, eligible, cands, plan, calls>>
  /\ \/ /\ walk[j].left = 1
        /\ \E b \in walk[j].answers \cup {at[j]} : result' = [result EXCEPT ![j] = b]
        /\ End(j, "answered", {})
        /\ UNCHANGED <<asked, attempts>>
     \/ /\ walk[j].left > 1
        /\ UNCHANGED result
        /\ TryNext(j, Fresh(walk[j].left - 1, walk[j].answers \cup {at[j]}, cands[j]))

\* Mutant: the loop restarts with the candidates the registry has now.
Fail_Reloads(j) ==
  /\ Waiting(j)
  /\ RecordFailure(at[j])
  /\ UNCHANGED <<now, eligible, cands, plan, result, calls>>
  /\ TryNext(j, [walk[j] EXCEPT !.ahead = eligible \ {at[j]}, !.failed = TRUE,
                                !.missed = @ \cup {at[j]}])

\* Mutant: after a failure the loop starts over.
Fail_StartsOver(j) ==
  /\ Waiting(j)
  /\ RecordFailure(at[j])
  /\ UNCHANGED <<now, eligible, cands, plan, result, calls>>
  /\ TryNext(j, [walk[j] EXCEPT !.ahead = cands[j], !.failed = TRUE])

\* complete() raises httpx.HTTPError.
Fail(j) ==
  /\ Waiting(j)
  /\ RecordFailure(at[j])
  /\ UNCHANGED <<now, eligible, cands, plan, result, calls>>
  /\ TryNext(j, [walk[j] EXCEPT !.missed = @ \cup {at[j]}, !.failed = TRUE])

\* complete() raises anything else (a body that is not JSON): no failover, and
\* the breaker does not hear of it.
Raise(j) ==
  /\ Waiting(j)
  /\ End(j, "raised", {})
  /\ UNCHANGED <<now, breaker, eligible, cands, plan, result, calls, asked, attempts>>

Tick ==
  /\ now < MaxTime
  /\ now' = now + 1
  /\ UNCHANGED <<breaker, eligible, job>>

\* The registry, Sovereign Mode or the approved set changes.
ChangeEligible ==
  /\ eligible' \in SUBSET Backends
  /\ UNCHANGED <<now, breaker, job>>

\* The process restarts: the breakers are new, jobs in flight are lost.
Restart ==
  /\ breaker' = [b \in Backends |-> Closed]
  /\ pc' = [j \in Jobs |-> IF Waiting(j) THEN "done" ELSE pc[j]]
  /\ outcome' = [j \in Jobs |-> IF Waiting(j) THEN "lost" ELSE outcome[j]]
  /\ walk' = [j \in Jobs |-> IF Waiting(j) THEN Fresh(0, {}, {}) ELSE walk[j]]
  /\ at' = [j \in Jobs |-> None]
  /\ UNCHANGED <<now, eligible, cands, plan, result, calls, asked, attempts>>

Progress(j) == Succeed(j) \/ Fail(j) \/ Raise(j)

Next ==
  \/ \E j \in Jobs : NoneEligible(j) \/ Progress(j)
  \/ \E j \in Jobs, p \in Backends, n \in Calls : Execute(j, p, n)
  \/ Tick \/ ChangeEligible \/ Restart

Spec == Init /\ [][Next]_vars

\* complete() has a timeout of 120 s: it returns or raises.
FairSpec == Spec /\ \A j \in Jobs : WF_vars(Progress(j))

-----------------------------------------------------------------------------
(* Properties.                                                             *)

\* The types of the variables; a job that waits, and only such a job, has a
\* backend it waits for and calls left.
TypeOK ==
  /\ now \in Nat
  /\ breaker \in [Backends -> Breaker]
  /\ eligible \in SUBSET Backends
  /\ pc \in [Jobs -> {"idle", "waiting", "done"}]
  /\ cands \in [Jobs -> SUBSET Backends]
  /\ plan \in [Jobs -> Backends \cup {None}]
  /\ walk \in [Jobs -> Walk]
  /\ at \in [Jobs -> Backends \cup {None}]
  /\ result \in [Jobs -> Backends \cup {None}]
  /\ outcome \in [Jobs -> Outcomes \cup {None}]
  /\ calls \in [Jobs -> Nat]
  /\ asked \in [Jobs -> SUBSET Backends]
  /\ attempts \in [Jobs -> Nat]
  /\ \A j \in Jobs : /\ Waiting(j) <=> at[j] \in Backends
                     /\ Waiting(j) <=> walk[j].left > 0

\* However answers of concurrent jobs interleave, a breaker never shuts a
\* backend out for longer than one cooldown from now, and only after
\* FailThreshold failures in a row.
BreakerSane ==
  \A b \in Backends :
    /\ breaker[b].open_until <= now + Cooldown
    /\ breaker[b].open_until > 0 => breaker[b].consecutive >= FailThreshold

\* A call that waits for a backend has failed on, or skipped, every candidate
\* before it and none after it: meta.fell_over is never without a reason.
WalksInOrder ==
  \A j \in Jobs : Waiting(j) =>
    /\ at[j] \in cands[j]
    /\ walk[j].missed = IF at[j] = plan[j] THEN {}
                        ELSE {b \in cands[j] : b = plan[j] \/ b < at[j]}
    /\ walk[j].ahead = cands[j] \ (walk[j].missed \cup {at[j]})

\* The engine gives up only when every candidate has failed or is shut out,
\* and blames a backend ("failed") only when it asked one.
GivesUpOnlyAfterAll ==
  \A j \in Jobs :
    /\ outcome[j] \in {"failed", "unavailable"} => walk[j].missed = cands[j]
    /\ outcome[j] = "failed" => asked[j] # {}

\* Failover multiplies the prompts of a technique by at most the number of
\* candidates: no call asks a backend twice.
AttemptBound ==
  \A j \in Jobs : attempts[j] <= calls[j] * Cardinality(cands[j])

\* The engine keeps the promise of Inference, whatever changes around it.
Promised == INSTANCE Inference WITH
  phase   <- [j \in Jobs |-> IF Waiting(j) THEN "running" ELSE pc[j]],
  allowed <- cands

Promise == Promised!Spec

\* Every job that waits for a backend ends: failover never goes round.
JobsEnd == \A j \in Jobs : Waiting(j) ~> pc[j] = "done"

\* Whatever answers, failures and other jobs come in between: a breaker shuts a
\* backend out for one cooldown at most and for cause, failover skips no
\* candidate on its walk, and it gives up and blames a backend only at the end.
EngineSound == TypeOK /\ BreakerSane /\ WalksInOrder /\ GivesUpOnlyAfterAll
=============================================================================
