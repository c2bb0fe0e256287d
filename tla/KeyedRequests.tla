---------------------------- MODULE KeyedRequests ----------------------------
(***************************************************************************)
(* Requests under an API key or a login session: how a credential is       *)
(* resolved, which key's caps and scope apply, what is charged, and which  *)
(* alerts are raised.  Caps, scope and spending are looked up by NAME, and *)
(* names are not unique.                                                   *)
(*                                                                         *)
(* A request is admitted on the event loop, one connection after another;  *)
(* revoking, suspending and signing out run in the thread pool and commit  *)
(* between any two of them.  During inference the loop is free.  Alerts    *)
(* are raised on the loop only, so two never interleave.                   *)
(*                                                                         *)
(* Time is counted in half days, the lifetime of a session: a zone is UTC  *)
(* or half a day ahead of it, so local midnight may be UTC noon.           *)
(***************************************************************************)
EXTENDS Null, Integers, Sequences, FiniteSets, FiniteSetsExt, SequencesExt

CONSTANTS
  Requests,      \* requests at a time
  Names,         \* names of keys and of people
  People,        \* who signs in
  Backends,
  Targets,       \* backends requests name
  NewKeys,       \* what a key may be issued with: [name, backends, caps, days]
  KeyEdits,      \* the fields an edit may name: caps, backends, days
  Charges,       \* cost and tokens of an answer; a cache hit is free
  DaysPerMonth,
  MaxIssued, MaxChanges, LastClock, MaxAnswers   \* bounds

Metrics == <<[metric |-> "cost", window |-> "day"], [metric |-> "cost", window |-> "month"],
             [metric |-> "token", window |-> "day"], [metric |-> "token", window |-> "month"]>>
Caps == [1..4 -> Int]       \* in the order of Metrics; none unless positive

ASSUME KeyedAssumption ==
  /\ People \subseteq Names /\ Targets \subseteq Backends
  /\ None \notin Backends \cup Requests
  /\ NewKeys \subseteq [name : Names, backends : SUBSET Backends, caps : Caps, days : Int]
  /\ \A e \in KeyEdits :
       /\ DOMAIN e \subseteq {"backends", "caps", "days"}
       /\ "backends" \in DOMAIN e => e.backends \subseteq Backends
       /\ "caps" \in DOMAIN e => e.caps \in Caps
       /\ "days" \in DOMAIN e => e.days \in Int
  /\ Charges \subseteq [cost : Nat, tokens : Nat]
  /\ DaysPerMonth \in Nat \ {0}
  /\ {MaxIssued, MaxChanges, LastClock, MaxAnswers} \subseteq Nat

VARIABLES
  keys,       \* table api_keys, oldest first
  sessions,   \* table sessions
  usage,      \* table key_usage
  bell,       \* table notifications
  settings,   \* org settings: the alerts' switch and the time zone
  clock,
  loop,       \* the request that is being admitted, or None
  req,        \* each request
  answers,    \* history: each answer, and the rows of usage that serving it wrote
  refusals,   \* history: the caps that refused requests, and on which UTC day
  changes     \* administrative changes so far: not new keys and ended sessions

keyedVars == <<keys, sessions, usage, bell, settings, clock, loop, req, answers, refusals,
              changes>>

UtcDay(t) == t \div 2
LocalDay(t) == (t + settings.zone) \div 2
LocalMonth(t) == LocalDay(t) \div DaysPerMonth

-----------------------------------------------------------------------------
(* Keys.                                                                   *)

KeyAuthenticates(i) ==
  /\ ~keys[i].revoked
  /\ ~keys[i].suspended
  /\ keys[i].expires # None => keys[i].expires > clock

\* Mutants: a revoked key is found; the newest is.
KeyMeta_Revoked(name) ==
  SelectInSeq(keys, LAMBDA k : k.name = name)
KeyMeta_Newest(name) ==
  SelectLastInSeq(keys, LAMBDA k : k.name = name /\ ~k.revoked)

\* get_key_meta: the oldest key of that name that is not revoked, or 0.
KeyMeta(name) == SelectInSeq(keys, LAMBDA k : k.name = name /\ ~k.revoked)

ScopeViolation(name, backend) ==
  LET i == KeyMeta(name) IN
  i # 0 /\ keys[i].backends # {} /\ backend \notin keys[i].backends

-----------------------------------------------------------------------------
(* Budgets.                                                                *)

InWindow(u, window) ==
  IF window = "day" THEN LocalDay(u.at) >= LocalDay(clock)
  ELSE LocalMonth(u.at) >= LocalMonth(clock)

Spent(name, m) ==
  FoldLeft(LAMBDA s, u : IF u.name = name /\ InWindow(u, m.window)
                         THEN s + (IF m.metric = "cost" THEN u.cost ELSE u.tokens)
                         ELSE s,
           0, usage)

\* The verdict after one more cap: block when it is reached, warn when 80% are.
\* An alert is known by its title: name, level and cap.
Judge(v, name, i) ==
  LET cap == keys[KeyMeta(name)].caps[i]
      used == Spent(name, Metrics[i])
      alert(level) == v.alerts \cup {<<name, level, i>>}
  IN IF cap > 0 /\ used >= cap THEN [effect |-> "block", alerts |-> alert("block")]
     ELSE IF cap > 0 /\ used * 100 >= cap * 80 /\ v.effect = "allow"
       THEN [effect |-> "warn", alerts |-> alert("warn")]
     ELSE v

\* Mutant: the first cap that is near ends the loop.
Check_WarnEnds(name) ==
  FoldLeft(LAMBDA v, i : IF v.effect # "allow" THEN v ELSE Judge(v, name, i),
           [effect |-> "allow", alerts |-> {}],
           IF KeyMeta(name) = 0 THEN <<>> ELSE <<1, 2, 3, 4>>)

\* check: the caps of the name in turn, until one blocks.
Check(name) ==
  FoldLeft(LAMBDA v, i : IF v.effect = "block" THEN v ELSE Judge(v, name, i),
           [effect |-> "allow", alerts |-> {}],
           IF KeyMeta(name) = 0 THEN <<>> ELSE <<1, 2, 3, 4>>)

\* Mutant: a title is never sent again.
AlreadySent_Ever(title) == \E j \in DOMAIN bell : bell[j].title = title

\* notify: a title of this UTC day is not sent again.
AlreadySent(title) ==
  \E j \in DOMAIN bell : bell[j].title = title /\ bell[j].day >= UtcDay(clock)

Notify(titles) ==
  LET new == IF settings.alerts THEN {x \in titles : ~AlreadySent(x)} ELSE {}
      Note(x) == [title |-> x, day |-> UtcDay(clock)]
  IN bell' = bell \o [n \in 1..Cardinality(new) |-> Note(SetToSeq(new)[n])]

-----------------------------------------------------------------------------
Idle == [stage |-> "idle", key |-> 0, subject |-> None, backend |-> None,
         metered |-> FALSE, keyed |-> FALSE, sole |-> FALSE, revoked |-> FALSE,
         scope |-> {}]

KeyedInit ==
  /\ keys = <<>> /\ usage = <<>> /\ answers = <<>> /\ bell = <<>>
  /\ sessions = {}
  /\ settings = [alerts |-> TRUE, zone |-> 0]
  /\ clock = 0 /\ changes = 0
  /\ loop = None
  /\ req = [r \in Requests |-> Idle]
  /\ refusals = {}

Step(r, from) == loop = r /\ req[r].stage = from

\* The keys of a name that are not revoked.
Bearers(name) == {j \in DOMAIN keys : keys[j].name = name /\ ~keys[j].revoked}

\* _resolve_principal: the key's hash, or the session's, is looked up.
\* history: whether there is a key of the caller's name, whether the caller's is
\* the only one, and its scope.
Authenticate(r, subject, i, backend) ==
  /\ loop = None /\ req[r].stage = "idle"
  /\ loop' = r
  /\ req' = [req EXCEPT ![r] =
       [Idle EXCEPT !.stage = "authenticated", !.key = i, !.subject = subject,
                 !.backend = backend, !.keyed = Bearers(subject) # {},
                 !.sole = backend # None /\ Bearers(subject) \subseteq {i},
                 !.scope = IF i = 0 \/ backend = None THEN {} ELSE keys[i].backends]]
  /\ UNCHANGED <<keys, sessions, usage, answers, bell, settings, clock, changes, refusals>>

AuthenticateKey(r, i, backend) ==
  KeyAuthenticates(i) /\ Authenticate(r, keys[i].name, i, backend)

AuthenticateSession(r, s, backend) ==
  s.expires > clock /\ Authenticate(r, s.subject, 0, backend)

\* chat_completions decides here whether the request is metered.
LookUp(r) ==
  /\ Step(r, "authenticated")
  /\ LET found == KeyMeta(req[r].subject) # 0 IN
     req' = [req EXCEPT ![r].stage = IF found THEN "metered" ELSE "budgeted",
                        ![r].metered = found]
  /\ UNCHANGED <<keys, sessions, usage, answers, bell, settings, clock, loop, changes, refusals>>

\* budgets.check looks the key up again, sums its usage and raises alerts.
CheckBudget(r) ==
  /\ Step(r, "metered")
  /\ LET v == Check(req[r].subject) IN
     /\ Notify(v.alerts)
     /\ IF v.effect = "block"
        THEN /\ loop' = None
             /\ req' = [req EXCEPT ![r] = Idle]
             /\ refusals' = IF settings.alerts
                  THEN refusals \cup {[title |-> CHOOSE x \in v.alerts : x[2] = "block",
                                       day |-> UtcDay(clock)]}
                  ELSE refusals
        ELSE /\ req' = [req EXCEPT ![r].stage = "budgeted"]
             /\ UNCHANGED <<loop, refusals>>
  /\ UNCHANGED <<keys, sessions, usage, answers, settings, clock, changes>>

\* Only a request that names its backend is held to a scope.
CheckScope(r) ==
  /\ Step(r, "budgeted")
  /\ loop' = None
  /\ req' = [req EXCEPT ![r] =
       IF @.backend # None /\ ScopeViolation(@.subject, @.backend) THEN Idle
       ELSE [@ EXCEPT !.stage = "inferring"]]
  /\ UNCHANGED <<keys, sessions, usage, answers, bell, settings, clock, changes, refusals>>

\* record_usage
Usage(name, c) == Append(usage, [name |-> name, cost |-> c.cost, tokens |-> c.tokens, at |-> clock])

\* history: the answer, to a caller with a key of its name there until the look-up
\* or not, and the rows that usage has gained with it.
Answered(r, c) ==
  answers' = Append(answers,
    [keyed |-> req[r].keyed,
     charge |-> [name |-> req[r].subject, cost |-> c.cost, tokens |-> c.tokens, at |-> clock],
     rows |-> (Len(usage) + 1)..Len(usage')])

\* Mutant: the charge looks the key up again.
Serve_LooksAgain(r, c) ==
  /\ loop = None /\ req[r].stage = "inferring"
  /\ Len(answers) < MaxAnswers
  /\ usage' = IF KeyMeta(req[r].subject) # 0 THEN Usage(req[r].subject, c) ELSE usage
  /\ Answered(r, c)
  /\ req' = [req EXCEPT ![r] = Idle]
  /\ UNCHANGED <<keys, sessions, bell, settings, clock, loop, changes, refusals>>

\* The answer is there: the name is charged, whatever became of its key.
Serve(r, c) ==
  /\ loop = None /\ req[r].stage = "inferring"
  /\ Len(answers) < MaxAnswers
  /\ usage' = IF req[r].metered THEN Usage(req[r].subject, c) ELSE usage
  /\ Answered(r, c)
  /\ req' = [req EXCEPT ![r] = Idle]
  /\ UNCHANGED <<keys, sessions, bell, settings, clock, loop, changes, refusals>>

Fail(r) ==
  /\ loop = None /\ req[r].stage = "inferring"
  /\ req' = [req EXCEPT ![r] = Idle]
  /\ UNCHANGED <<keys, sessions, usage, answers, bell, settings, clock, loop, changes, refusals>>

-----------------------------------------------------------------------------
(* Administration.  What runs on the loop waits for the loop.              *)

Changed == changes < MaxChanges /\ changes' = changes + 1

\* No days, no expiry.
Expiry(days) == IF days = 0 THEN None ELSE clock + 2 * days

KeyRow(k) == [name |-> k.name, backends |-> k.backends, caps |-> k.caps,
              expires |-> Expiry(k.days), suspended |-> FALSE, revoked |-> FALSE]

IssueKey(k) ==
  /\ loop = None /\ Len(keys) < MaxIssued
  /\ keys' = Append(keys, KeyRow(k))
  /\ UNCHANGED <<sessions, usage, answers, bell, settings, clock, loop, req, changes, refusals>>

\* update_key: the named fields of the row, never its name or its secret.
Updated(row, e) ==
  [f \in DOMAIN row |-> IF f \in DOMAIN e THEN e[f]
                        ELSE IF f = "expires" /\ "days" \in DOMAIN e THEN Expiry(e.days)
                        ELSE row[f]]

UpdateKey(i, e) ==
  /\ loop = None /\ Changed
  /\ keys' = [keys EXCEPT ![i] = Updated(@, e)]
  /\ UNCHANGED <<sessions, usage, answers, bell, settings, clock, loop, req, refusals>>

\* In the thread pool; a revoked key stays as it is.
SetSuspended(i, suspended) ==
  /\ Changed
  /\ ~keys[i].revoked /\ keys[i].suspended # suspended
  /\ keys' = [keys EXCEPT ![i].suspended = suspended]
  /\ UNCHANGED <<sessions, usage, answers, bell, settings, clock, loop, req, refusals>>

\* history: a request under that very key was being admitted; a request that has
\* not looked its name up yet has lost the last key of its name.
RevokeKey(i) ==
  /\ Changed
  /\ ~keys[i].revoked
  /\ keys' = [keys EXCEPT ![i].revoked = TRUE]
  /\ req' = [r \in Requests |->
       IF loop # r THEN req[r]
       ELSE [req[r] EXCEPT !.revoked = @ \/ req[r].key = i,
               !.keyed = @ /\ (req[r].stage = "authenticated"
                                 => Bearers(req[r].subject) # {i})]]
  /\ UNCHANGED <<sessions, usage, answers, bell, settings, clock, loop, refusals>>

CreateSession(p) ==
  /\ loop = None /\ Changed
  /\ sessions' = sessions \cup {[subject |-> p, expires |-> clock + 1]}
  /\ UNCHANGED <<keys, usage, answers, bell, settings, clock, loop, req, refusals>>

RevokeSession(s) ==
  /\ sessions' = sessions \ {s}
  /\ UNCHANGED <<keys, usage, answers, bell, settings, clock, loop, req, changes, refusals>>

PutSettings(alerts, zone) ==
  /\ loop = None /\ Changed
  /\ settings' = [alerts |-> alerts, zone |-> zone]
  /\ UNCHANGED <<keys, sessions, usage, answers, bell, clock, loop, req, refusals>>

ClockTicks ==
  /\ clock < LastClock /\ clock' = clock + 1
  /\ UNCHANGED <<keys, sessions, usage, answers, bell, settings, loop, req, changes, refusals>>

\* The process dies: requests under way are gone, tables stay.
Restart ==
  /\ loop' = None
  /\ req' = [r \in Requests |-> Idle]
  /\ UNCHANGED <<keys, sessions, usage, answers, bell, settings, clock, changes, refusals>>

Handle(r) ==
  \/ \E i \in DOMAIN keys, b \in Targets \cup {None} : AuthenticateKey(r, i, b)
  \/ \E s \in sessions, b \in Targets \cup {None} : AuthenticateSession(r, s, b)
  \/ LookUp(r)
  \/ CheckBudget(r)
  \/ CheckScope(r)
  \/ \E c \in Charges : Serve(r, c)
  \/ Fail(r)

Administer ==
  \/ \E k \in NewKeys : IssueKey(k)
  \/ \E i \in DOMAIN keys : \/ \E e \in KeyEdits : UpdateKey(i, e)
                            \/ \E on \in BOOLEAN : SetSuspended(i, on)
                            \/ RevokeKey(i)
  \/ \E p \in People : CreateSession(p)
  \/ \E s \in sessions : RevokeSession(s)
  \/ \E on \in BOOLEAN, zone \in 0..1 : PutSettings(on, zone)

KeyedNext ==
  \/ \E r \in Requests : Handle(r)
  \/ Administer
  \/ ClockTicks
  \/ Restart

KeyedSpec == KeyedInit /\ [][KeyedNext]_keyedVars

-----------------------------------------------------------------------------
Stages == {"idle", "authenticated", "metered", "budgeted", "inferring"}

KeyRecord == [name : Names, backends : SUBSET Backends, caps : Caps,
              expires : Int \cup {None}, suspended : BOOLEAN, revoked : BOOLEAN]
UsageRow == [name : Names, cost : Nat, tokens : Nat, at : 0..clock]
AnswerRecord == [keyed : BOOLEAN, charge : UsageRow, rows : SUBSET Nat]

KeyedTypeOK ==
  /\ keys \in Seq(KeyRecord)
  /\ sessions \subseteq [subject : People, expires : Nat]
  /\ usage \in Seq(UsageRow)
  /\ answers \in Seq(AnswerRecord)
  /\ \A r \in Requests :
       /\ req[r].stage \in Stages
       /\ req[r].stage \in {"authenticated", "metered", "budgeted"} <=> loop = r

\* "Most-restrictive cost+token daily/monthly cap check": whatever was charged,
\* whenever, in whichever zone, a name is blocked exactly when one of its four
\* caps is used up, and warned when none is but one is at four fifths.
CapsAgree ==
  \A name \in Names :
    LET i == KeyMeta(name)
        Used(n) ==
          LET mine == {j \in DOMAIN usage :
                         /\ usage[j].name = name
                         /\ IF n \in {1, 3} THEN LocalDay(usage[j].at) = LocalDay(clock)
                            ELSE LocalMonth(usage[j].at) = LocalMonth(clock)}
          IN MapThenSumSet(LAMBDA j : IF n <= 2 THEN usage[j].cost ELSE usage[j].tokens, mine)
        Capped == {n \in 1..4 : keys[i].caps[n] > 0}
    IN Check(name).effect =
         IF i = 0 THEN "allow"
         ELSE IF \E n \in Capped : Used(n) >= keys[i].caps[n] THEN "block"
         ELSE IF \E n \in Capped : 5 * Used(n) >= 4 * keys[i].caps[n] THEN "warn"
         ELSE "allow"

\* A request refused by a cap while alerts were on was announced on the UTC day
\* of the refusal, and nothing is announced twice on a day - although caps reset
\* at local midnight and alerts are counted per UTC day.
AlertedOnce ==
  /\ refusals \subseteq Range(bell)
  /\ \A j, k \in DOMAIN bell : bell[j] = bell[k] => j = k

\* A request that named its backend and got past the gateway names one its own
\* key may use, unless two keys had the name or its key was revoked while the
\* request was being admitted.
OwnScope ==
  \A r \in Requests :
    /\ req[r].key # 0 /\ req[r].backend # None
    /\ req[r].stage = "inferring"
    /\ req[r].sole /\ ~req[r].revoked
    => req[r].scope = {} \/ req[r].backend \in req[r].scope

\* Serving an answer writes exactly one row to the ledger, with the answer's name,
\* cost, tokens and time, when some key of the caller's name was there when the
\* caller was authenticated and not revoked before chat_completions looked the
\* name up - also if that key is suspended, edited, expires or is revoked after
\* that; otherwise it writes none.  So a caller's own key makes the answer paid
\* for unless it is revoked between those two look-ups.  A login session under a
\* key's name is charged like the key, although the gateway's comment says "only
\* for key-authenticated callers" (app/main.py:1681).
Metered ==
  \A n \in DOMAIN answers :
    LET a == answers[n] IN
    IF a.keyed THEN \E j \in DOMAIN usage : a.rows = {j} /\ usage[j] = a.charge
    ELSE a.rows = {}

\* Every row of the ledger was written for one answer: a request that was
\* refused, failed or died with the process is charged nothing, and no row
\* serves for two answers.
RowsAnswered ==
  \A j \in DOMAIN usage :
    \E n \in DOMAIN answers :
      j \in answers[n].rows /\ \A m \in DOMAIN answers : j \in answers[m].rows => m = n

\* "Requests are now blocked until reset": a name is not unblocked by anything
\* but a new day in its zone, a change of the zone, or an edit or revocation of
\* a key of that name - not by issuing another key of that name, suspending one
\* or restarting.
BlockLifts ==
  [][\A name \in Names :
       Check(name).effect = "block" /\ Check(name)'.effect # "block" =>
         \/ LocalDay(clock)' # LocalDay(clock)
         \/ settings'.zone # settings.zone
         \/ \E i \in DOMAIN keys :
              /\ keys[i].name = name
              /\ keys'[i].caps # keys[i].caps \/ keys'[i].revoked # keys[i].revoked
    ]_keyedVars

\* Ledger and requests stay well formed, and ledger and answers match one to one,
\* whatever happened to the keys while requests were in flight.
ChargingSound == KeyedTypeOK /\ Metered /\ RowsAnswered
=============================================================================
