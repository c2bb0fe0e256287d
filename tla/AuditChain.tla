----------------------------- MODULE AuditChain -----------------------------
(***************************************************************************)
(* The tamper-evident audit trail: the `audit_log` table written by        *)
(* SqliteAudit.append_check, the SHA-256 hash chain of AuditChain.append,  *)
(* the two reports read from it (the attestation and the chain export) and *)
(* the owner's reset.                                                      *)
(*                                                                         *)
(* One process serves every request.  `async` handlers run one at a time   *)
(* on the event-loop thread between awaits, so they are ONE appending      *)
(* thread; plain `def` handlers run in the thread pool, each a thread of   *)
(* its own.  Every get_conn() block is a separate SQLite connection whose  *)
(* SELECTs run outside the transaction that its first write opens, so a    *)
(* thread that reads the head and then inserts takes two steps here.       *)
(*                                                                         *)
(* A SHA-256 digest covers the event's fresh uuid, so it is represented by *)
(* the event's id; rows are only altered outside the program, which        *)
(* AuditTamper checks.                                                     *)
(***************************************************************************)
EXTENDS HashChain

CONSTANTS
  Threads,   \* the event-loop thread and the thread-pool workers
  Ids,       \* uuid4 values the program may draw (bounds the behaviours)
  None       \* "no value"

ASSUME ConstantsAssumption ==
  /\ GENESIS \notin Ids
  /\ None \notin Ids
  /\ None # GENESIS

VARIABLES
  audit_log,   \* ids of the rows of table audit_log
  chain,       \* table tamper_evident_audit_log in rowid order
  pc,          \* where each thread is
  ev,          \* the uuid the thread's current operation has drawn
  prev,        \* the head hash the thread's append has read
  report,      \* what the thread's attestation or export has read so far
  published,   \* history: the last report since a reset that none overlapped
  used,        \* uuids drawn so far
  abandoned,   \* history: audit rows whose chain event was lost to a failure
  erased,      \* history: hashes deleted by a reset
  raced,       \* history: two appends, or an append and a reset, overlapped
  cut          \* history: threads whose operation a reset overlapped

vars == <<audit_log, chain, pc, ev, prev, report, published, used,
          abandoned, erased, raced, cut>>

Hashes == Ids \cup {GENESIS}

\* A chain row.  `check` marks a governance.check event, which carries the
\* audit_id of the audit_log row with the same id.
Row == [event_hash : Ids, previous_hash : Hashes, check : BOOLEAN]

Report == [kind : {"attestation", "export"}, verified : BOOLEAN,
           events : Nat, head : Hashes]

\* Between an append's SELECT and its INSERT.
Reading == {"check_read", "event_read", "probe_read"}

Appending  == {"logged", "check_read", "event_read"}
Attesting  == {"verified", "counted", "probe_read", "probed"}
PcValues   == {"idle", "exporting"} \cup Appending \cup Attesting

-----------------------------------------------------------------------------
(* Reading the chain.                                                      *)

\* Mutant: only the newest link is checked.
VerifyRows_LastLink(rows) ==
  rows = << >> \/ rows[Len(rows)].previous_hash = ExpectedPrev(rows, Len(rows))

\* verify_rows: walk the rows in order checking the linkage.
VerifyRows(rows) ==
  \A i \in 1..Len(rows) : rows[i].previous_hash = ExpectedPrev(rows, i)

HashesOf(rows) == {rows[i].event_hash : i \in 1..Len(rows)}

\* The audit_log rows the chain refers to.
Anchored == {chain[i].event_hash : i \in {j \in 1..Len(chain) : chain[j].check}}

-----------------------------------------------------------------------------
Init ==
  /\ audit_log = {}
  /\ chain = << >>
  /\ pc = [t \in Threads |-> "idle"]
  /\ ev = [t \in Threads |-> None]
  /\ prev = [t \in Threads |-> GENESIS]
  /\ report = [t \in Threads |-> None]
  /\ published = None
  /\ used = {}
  /\ abandoned = {}
  /\ erased = {}
  /\ raced = FALSE
  /\ cut = {}

GoTo(t, there) ==
  /\ pc' = [pc EXCEPT ![t] = there]
  /\ cut' = IF there = "idle" THEN cut \ {t} ELSE cut

\* uuid.uuid4().hex: a value never drawn before.
Draw(t) == \E id \in Ids \ used :
  /\ used' = used \cup {id}
  /\ ev' = [ev EXCEPT ![t] = id]

\* Mutant: the chain event is appended without its audit_log row.
LogCheck_NoRow(t) ==
  /\ pc[t] = "idle"
  /\ Draw(t)
  /\ GoTo(t, "logged")
  /\ UNCHANGED <<audit_log, chain, prev, report, published, abandoned, erased, raced>>

\* append_check, first transaction: the audit_log row is committed before the
\* chain is touched.
LogCheck(t) ==
  /\ pc[t] = "idle"
  /\ Draw(t)
  /\ audit_log' = audit_log \cup {ev'[t]}
  /\ GoTo(t, "logged")
  /\ UNCHANGED <<chain, prev, report, published, abandoned, erased, raced>>

\* The SELECT of AuditChain.append.  A direct append (a cache hit, an egress
\* or license decision, a compression) draws its id in the same step; the
\* append of append_check and of the attestation's probe drew it before.
ReadHead(t) ==
  /\ \/ /\ pc[t] = "idle"
        /\ Draw(t)
        /\ GoTo(t, "event_read")
     \/ /\ pc[t] = "logged"
        /\ GoTo(t, "check_read")
        /\ UNCHANGED <<ev, used>>
     \/ /\ pc[t] = "counted"
        /\ GoTo(t, "probe_read")
        /\ UNCHANGED <<ev, used>>
  /\ prev' = [prev EXCEPT ![t] = HeadHash(chain)]
  /\ raced' = (raced \/ \E u \in Threads \ {t} : pc[u] \in Reading)
  /\ UNCHANGED <<audit_log, chain, report, published, abandoned, erased>>

AfterAppend(t) == IF pc[t] = "probe_read" THEN "probed" ELSE "idle"

\* Mutant: the row names itself as its predecessor.
InsertRow_SelfLink(t) ==
  /\ pc[t] \in Reading
  /\ chain' = Append(chain, [event_hash    |-> ev[t],
                             previous_hash |-> ev[t],
                             check         |-> pc[t] = "check_read"])
  /\ GoTo(t, AfterAppend(t))
  /\ UNCHANGED <<audit_log, ev, prev, report, published, used, abandoned, erased, raced>>

\* Mutant: the chain event of a decision omits its audit_id.
InsertRow_NoAuditId(t) ==
  /\ pc[t] \in Reading
  /\ chain' = Append(chain, [event_hash    |-> ev[t],
                             previous_hash |-> prev[t],
                             check         |-> FALSE])
  /\ GoTo(t, AfterAppend(t))
  /\ UNCHANGED <<audit_log, ev, prev, report, published, used, abandoned, erased, raced>>

\* The INSERT of AuditChain.append and its commit.
InsertRow(t) ==
  /\ pc[t] \in Reading
  /\ chain' = Append(chain, [event_hash    |-> ev[t],
                             previous_hash |-> prev[t],
                             check         |-> pc[t] = "check_read"])
  /\ GoTo(t, AfterAppend(t))
  /\ UNCHANGED <<audit_log, ev, prev, report, published, used, abandoned, erased, raced>>

\* The INSERT waits longer than the 5 s busy timeout: get_conn rolls back and
\* raises.  The request fails; the attestation's probe swallows the error.
AppendFails(t) ==
  /\ pc[t] \in Reading
  /\ abandoned' = IF pc[t] = "check_read" THEN abandoned \cup {ev[t]} ELSE abandoned
  /\ GoTo(t, AfterAppend(t))
  /\ UNCHANGED <<audit_log, chain, ev, prev, report, published, used, erased, raced>>

-----------------------------------------------------------------------------
(* build_attestation: verify, count, probe (an append), then the anchor,   *)
(* each on a connection of its own.                                        *)

AttestVerify(t) ==
  /\ pc[t] = "idle"
  /\ Draw(t)
  /\ report' = [report EXCEPT ![t] = [kind |-> "attestation", events |-> 0,
                   head |-> GENESIS, verified |-> VerifyRows(chain)]]
  /\ GoTo(t, "verified")
  /\ UNCHANGED <<audit_log, chain, prev, published, abandoned, erased, raced>>

AttestCount(t) ==
  /\ pc[t] = "verified"
  /\ report' = [report EXCEPT ![t].events = Len(chain)]
  /\ GoTo(t, "counted")
  /\ UNCHANGED <<audit_log, chain, ev, prev, published, used, abandoned, erased, raced>>

\* Publish the thread's report with the head hash read last.
Publish(t) ==
  /\ published' = IF t \in cut THEN published
                  ELSE [report[t] EXCEPT !.head = HeadHash(chain)]
  /\ report' = [report EXCEPT ![t] = None]
  /\ GoTo(t, "idle")
  /\ UNCHANGED <<audit_log, chain, ev, prev, used, abandoned, erased, raced>>

AttestAnchor(t) ==
  /\ pc[t] = "probed"
  /\ Publish(t)

\* export: all rows on one connection, the head on another.
ExportRows(t) ==
  /\ pc[t] = "idle"
  /\ report' = [report EXCEPT ![t] = [kind |-> "export", events |-> Len(chain),
                   head |-> GENESIS, verified |-> VerifyRows(chain)]]
  /\ GoTo(t, "exporting")
  /\ UNCHANGED <<audit_log, chain, ev, prev, published, used, abandoned, erased, raced>>

ExportHead(t) ==
  /\ pc[t] = "exporting"
  /\ Publish(t)

-----------------------------------------------------------------------------
\* reset_activity: one transaction deletes the activity tables.
ResetActivity(t) ==
  /\ pc[t] = "idle"
  /\ audit_log' = {}
  /\ chain' = << >>
  /\ erased' = erased \cup HashesOf(chain)
  /\ published' = None
  /\ raced' = \E u \in Threads : pc[u] \in Reading
  /\ cut' = {u \in Threads : pc[u] # "idle"}
  /\ UNCHANGED <<pc, ev, prev, report, used, abandoned>>

\* The process dies and the container restarts it: threads are lost, what was
\* committed stays.
Restart ==
  /\ \E t \in Threads : pc[t] # "idle"
  /\ abandoned' = abandoned \cup
       {ev[t] : t \in {u \in Threads : pc[u] \in {"logged", "check_read"}}}
  /\ pc' = [t \in Threads |-> "idle"]
  /\ report' = [t \in Threads |-> None]
  /\ cut' = {}
  /\ UNCHANGED <<audit_log, chain, ev, prev, published, used, erased, raced>>

Work(t) ==
  \/ LogCheck(t) \/ ReadHead(t) \/ InsertRow(t) \/ AppendFails(t)
  \/ AttestVerify(t) \/ AttestCount(t) \/ AttestAnchor(t)
  \/ ExportRows(t) \/ ExportHead(t) \/ ResetActivity(t)

Next == Restart \/ \E t \in Threads : Work(t)

Spec == Init /\ [][Next]_vars

-----------------------------------------------------------------------------
(* Properties.                                                             *)

\* The types of the tables, of each thread's local state and of the histories.
TypeOK ==
  /\ audit_log \subseteq Ids
  /\ chain \in Seq(Row)
  /\ pc \in [Threads -> PcValues]
  /\ ev \in [Threads -> Ids \cup {None}]
  /\ prev \in [Threads -> Hashes]
  /\ report \in [Threads -> Report \cup {None}]
  /\ published \in Report \cup {None}
  /\ used \subseteq Ids
  /\ abandoned \subseteq Ids
  /\ erased \subseteq Ids
  /\ raced \in BOOLEAN
  /\ cut \subseteq Threads

\* The log verifies as long as no two appends, nor an append and a reset, have
\* overlapped between the SELECT and the INSERT, whatever failed or restarted.
ChainVerifies == ~raced => VerifyRows(chain)

\* What the documents say: the program never alters a row, so the log it wrote
\* verifies.  Two overlapping appends name the same predecessor and break it.
LogVerifies == VerifyRows(chain)

\* However appends interleave with each other, with resets and with restarts,
\* a row's predecessor is genesis, an EARLIER row, or a row a reset deleted:
\* the log may fork but never points forward or at an event never recorded.
LinksPointBack ==
  \A i \in 1..Len(chain) :
    \/ chain[i].previous_hash \in erased \cup {GENESIS}
    \/ \E j \in 1..(i - 1) : chain[j].event_hash = chain[i].previous_hash

\* No event is recorded twice, and no erased event reappears after a reset.
EventsOnce ==
  /\ \A i, j \in 1..Len(chain) :
        chain[i].event_hash = chain[j].event_hash => i = j
  /\ HashesOf(chain) \cap erased = {}

\* A governance decision in audit_log that the chain does not anchor belongs to
\* a request still in append_check, or to one a failure cut between its two
\* transactions; no completed request leaves its decision outside the chain.
UnanchoredExplained ==
  audit_log \ Anchored \subseteq
    abandoned \cup {ev[t] : t \in {u \in Threads : pc[u] \in {"logged", "check_read"}}}

\* A decision enters the chain only after its audit_log row, so the chain never
\* vouches for a decision nobody can read, unless a reset deleted the row in
\* between.
AnchorHasRow ==
  [][\A a \in Anchored' \ Anchored :
       a \in audit_log \/ \E t \in cut : a = ev[t]]_vars

\* Position of a hash in the chain, 0 for genesis.
Position(h) ==
  IF h = GENESIS THEN 0
  ELSE CHOOSE i \in 1..Len(chain) : chain[i].event_hash = h

\* A published report that no reset overlapped is anchored at or after the
\* events it counts: the head it names is never older than its count.
HeadCoversCount ==
  published # None => Position(published.head) >= published.events

\* A chain that fails verification keeps failing until a reset: no later append
\* can hide a broken link.
BreakNeverHeals ==
  [][~VerifyRows(chain) => ~VerifyRows(chain') \/ chain' = << >>]_vars

\* Whatever interleaves, fails or restarts: the state keeps its types, no event
\* is recorded twice or comes back after a reset, and the log may fork but never
\* points forward.
ChainSound == TypeOK /\ EventsOnce /\ LinksPointBack
=============================================================================
