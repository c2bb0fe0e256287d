--------------------------- MODULE BackendRegistry ---------------------------
(***************************************************************************)
(* The backends: objects in the live registry, which routing reads, and    *)
(* rows of registered_backends, from which the registry is built again at  *)
(* startup.  Registering, editing and the boundary correction run on the   *)
(* event loop, removing runs in the thread pool.  An edit takes the object *)
(* out of the registry before it awaits its body, and fills in from that   *)
(* object whatever the body leaves out.                                    *)
(***************************************************************************)
EXTENDS Handlers, FiniteSets

CONSTANTS
  Providers,
  Environment,    \* the backends configured in the environment, by provider
  Keys,           \* API keys, standing for all that an edit may leave out
  Registrations,  \* backends that requests register
  Changes,        \* what edits name
  Clients         \* owners who may be editing at the same time

Backend == [key : Keys \cup {None}, inBoundary : BOOLEAN]
Change == [key : Keys \cup {None}, inBoundary : BOOLEAN \cup {None}]

\* What a request that writes a backend has left to do.
Unfinished ==
  [op : {"save"}, provider : Providers, row : Backend]
    \cup [op : {"mark"}, provider : Providers, inBoundary : BOOLEAN]
    \cup [op : {"remove"}, provider : Providers]

ASSUME RegistryAssumption ==
  /\ None \notin Keys /\ None \notin BOOLEAN
  /\ None \notin Backend /\ None \notin Unfinished
  /\ DOMAIN Environment \subseteq Providers
  /\ \A p \in DOMAIN Environment : Environment[p] \in Backend
  /\ Registrations \subseteq Backend /\ Changes \subseteq Change

VARIABLES
  live,      \* the registry: provider -> backend, or None
  rows,      \* the table: provider -> backend, or None
  editing,   \* the edit each client is uploading, or None: its provider, the
             \* object it took (Registered while that is still the live one) and
             \* whether the provider has been written since
  word,      \* history: each backend as the requests, one after another, leave it
  lost       \* history: providers of which overlapping requests lost a word

registryVars == <<live, rows, editing, word, lost>>

BuiltIn == DOMAIN Environment

\* build_registry: rows override what the environment configures.
Boot(table) ==
  [p \in Providers |-> IF table[p] # None THEN table[p]
                       ELSE IF p \in BuiltIn THEN Environment[p] ELSE None]

\* The object an edit took, as it is now.
Existing(e) == IF e.object = None THEN live[e.provider] ELSE e.object

\* "A blank/absent key KEEPS the stored one", and so do the other fields.
Merge(old, c) ==
  [key |-> IF c.key # None THEN c.key ELSE old.key,
   inBoundary |-> IF c.inBoundary # None THEN c.inBoundary ELSE old.inBoundary]

\* The live object of p is replaced or removed: edits keep the old one.
Detached(edits, p) ==
  [c \in Clients |->
     IF edits[c] = None \/ edits[c].provider # p THEN edits[c]
     ELSE [provider |-> p, object |-> Existing(edits[c]), overlapped |-> TRUE]]

Removing(p) == \E r \in Running("remove") : r.provider = p
Writing(p) == ~LoopFree /\ loop.op \in {"save", "mark"} /\ loop.provider = p
Note(p, overlapped) == lost' = IF overlapped THEN lost \cup {p} ELSE lost

-----------------------------------------------------------------------------
RegistryInit ==
  /\ rows = [p \in Providers |-> None]
  /\ live = Boot(rows)
  /\ editing = [c \in Clients |-> None]
  /\ word = live
  /\ lost = {}

\* POST /v1/backends: the live registry first, then the row.
RegisterBackend(p, b) ==
  /\ LoopBegins([op |-> "save", provider |-> p, row |-> b])
  /\ live' = [live EXCEPT ![p] = b]
  /\ editing' = Detached(editing, p)
  /\ word' = [word EXCEPT ![p] = b]
  /\ lost' = IF Removing(p) THEN lost \cup {p} ELSE lost \ {p}
  /\ UNCHANGED rows

SaveBackend ==
  /\ ~LoopFree /\ loop.op = "save"
  /\ rows' = [rows EXCEPT ![loop.provider] = loop.row]
  /\ LoopEnds
  /\ UNCHANGED <<live, editing, word, lost>>

\* The INSERT raises: the live backend has no row.
SaveFails ==
  /\ ~LoopFree /\ loop.op = "save"
  /\ Note(loop.provider, TRUE)
  /\ LoopEnds
  /\ UNCHANGED <<live, rows, editing, word>>

\* PUT /v1/backends/{provider}: reg.get, then await request.json().
UpdateReads(c, p) ==
  /\ LoopFree /\ Arrive
  /\ editing[c] = None /\ live[p] # None
  /\ editing' = [editing EXCEPT ![c] =
                   [provider |-> p, object |-> None, overlapped |-> FALSE]]
  /\ UNCHANGED <<loop, pool, live, rows, word, lost>>

\* The body has arrived: a new object replaces the live one, then the row.
UpdateBackend(c, change) ==
  /\ LoopFree /\ editing[c] # None
  /\ LET e == editing[c]
         b == Merge(Existing(e), change)
     IN /\ live' = [live EXCEPT ![e.provider] = b]
        /\ loop' = [op |-> "save", provider |-> e.provider, row |-> b]
        /\ editing' = Detached([editing EXCEPT ![c] = None], e.provider)
        /\ word' = [word EXCEPT ![e.provider] =
                      IF @ = None THEN b ELSE Merge(@, change)]
        /\ Note(e.provider, e.overlapped)
  /\ UNCHANGED <<pool, calls, rows>>

\* POST /v1/backends/{provider}/boundary: the row first, then the live object.
SetBoundary(p, inside) ==
  /\ live[p] # None \/ rows[p] # None
  /\ LoopBegins([op |-> "mark", provider |-> p, inBoundary |-> inside])
  /\ rows' = IF rows[p] = None THEN rows ELSE [rows EXCEPT ![p].inBoundary = inside]
  /\ word' = IF word[p] = None THEN word ELSE [word EXCEPT ![p].inBoundary = inside]
  /\ Note(p, Removing(p))
  /\ UNCHANGED <<live, editing>>

\* Mutant: the live object is replaced, so an edit under way does not see it.
MarkLive_NewObject ==
  /\ ~LoopFree /\ loop.op = "mark"
  /\ LET p == loop.provider IN
     /\ live' = IF live[p] = None THEN live
                ELSE [live EXCEPT ![p].inBoundary = loop.inBoundary]
     /\ editing' = [c \in Clients |->
          IF editing[c] = None \/ editing[c].provider # p THEN editing[c]
          ELSE [editing[c] EXCEPT !.object = Existing(editing[c])]]
  /\ LoopEnds
  /\ UNCHANGED <<rows, word, lost>>

\* The object is changed in place.
MarkLive ==
  /\ ~LoopFree /\ loop.op = "mark"
  /\ LET p == loop.provider IN
     live' = IF live[p] = None THEN live
             ELSE [live EXCEPT ![p].inBoundary = loop.inBoundary]
  /\ LoopEnds
  /\ UNCHANGED <<rows, editing, word, lost>>

\* DELETE /v1/backends/{provider}: out of the live registry, then the row.
RemoveLive(w, p) ==
  /\ live[p] # None \/ rows[p] # None
  /\ WorkerBegins(w, [op |-> "remove", provider |-> p])
  /\ live' = [live EXCEPT ![p] = None]
  /\ editing' = Detached(editing, p)
  /\ word' = [word EXCEPT ![p] = None]
  /\ Note(p, Writing(p))
  /\ UNCHANGED rows

DeleteRow(w) ==
  /\ ~Idle(w) /\ pool[w].op = "remove"
  /\ rows' = [rows EXCEPT ![pool[w].provider] = None]
  /\ WorkerEnds(w)
  /\ UNCHANGED <<live, editing, word, lost>>

\* A request cut off by a restart may have happened or not, and what it did to
\* a built-in backend without a row is forgotten.
RegistryRestart ==
  /\ live' = Boot(rows)
  /\ editing' = [c \in Clients |-> None]
  /\ word' = [p \in Providers |->
                IF \/ p \in lost \/ Writing(p) \/ Removing(p)
                   \/ p \in BuiltIn /\ rows[p] = None
                THEN live'[p] ELSE word[p]]
  /\ lost' = {}
  /\ UNCHANGED rows

RegistryNext ==
  \/ \E p \in Providers, b \in Registrations : RegisterBackend(p, b)
  \/ SaveBackend
  \/ SaveFails
  \/ \E c \in Clients, p \in Providers : UpdateReads(c, p)
  \/ \E c \in Clients, change \in Changes : UpdateBackend(c, change)
  \/ \E p \in Providers, inside \in BOOLEAN : SetBoundary(p, inside)
  \/ MarkLive
  \/ \E w \in Workers, p \in Providers : RemoveLive(w, p)
  \/ \E w \in Workers : DeleteRow(w)

-----------------------------------------------------------------------------
RegistryTypeOK ==
  /\ live \in [Providers -> Backend \cup {None}]
  /\ rows \in [Providers -> Backend \cup {None}]
  /\ \A c \in Clients : editing[c] # None =>
       /\ editing[c].provider \in Providers
       /\ editing[c].object \in Backend \cup {None}
       /\ editing[c].object = None => live[editing[c].provider] # None
  /\ lost \subseteq Providers

\* Once no request on it is under way, a backend is in the live registry and in
\* its row as the requests said, one after another: its key is kept by edits
\* that name none, its boundary flag survives an edit that was being uploaded
\* when it was corrected, a removed one is gone, and restarts change nothing -
\* unless two requests overlapped that replace or remove it, or a write failed.
\* A built-in backend need not have a row.
LastWordHolds ==
  \A p \in Providers \ lost :
    ~Writing(p) /\ ~Removing(p) =>
      /\ live[p] = word[p]
      /\ rows[p] = word[p] \/ (p \in BuiltIn /\ rows[p] = None)
=============================================================================
