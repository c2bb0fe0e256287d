----------------------------- MODULE AuditTamper -----------------------------
(***************************************************************************)
(* What verify_rows detects.  A chain of Length events is written by       *)
(* AuditChain.append; afterwards the table is edited behind the program's  *)
(* back, one row operation at a time and without limit, by somebody who    *)
(* copies values found in the table but computes no new digest.            *)
(*                                                                         *)
(* A digest is represented by the text it covers, so equal digests mean    *)
(* equal texts.  event_id stands for the identifying fields (event_id,     *)
(* timestamp) and body for the others (actor, action, outcome, metadata).  *)
(* The text joins the fields with "|", which a field may contain: two      *)
(* bodies that divide one text differently have the same digest.           *)
(***************************************************************************)
EXTENDS HashChain, SequencesExt

CONSTANTS
  Length,    \* events the program wrote
  Body,      \* the payload the program wrote
  Shifted,   \* a payload whose fields join to the same text as Body's
  Forged     \* payloads with another text

ASSUME TamperAssumption == Length \in Nat \ {0} /\ {Body, Shifted} \cap Forged = {}

VARIABLE table   \* the table as it is now

\* "|".join of the body's fields.
Text(body) == IF body = Shifted THEN Body ELSE body

\* Mutant: the digest does not cover the link to the previous event.
Digest_NoLink(row) == <<row.event_id, Text(row.body)>>

\* _hash(row): the digest of the row's fields and of previous_hash.
Digest(row) == <<row.event_id, Text(row.body), row.previous_hash>>

\* The row that append adds to a chain.
NewRow(chain) ==
  LET row == [event_id |-> Len(chain) + 1, body |-> Body,
              previous_hash |-> HeadHash(chain), event_hash |-> << >>]
  IN [row EXCEPT !.event_hash = Digest(row)]

\* verify_rows: walk the rows in order, checking linkage and recomputed hash.
Verifies(rows) ==
  \A i \in 1..Len(rows) :
    /\ rows[i].previous_hash = ExpectedPrev(rows, i)
    /\ Digest(rows[i]) = rows[i].event_hash

\* The chain of the first n events.
Written[n \in 0..Length] ==
  IF n = 0 THEN << >> ELSE Append(Written[n - 1], NewRow(Written[n - 1]))

Original == Written[Length]

\* The genesis value, 64 zeros, is not the digest of an event.
ASSUME GenesisAssumption == \A i \in 1..Length : Original[i].event_hash # GENESIS

TamperInit == table = Original

KnownHashes == {Original[i].event_hash : i \in 1..Length} \cup {GENESIS}

\* UPDATE of one field of one row, to another value.
Alter(i) ==
  \/ \E b \in (Forged \cup {Body, Shifted}) \ {table[i].body} :
       table' = [table EXCEPT ![i].body = b]
  \/ \E h \in KnownHashes \ {table[i].previous_hash} :
       table' = [table EXCEPT ![i].previous_hash = h]
  \/ \E h \in KnownHashes \ {GENESIS, table[i].event_hash} :
       table' = [table EXCEPT ![i].event_hash = h]

\* DELETE of one row.
DropRow(i) == table' = RemoveAt(table, i)

\* A written row is put (back) into the table at any place.
Replay(i, j) ==
  /\ Len(table) < Length
  /\ table' = InsertAt(table, i, Original[j])

TamperNext ==
  \/ \E i \in 1..Len(table) : Alter(i) \/ DropRow(i)
  \/ \E i \in 1..(Len(table) + 1), j \in 1..Length : Replay(i, j)

TamperSpec == TamperInit /\ [][TamperNext]_table

-----------------------------------------------------------------------------
\* A row as the digest sees it.
Covered(row) == [row EXCEPT !.body = Text(@)]

\* verify_rows accepts a table exactly when its rows read like a prefix of what
\* was written: every edit of a row's text, reordering, duplication or interior
\* deletion is caught; deleting the newest rows, or moving the boundary between
\* two fields inside one text, is not.
DetectsAllButTruncation ==
  Verifies(table) <=>
    /\ Len(table) <= Length
    /\ \A i \in 1..Len(table) : Covered(table[i]) = Original[i]
=============================================================================
