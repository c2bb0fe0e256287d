------------------------------ MODULE HashChain ------------------------------
(***************************************************************************)
(* How the rows of tamper_evident_audit_log are linked: every row names    *)
(* the digest of the row before it, the first one a digest of nothing.     *)
(***************************************************************************)
EXTENDS Naturals, Sequences

CONSTANT GENESIS   \* previous_hash of the first event

\* Mutant: the head read without ORDER BY ... DESC.
HeadHash_OldestRow(rows) == IF rows = << >> THEN GENESIS ELSE rows[1].event_hash

\* SELECT event_hash ... ORDER BY rowid DESC LIMIT 1, or the genesis value.
HeadHash(rows) == IF rows = << >> THEN GENESIS ELSE rows[Len(rows)].event_hash

\* The hash the i-th row must name as its predecessor.
ExpectedPrev(rows, i) == IF i = 1 THEN GENESIS ELSE rows[i - 1].event_hash
=============================================================================
