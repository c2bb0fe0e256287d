---------------------------- MODULE MCAuditChain ----------------------------
(* Model-checking instances of AuditChain.                                 *)
EXTENDS AuditChain, TLC

\* Threads and drawn ids are interchangeable in the safety runs.
Symmetry == Permutations(Threads) \cup Permutations(Ids)
=============================================================================
