------------------------- MODULE MCEgressAllowlist -------------------------
(* Two hosts whose lines differ in length.                                 *)
EXTENDS EgressAllowlist, TLC

TwoHosts == 1..2
FirstHost == {1}
LastHost == {2}
LongFirst == [h \in 1..2 |-> IF h = 1 THEN 3 ELSE 2]

\* Threads are interchangeable.
Symmetry == Permutations(Threads)
=============================================================================
