--------------------------- MODULE MCKeyedRequests ---------------------------
(* Two keys of one name, which differ in scope and caps, and a person of    *)
(* that name.                                                              *)
EXTENDS KeyedRequests

MCNewKeys == {
  [name |-> "app", backends |-> {"local"}, caps |-> <<2, 0, 0, 5>>, days |-> 1],
  [name |-> "app", backends |-> {}, caps |-> <<0, 3, 5, 0>>, days |-> 0]}
MCKeyEdits == {[caps |-> <<0, 0, 5, 4>>, days |-> 0], [backends |-> {"cloud"}]}
MCCharges == {[cost |-> 0, tokens |-> 0], [cost |-> 2, tokens |-> 4]}
=============================================================================
