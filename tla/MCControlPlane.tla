--------------------------- MODULE MCControlPlane ---------------------------
(* Three rules whose order and strictness differ, a built-in and a         *)
(* registered backend, and every kind of router update.                    *)
EXTENDS ControlPlane, TLC

OneDim == {"backend"}
All == [d \in OneDim |-> {}]
Only(n) == [d \in OneDim |-> {n}]

MCRules == {
  [action |-> "chat.completion", effect |-> "warn", conditions |-> {"data_tag"}, scope |-> All],
  [action |-> "*", effect |-> "audit", conditions |-> {"calls_per_hour"}, scope |-> All],
  [action |-> "*", effect |-> "block", conditions |-> {"data_tag", "calls_per_hour"},
   scope |-> Only("custom")]}
MCEdits == {[effect |-> "block"], [conditions |-> {}], [action |-> "tool.call", scope |-> All]}

MCProviders == {"ollama", "custom"}
CustomOnly == {"custom"}
MCEnvironment == [p \in {"ollama"} |-> [key |-> None, inBoundary |-> TRUE]]
MCRegistrations == {[key |-> "k1", inBoundary |-> TRUE], [key |-> None, inBoundary |-> FALSE]}
MCChanges == {[key |-> "k2", inBoundary |-> None], [key |-> None, inBoundary |-> FALSE]}

MCUpdates == {
  [backend |-> "hf", endpoint |-> "url", key |-> "key"],
  [backend |-> None, endpoint |-> "url", key |-> Blank],
  [backend |-> "hf", endpoint |-> None, key |-> None],
  [backend |-> None, endpoint |-> Blank, key |-> None],
  [backend |-> "ollama", endpoint |-> None, key |-> None]}

Symmetry == Permutations(Workers) \cup Permutations(Clients)
=============================================================================
