--------------------------- MODULE MCGovernedChat ---------------------------
(* Request mixes for the runs of GovernedChat.                             *)
EXTENDS GovernedChat, TLC

CONSTANTS inner, outer, alice, red, blue, bot, ask

Symmetry == Permutations(Requests)

\* A plain request; the kinds below differ from it in a few fields.
Plain == [key |-> None, team |-> red, agent |-> None, backend |-> AutoModel, prompt |-> ask,
          sensitive |-> FALSE, injection |-> FALSE, deterministic |-> FALSE]

InnerOnly == [t \in Teams |-> IF t = blue THEN {inner} ELSE Backends]
OuterCostsTwo == [b \in Backends |-> IF b = outer THEN 2 ELSE 1]

\* Sensitive prompts, routed and for a named outside backend, and a backend that
\* is outside the team's scope.
RoutedKinds ==
  {[Plain EXCEPT !.sensitive = TRUE],
   [Plain EXCEPT !.backend = outer, !.sensitive = TRUE],
   [Plain EXCEPT !.backend = outer, !.team = blue]}

\* One prompt asked by a key, by an agent and by another team, in every way the
\* cache may see it.
GateKinds ==
  {[Plain EXCEPT !.key = alice, !.deterministic = TRUE],
   [Plain EXCEPT !.agent = bot, !.deterministic = TRUE, !.injection = TRUE],
   [Plain EXCEPT !.deterministic = TRUE, !.sensitive = TRUE],
   [Plain EXCEPT !.team = blue, !.deterministic = TRUE]}
=============================================================================
