---------------------------- MODULE LearningLoop -----------------------------
(***************************************************************************)
(* The learning loop's table: one trace per routed answer, and the rating  *)
(* its user may give, change and take back.  Rewards are in tenths.        *)
(***************************************************************************)
EXTENDS RouteChoice

CONSTANT Ids   \* traces, named by their request

Reward(rating, fell) ==
  LET base == CASE rating > 0 -> 10 [] rating < 0 -> -10 [] rating = 0 -> 1
  IN Max({-10, base - (IF fell THEN 5 ELSE 0)})

RouteTrace == [difficulty : {"easy", "hard"}, backend : Backends, fell : BOOLEAN,
               rating : -1..1, reward : -10..10]

TraceTable(table) ==
  /\ DOMAIN table \subseteq Ids /\ IsFiniteSet(DOMAIN table)
  /\ \A id \in DOMAIN table : table[id] \in RouteTrace

\* Each has the reward that goes with its rating.
Rewarded(table) ==
  \A id \in DOMAIN table : table[id].reward = Reward(table[id].rating, table[id].fell)

NewTrace(difficulty, backend, fell) ==
  [difficulty |-> difficulty, backend |-> backend, fell |-> fell, rating |-> 0,
   reward |-> Reward(0, fell)]

Recorded(id, trace) ==
  [i \in DOMAIN routeTraces \cup {id} |-> IF i = id THEN trace ELSE routeTraces[i]]

\* Mutant: ratings add up.
ApplyFeedback_Adds(id, rating) ==
  /\ id \in DOMAIN routeTraces
  /\ routeTraces' = [routeTraces EXCEPT ![id].rating = rating,
                       ![id].reward = Max({-10, Min({10, @ + 10 * rating})})]

\* apply_feedback: a known trace gets the rating and the reward that goes with it.
ApplyFeedback(id, rating) ==
  /\ id \in DOMAIN routeTraces
  /\ routeTraces' = [routeTraces EXCEPT ![id].rating = rating,
                       ![id].reward = Reward(rating, routeTraces[id].fell)]

LearningTypeOK == TraceTable(routeTraces)
=============================================================================
