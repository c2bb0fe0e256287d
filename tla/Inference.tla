----------------------------- MODULE Inference -----------------------------
(***************************************************************************)
(* What a router-decided inference promises its caller, whatever           *)
(* technique, failover and circuit breakers do: the set of backends a      *)
(* request may reach is fixed when it starts, its prompt goes to backends  *)
(* of that set only, and an answer comes from a backend that was asked.    *)
(***************************************************************************)
CONSTANTS Jobs, Backends, None

VARIABLES
  phase,    \* where each job is
  allowed,  \* the backends it may reach
  asked,    \* those its prompt was sent to
  result    \* the backend that answered

vars == <<phase, allowed, asked, result>>

Init ==
  /\ phase = [j \in Jobs |-> "idle"]
  /\ allowed = [j \in Jobs |-> {}]
  /\ asked = [j \in Jobs |-> {}]
  /\ result = [j \in Jobs |-> None]

\* A job starts with its first prompt, or ends at once without one.
Start(j) ==
  /\ phase[j] = "idle"
  /\ \E S \in SUBSET Backends :
       /\ allowed' = [allowed EXCEPT ![j] = S]
       /\ \/ /\ \E b \in S : asked' = [asked EXCEPT ![j] = {b}]
             /\ phase' = [phase EXCEPT ![j] = "running"]
          \/ /\ phase' = [phase EXCEPT ![j] = "done"]
             /\ UNCHANGED asked
  /\ UNCHANGED result

Ask(j) ==
  /\ phase[j] = "running"
  /\ \E b \in allowed[j] : asked' = [asked EXCEPT ![j] = @ \cup {b}]
  /\ UNCHANGED <<phase, allowed, result>>

Answer(j) ==
  /\ phase[j] = "running"
  /\ phase' = [phase EXCEPT ![j] = "done"]
  /\ \E b \in asked[j] : result' = [result EXCEPT ![j] = b]
  /\ UNCHANGED <<allowed, asked>>

\* Some jobs end without an answer; a restart ends all that are running.
GiveUp ==
  /\ \E J \in SUBSET {j \in Jobs : phase[j] = "running"} :
       phase' = [j \in Jobs |-> IF j \in J THEN "done" ELSE phase[j]]
  /\ UNCHANGED <<allowed, asked, result>>

Next == GiveUp \/ \E j \in Jobs : Start(j) \/ Ask(j) \/ Answer(j)

Spec == Init /\ [][Next]_vars
=============================================================================
