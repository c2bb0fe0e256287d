------------------------------ MODULE Handlers ------------------------------
(***************************************************************************)
(* How requests to the management API run in one process.  An async        *)
(* handler keeps the event loop from the moment it has read its body until *)
(* it returns, so two of them never interleave; a plain handler runs on a  *)
(* worker of the thread pool, beside the loop and beside other workers.    *)
(* Every SQLite connection commits by itself, so a handler that opens      *)
(* several is several steps.                                               *)
(***************************************************************************)
EXTENDS Naturals

CONSTANTS
  Workers,    \* thread-pool workers
  None,
  MaxCalls    \* bound: requests in one behaviour

ASSUME HandlersAssumption == None \notin Workers /\ MaxCalls \in Nat

VARIABLES
  loop,       \* the rest of the handler that has the event loop, or None
  pool,       \* the rest of the handler each worker runs, or None
  calls       \* requests so far

handlerVars == <<loop, pool, calls>>

HandlersInit ==
  /\ loop = None
  /\ pool = [w \in Workers |-> None]
  /\ calls = 0

Arrive == calls < MaxCalls /\ calls' = calls + 1

LoopFree == loop = None
Idle(w) == pool[w] = None
Quiet == LoopFree /\ \A w \in Workers : Idle(w)

\* A handler of the event loop begins with `rest` to do, or ends.
LoopBegins(rest) == LoopFree /\ Arrive /\ loop' = rest /\ UNCHANGED pool
LoopEnds == loop' = None /\ UNCHANGED <<pool, calls>>

\* A worker takes a request, or ends it.
WorkerBegins(w, rest) ==
  Idle(w) /\ Arrive /\ pool' = [pool EXCEPT ![w] = rest] /\ UNCHANGED loop
WorkerEnds(w) == pool' = [pool EXCEPT ![w] = None] /\ UNCHANGED <<loop, calls>>

\* What is under way on the loop or a worker with operation `op`.
Running(op) ==
  {r \in {loop} \cup {pool[w] : w \in Workers} : r # None /\ r.op = op}

\* The process dies and starts again.
HandlersRestart ==
  /\ loop' = None
  /\ pool' = [w \in Workers |-> None]
  /\ UNCHANGED calls
=============================================================================
