---------------------------- MODULE ControlPlane ----------------------------
(***************************************************************************)
(* The management API of one process: policies, backends and the router's  *)
(* configuration share the event loop, the thread pool and the restarts.   *)
(***************************************************************************)
EXTENDS PolicyStore, BackendRegistry, RouterConfig

vars == <<handlerVars, policyVars, registryVars, configVars>>

Init == HandlersInit /\ PolicyInit /\ RegistryInit /\ ConfigInit

\* The process dies at any moment; every table keeps what was committed.
Restart ==
  /\ HandlersRestart
  /\ RegistryRestart
  /\ ConfigRestart
  /\ UNCHANGED policyVars

Next ==
  \/ PolicyNext /\ UNCHANGED <<registryVars, configVars>>
  \/ RegistryNext /\ UNCHANGED <<policyVars, configVars>>
  \/ ConfigNext /\ UNCHANGED <<policyVars, registryVars>>
  \/ Restart

Spec == Init /\ [][Next]_vars

TypeOK ==
  /\ PolicyTypeOK
  /\ RegistryTypeOK
  /\ ConfigTypeOK
  /\ calls \in 0..MaxCalls

\* The stores keep their types, and once nothing is being written the registry
\* and its table hold what the owner last said of each backend, however uploads,
\* corrections and removals overlapped, unless two overlapping requests replaced
\* or removed one backend.
RegistrySound == TypeOK /\ LastWordHolds
=============================================================================
