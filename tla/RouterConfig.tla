---------------------------- MODULE RouterConfig ----------------------------
(***************************************************************************)
(* Where the router's own model runs: rows of router_config, and the key   *)
(* of its endpoint in the secret store.  update_config validates what the  *)
(* update would result in and then writes two transactions, on the event   *)
(* loop.                                                                   *)
(***************************************************************************)
EXTENDS Handlers

CONSTANTS
  Endpoints,      \* URLs
  ConfigUpdates,  \* request bodies; None stands for an absent field
  ModelInEnv      \* whether the environment names a router model

\* The empty text: what a field or key of blanks is stripped to.
Blank == ""

ASSUME ConfigAssumption ==
  /\ Blank \notin Endpoints /\ None \notin Endpoints \cup {Blank, "ollama", "hf"}
  /\ ConfigUpdates \subseteq [backend : {"ollama", "hf", None},
                              endpoint : Endpoints \cup {Blank, None},
                              key : {"key", Blank, None}]
  /\ ModelInEnv \in BOOLEAN

VARIABLES
  config,   \* router_config, with the defaults of absent rows
  keySet    \* whether the secret store holds a key for the endpoint

configVars == <<config, keySet>>

Or(given, stored) == IF given # None THEN given ELSE stored

\* What an update of the configuration leaves.
Resulting(u) == [backend |-> Or(u.backend, config.backend),
                 endpoint |-> Or(u.endpoint, config.endpoint)]

\* Mutant: only the fields of the request are validated.
Valid_RequestOnly(u) ==
  u.backend = "hf" => u.endpoint # Blank /\ (u.key = "key" \/ keySet)

\* hf needs an endpoint and a key.
Valid(u) ==
  Resulting(u).backend = "hf" =>
    Resulting(u).endpoint # Blank /\ (u.key = "key" \/ keySet)

ConfigInit ==
  /\ config = [backend |-> "ollama", endpoint |-> Blank]
  /\ keySet = FALSE

\* PUT /v1/router/config: a valid update stores the key, if it brings one.
PutKey(u) ==
  /\ Valid(u)
  /\ LoopBegins([op |-> "configure", config |-> Resulting(u)])
  /\ keySet' = (keySet \/ u.key = "key")
  /\ UNCHANGED config

\* ... and then the rows.
PutRows ==
  /\ ~LoopFree /\ loop.op = "configure"
  /\ config' = loop.config
  /\ LoopEnds
  /\ UNCHANGED keySet

\* The second transaction fails, after the first.
PutRowsFails ==
  /\ ~LoopFree /\ loop.op = "configure"
  /\ LoopEnds
  /\ UNCHANGED configVars

\* A restart keeps both tables.
ConfigRestart == UNCHANGED configVars

ConfigNext ==
  \/ \E u \in ConfigUpdates : PutKey(u)
  \/ PutRows
  \/ PutRowsFails

\* Where the intent classifier sends a prompt.
Target ==
  IF config.backend = "hf" /\ config.endpoint # Blank THEN config.endpoint
  ELSE IF ModelInEnv THEN "environment" ELSE "ollama"

-----------------------------------------------------------------------------
ConfigTypeOK ==
  /\ config \in [backend : {"ollama", "hf"}, endpoint : Endpoints \cup {Blank}]
  /\ keySet \in BOOLEAN

\* "So the router never points at a dead config": whatever sequence of updates
\* was accepted, and wherever one was cut off between its two transactions, the
\* choice hf has an endpoint, to which prompts then go, and a key.
NeverDead == config.backend = "hf" => keySet /\ Target \in Endpoints
=============================================================================
