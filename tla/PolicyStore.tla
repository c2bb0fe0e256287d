----------------------------- MODULE PolicyStore -----------------------------
(***************************************************************************)
(* The table governance_policies: creating, editing and toggling policies, *)
(* and the decision governed_chat takes from the enabled ones.  Creating   *)
(* and editing run on the event loop, toggling in the thread pool; an edit *)
(* and a toggle read a column before they write.                           *)
(***************************************************************************)
EXTENDS Handlers, Sequences, FiniteSets, FiniteSetsExt, Folds

CONSTANTS
  Rules,        \* contents of new policies
  Edits,        \* the fields an edit may name, with their values
  Dims,         \* scope dimensions: key, backend, model
  Names,        \* their values
  MaxPolicies   \* bound

Effects == {"block", "warn", "audit"}
Actions == {"chat.completion", "tool.call", "*"}
Conditions == SUBSET {"data_tag", "calls_per_hour"}

Rule == [action : Actions, effect : Effects, conditions : Conditions,
         scope : [Dims -> SUBSET Names]]

ASSUME PolicyAssumption ==
  /\ Rules \subseteq Rule
  /\ \A e \in Edits : \E r \in Rule :
       DOMAIN e \subseteq DOMAIN r /\ \A f \in DOMAIN e : e[f] = r[f]
  /\ MaxPolicies \in Nat

VARIABLES
  policies,   \* the table, oldest first: [enabled, version, rule]
  trail       \* history of each policy: the rule its finished edits leave, how
              \* many they and the toggles are, and whether toggles overlapped

policyVars == <<policies, trail>>

-----------------------------------------------------------------------------
(* Evaluation.  A request is what the conditions and scopes look at.       *)

Request == [tagged : BOOLEAN, limitReached : BOOLEAN, names : [Dims -> Names \cup {None}]]

\* Empty lists do not restrict; an unknown value is in no list.
ScopeMatches(scope, req) ==
  \A d \in Dims : scope[d] # {} => req.names[d] \in scope[d]

Violation(conditions, req) ==
  \/ "data_tag" \in conditions /\ ~req.tagged
  \/ "calls_per_hour" \in conditions /\ req.limitReached

\* The policies that take part in a decision.
LoadEnabled(req) ==
  {i \in DOMAIN policies :
     /\ policies[i].enabled
     /\ policies[i].rule.action \in {"chat.completion", "*"}
     /\ ScopeMatches(policies[i].rule.scope, req)}

Decision(effect, policy) == [effect |-> effect, policy |-> policy]

\* Mutant: a warning ends the loop as a block does.
Weigh_FirstWins(req, i, d) ==
  LET r == policies[i].rule
  IN IF d.effect # "allow" \/ ~Violation(r.conditions, req) \/ r.effect = "audit" THEN d
     ELSE Decision(r.effect, i)

\* The loop of evaluate at policy i, decided d so far: a block ends it, the first
\* warning is kept.
Weigh(req, i, d) ==
  LET r == policies[i].rule
  IN IF d.effect = "block" \/ ~Violation(r.conditions, req) THEN d
     ELSE IF r.effect = "block" THEN Decision("block", i)
     ELSE IF r.effect = "warn" /\ d.effect = "allow" THEN Decision("warn", i)
     ELSE d

\* The loop over the policies, oldest first: the newest is weighed last.
Evaluate(req) ==
  MapThenFoldSet(LAMBDA i, d : Weigh(req, i, d), Decision("allow", 0),
                 LAMBDA i : i, LAMBDA S : Max(S), LoadEnabled(req))

-----------------------------------------------------------------------------
PolicyInit == policies = <<>> /\ trail = <<>>

\* POST /v1/policies
CreatePolicy(rule) ==
  /\ Len(policies) < MaxPolicies
  /\ LoopBegins(None)
  /\ policies' = Append(policies, [enabled |-> TRUE, version |-> 1, rule |-> rule])
  /\ trail' = Append(trail, [rule |-> rule, edits |-> 0, toggles |-> 0, raced |-> FALSE])

\* The named fields replace those of the row.
Edited(rule, fields) ==
  [f \in DOMAIN rule |-> IF f \in DOMAIN fields THEN fields[f] ELSE rule[f]]

\* history: what the owner meant.
Said(rule, fields) ==
  [f \in DOMAIN rule |-> IF f \in DOMAIN fields THEN fields[f] ELSE rule[f]]

\* PUT /v1/policies/{pid}: update_policy reads the version.
EditReads(i, fields) ==
  /\ LoopBegins([op |-> "edit", policy |-> i, fields |-> fields,
                 version |-> policies[i].version])
  /\ UNCHANGED policyVars

\* Mutant: an edit enables the policy again.
EditWrites_Enables ==
  /\ ~LoopFree /\ loop.op = "edit"
  /\ LET i == loop.policy IN
     /\ policies' = [policies EXCEPT ![i].rule = Edited(@, loop.fields),
                                     ![i].version = loop.version + 1,
                                     ![i].enabled = TRUE]
     /\ trail' = [trail EXCEPT ![i].rule = Said(@, loop.fields), ![i].edits = @ + 1]
  /\ LoopEnds

\* ... and writes it back, with the fields of the request.
EditWrites ==
  /\ ~LoopFree /\ loop.op = "edit"
  /\ LET i == loop.policy IN
     /\ policies' = [policies EXCEPT ![i].rule = Edited(@, loop.fields),
                                     ![i].version = loop.version + 1]
     /\ trail' = [trail EXCEPT ![i].rule = Said(@, loop.fields), ![i].edits = @ + 1]
  /\ LoopEnds

Toggling(i) == \E r \in Running("toggle") : r.policy = i

\* POST /v1/policies/{pid}/toggle: toggle_policy reads the flag.
ToggleReads(w, i) ==
  /\ WorkerBegins(w, [op |-> "toggle", policy |-> i, was |-> policies[i].enabled])
  /\ trail' = IF Toggling(i) THEN [trail EXCEPT ![i].raced = TRUE] ELSE trail
  /\ UNCHANGED policies

\* ... and writes its opposite into that one column.
ToggleWrites(w) ==
  /\ ~Idle(w) /\ pool[w].op = "toggle"
  /\ LET i == pool[w].policy IN
     /\ policies' = [policies EXCEPT ![i].enabled = ~pool[w].was]
     /\ trail' = [trail EXCEPT ![i].toggles = @ + 1]
  /\ WorkerEnds(w)

PolicyNext ==
  \/ \E rule \in Rules : CreatePolicy(rule)
  \/ \E i \in DOMAIN policies, fields \in Edits : EditReads(i, fields)
  \/ EditWrites
  \/ \E w \in Workers, i \in DOMAIN policies : ToggleReads(w, i)
  \/ \E w \in Workers : ToggleWrites(w)

-----------------------------------------------------------------------------
PolicyTypeOK ==
  /\ policies \in Seq([enabled : BOOLEAN, version : Nat, rule : Rule])
  /\ Len(trail) = Len(policies)

\* Every acknowledged edit is in the row and has its version, whatever toggles
\* ran beside it: version is the change trail of governance.
EditTrail ==
  \A i \in DOMAIN policies :
    /\ policies[i].rule = trail[i].rule
    /\ policies[i].version = 1 + trail[i].edits

\* A policy is switched as often as its button was pressed, unless two presses
\* overlapped: edits beside a press lose nothing.
TogglesCount ==
  \A i \in DOMAIN policies :
    ~trail[i].raced => (policies[i].enabled <=> trail[i].toggles % 2 = 0)

\* "Most-restrictive wins: block > warn > allow": the decision of the loop, and
\* the policy it names, are those of the strictest violated policy, the oldest
\* of its kind, for every request and whatever is enabled.
MostRestrictive ==
  \A req \in Request :
    LET Violated(effect) ==
          {i \in DOMAIN policies :
             /\ policies[i].enabled
             /\ policies[i].rule.effect = effect
             /\ policies[i].rule.action # "tool.call"
             /\ ScopeMatches(policies[i].rule.scope, req)
             /\ Violation(policies[i].rule.conditions, req)}
        Oldest(effect) == Decision(effect, Min(Violated(effect)))
    IN Evaluate(req) = IF Violated("block") # {} THEN Oldest("block")
                       ELSE IF Violated("warn") # {} THEN Oldest("warn")
                       ELSE Decision("allow", 0)

\* Owners' changes survive one another: edits beside toggles and edits, toggles
\* beside edits - a toggle is lost only to a toggle it overlapped.
ChangesKept == EditTrail /\ TogglesCount
=============================================================================
