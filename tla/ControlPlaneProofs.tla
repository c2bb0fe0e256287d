------------------------- MODULE ControlPlaneProofs --------------------------
(***************************************************************************)
(* What the management API keeps for any number of workers, owners,        *)
(* policies, backends and updates.                                         *)
(***************************************************************************)
EXTENDS ControlPlane, Sums

-----------------------------------------------------------------------------
(* The router's configuration.                                             *)

Configs == [backend : {"ollama", "hf"}, endpoint : Endpoints \cup {Blank}]
Sound(c, hasKey) == c.backend = "hf" => hasKey /\ c.endpoint \in Endpoints

\* The stored configuration is sound, and so is the one a handler that has
\* already stored the key is about to store.
ConfigInv ==
  /\ ConfigTypeOK
  /\ Sound(config, keySet)
  /\ loop # None /\ loop.op = "configure" => loop.config \in Configs /\ Sound(loop.config, keySet)

\* A request that does not configure the router leaves ConfigInv alone.
LEMMA ConfigKept ==
  ASSUME ConfigInv, UNCHANGED configVars,
         loop' = loop \/ loop' = None \/ loop'.op # "configure"
  PROVE  ConfigInv'
BY DEF ConfigInv, ConfigTypeOK, Sound, Configs, configVars

\* What a valid update results in is sound once its key is stored.
LEMMA UpdateSound ==
  ASSUME ConfigInv, NEW u \in ConfigUpdates, Valid(u), keySet' = (keySet \/ u.key = "key")
  PROVE  Resulting(u) \in Configs /\ Sound(Resulting(u), keySet')
<1>1. u \in [backend : {"ollama", "hf", None}, endpoint : Endpoints \cup {Blank, None},
             key : {"key", Blank, None}]
  BY ConfigAssumption
<1>2. Resulting(u) \in Configs
  BY <1>1 DEF ConfigInv, ConfigTypeOK, Resulting, Or, Configs
<1> QED
  BY <1>1, <1>2 DEF Resulting, Valid, Sound, Configs

LEMMA ConfigStep == ConfigInv /\ [Next]_vars => ConfigInv'
<1> SUFFICES ASSUME ConfigInv, [Next]_vars PROVE ConfigInv'
  OBVIOUS
<1>1. CASE UNCHANGED vars
  BY <1>1, ConfigKept DEF vars, configVars, handlerVars
<1>2. CASE PolicyNext /\ UNCHANGED configVars
  <2>1. loop' = loop \/ loop' = None \/ loop'.op # "configure"
    <3>1. ASSUME NEW rule \in Rules, CreatePolicy(rule) PROVE loop' = None
      BY <3>1 DEF CreatePolicy, LoopBegins
    <3>2. ASSUME NEW i \in DOMAIN policies, NEW fields \in Edits, EditReads(i, fields)
          PROVE  loop'.op = "edit"
      BY <3>2 DEF EditReads, LoopBegins
    <3>3. ASSUME EditWrites PROVE loop' = None
      BY <3>3 DEF EditWrites, LoopEnds
    <3>4. ASSUME NEW w \in Workers, NEW i \in DOMAIN policies, ToggleReads(w, i)
          PROVE  loop' = loop
      BY <3>4 DEF ToggleReads, WorkerBegins
    <3>5. ASSUME NEW w \in Workers, ToggleWrites(w) PROVE loop' = loop
      BY <3>5 DEF ToggleWrites, WorkerEnds
    <3> QED BY <1>2, <3>1, <3>2, <3>3, <3>4, <3>5 DEF PolicyNext
  <2> QED BY <1>2, <2>1, ConfigKept
<1>3. CASE RegistryNext /\ UNCHANGED configVars
  <2>1. loop' = loop \/ loop' = None \/ loop'.op # "configure"
    <3>1. ASSUME NEW p \in Providers, NEW b \in Registrations, RegisterBackend(p, b)
          PROVE  loop'.op = "save"
      BY <3>1 DEF RegisterBackend, LoopBegins
    <3>2. ASSUME NEW c \in Clients, NEW change \in Changes, UpdateBackend(c, change)
          PROVE  loop'.op = "save"
      BY <3>2 DEF UpdateBackend
    <3>3. ASSUME NEW p \in Providers, NEW inside \in BOOLEAN, SetBoundary(p, inside)
          PROVE  loop'.op = "mark"
      BY <3>3 DEF SetBoundary, LoopBegins
    <3>4. SaveBackend \/ SaveFails \/ MarkLive => loop' = None
      BY DEF SaveBackend, SaveFails, MarkLive, LoopEnds
    <3>5. ASSUME NEW c \in Clients, NEW p \in Providers, UpdateReads(c, p) PROVE loop' = loop
      BY <3>5 DEF UpdateReads
    <3>6. ASSUME NEW w \in Workers, NEW p \in Providers, RemoveLive(w, p) PROVE loop' = loop
      BY <3>6 DEF RemoveLive, WorkerBegins
    <3>7. ASSUME NEW w \in Workers, DeleteRow(w) PROVE loop' = loop
      BY <3>7 DEF DeleteRow, WorkerEnds
    <3> QED BY <1>3, <3>1, <3>2, <3>3, <3>4, <3>5, <3>6, <3>7 DEF RegistryNext
  <2> QED BY <1>3, <2>1, ConfigKept
<1>4. CASE ConfigNext
  <2>1. ASSUME NEW u \in ConfigUpdates, PutKey(u) PROVE ConfigInv'
    <3>1. /\ Valid(u) /\ keySet' = (keySet \/ u.key = "key") /\ config' = config
          /\ loop' = [op |-> "configure", config |-> Resulting(u)]
      BY <2>1 DEF PutKey, LoopBegins
    <3>2. loop'.config \in Configs /\ Sound(loop'.config, keySet')
      BY <3>1, UpdateSound
    <3> QED BY <3>1, <3>2 DEF ConfigInv, ConfigTypeOK, Sound
  <2>2. CASE PutRows
    BY <2>2 DEF PutRows, LoopEnds, ConfigInv, ConfigTypeOK, Configs, LoopFree
  <2>3. CASE PutRowsFails
    BY <2>3, ConfigKept DEF PutRowsFails, LoopEnds
  <2> QED BY <1>4, <2>1, <2>2, <2>3 DEF ConfigNext
<1>5. CASE Restart
  BY <1>5, ConfigKept DEF Restart, HandlersRestart, ConfigRestart
<1> QED BY <1>1, <1>2, <1>3, <1>4, <1>5 DEF Next

LEMMA ConfigInvariant == Spec => []ConfigInv
<1>1. Init => ConfigInv
  <2> SUFFICES ASSUME Init PROVE ConfigInv
    OBVIOUS
  <2>1. config = [backend |-> "ollama", endpoint |-> Blank] /\ keySet = FALSE /\ loop = None
    BY DEF Init, HandlersInit, ConfigInit
  <2> QED BY <2>1 DEF ConfigInv, ConfigTypeOK, Sound
<1> QED BY <1>1, ConfigStep, PTL DEF Spec

\* NeverDead for every sequence of updates, failures and restarts.
THEOREM RouterNeverDead == Spec => []NeverDead
<1>1. ConfigInv => NeverDead
  BY ConfigAssumption DEF ConfigInv, Sound, NeverDead, Target
<1> QED BY <1>1, ConfigInvariant, PTL

-----------------------------------------------------------------------------
(* Policies.                                                               *)

Policy == [enabled : BOOLEAN, version : Nat, rule : Rule]
History == [rule : Rule, edits : Nat, toggles : Nat, raced : BOOLEAN]

\* The version an edit has read is still the row's when it writes, because only
\* the loop writes it.
Editing(r) ==
  /\ r.policy \in DOMAIN policies /\ r.fields \in Edits
  /\ r.version = policies[r.policy].version

\* While no toggles of a policy have overlapped, a worker that toggles it is the
\* only one and has read the flag as it is.
Toggles(w, i) == pool[w] # None /\ pool[w].op = "toggle" /\ pool[w].policy = i
TogglingSound(w) ==
  pool[w] # None /\ pool[w].op = "toggle" =>
    LET i == pool[w].policy IN
    /\ i \in DOMAIN policies
    /\ pool[w].was \in BOOLEAN
    /\ ~trail[i].raced => /\ pool[w].was = policies[i].enabled
                          /\ \A v \in Workers : Toggles(v, i) => v = w

PolicyInv ==
  /\ policies \in Seq(Policy) /\ trail \in Seq(History)
  /\ Len(trail) = Len(policies)
  /\ EditTrail
  /\ TogglesCount
  /\ loop # None /\ loop.op = "edit" => Editing(loop)
  /\ DOMAIN pool = Workers
  /\ \A w \in Workers : TogglingSound(w)

\* An edit makes a rule of a rule.
LEMMA EditedRule ==
  ASSUME NEW rule \in Rule, NEW e \in Edits
  PROVE  Edited(rule, e) \in Rule /\ Edited(rule, e) = Said(rule, e)
<1>1. PICK r \in Rule : DOMAIN e \subseteq DOMAIN r /\ \A f \in DOMAIN e : e[f] = r[f]
  BY PolicyAssumption
<1>2. /\ DOMAIN rule = {"action", "effect", "conditions", "scope"}
      /\ rule["action"] \in Actions /\ rule["effect"] \in Effects
      /\ rule["conditions"] \in Conditions /\ rule["scope"] \in [Dims -> SUBSET Names]
  BY DEF Rule
<1>3. /\ r["action"] \in Actions /\ r["effect"] \in Effects
      /\ r["conditions"] \in Conditions /\ r["scope"] \in [Dims -> SUBSET Names]
  BY DEF Rule
<1> DEFINE val(f) == IF f \in DOMAIN e THEN e[f] ELSE rule[f]
<1>4. Edited(rule, e) = [f \in {"action", "effect", "conditions", "scope"} |-> val(f)]
  BY <1>2 DEF Edited
<1>5. /\ val("action") \in Actions /\ val("effect") \in Effects
      /\ val("conditions") \in Conditions /\ val("scope") \in [Dims -> SUBSET Names]
  BY <1>1, <1>2, <1>3
<1>6. Edited(rule, e) = [action |-> val("action"), effect |-> val("effect"),
                         conditions |-> val("conditions"), scope |-> val("scope")]
  BY <1>4
<1> QED BY <1>5, <1>6 DEF Rule, Edited, Said

\* What leaves the tables, edits and toggles alone leaves PolicyInv alone.
LEMMA PolicyKept ==
  ASSUME PolicyInv, UNCHANGED policyVars, DOMAIN pool' = Workers,
         loop' = loop \/ loop' = None \/ loop'.op # "edit",
         \A w \in Workers : pool'[w] = pool[w] \/ pool'[w] = None \/ pool'[w].op # "toggle"
  PROVE  PolicyInv'
<1>1. policies' = policies /\ trail' = trail
  BY DEF policyVars
<1>2. ASSUME NEW w \in Workers PROVE TogglingSound(w)'
  BY <1>1 DEF PolicyInv, TogglingSound, Toggles
<1> QED BY <1>1, <1>2 DEF PolicyInv, EditTrail, TogglesCount, Editing

LEMMA PolicyStep == PolicyInv /\ [Next]_vars => PolicyInv'
<1> SUFFICES ASSUME PolicyInv, [Next]_vars PROVE PolicyInv'
  OBVIOUS
<1> DEFINE N == Len(policies)
<1>0. /\ N \in Nat /\ DOMAIN policies = 1..N /\ DOMAIN trail = 1..N
      /\ \A i \in 1..N : policies[i] \in Policy /\ trail[i] \in History
  BY DEF PolicyInv
<1>1. ASSUME NEW rule \in Rules, CreatePolicy(rule) PROVE PolicyInv'
  <2> DEFINE new == [enabled |-> TRUE, version |-> 1, rule |-> rule]
             past == [rule |-> rule, edits |-> 0, toggles |-> 0, raced |-> FALSE]
  <2>1. /\ policies' = Append(policies, new) /\ trail' = Append(trail, past)
        /\ loop' = None /\ pool' = pool
    BY <1>1 DEF CreatePolicy, LoopBegins
  <2>2. new \in Policy /\ past \in History
    BY PolicyAssumption DEF Policy, History
  <2>3. /\ policies' \in Seq(Policy) /\ trail' \in Seq(History)
        /\ Len(policies') = N + 1 /\ Len(trail') = N + 1
        /\ DOMAIN policies' = 1..(N + 1) /\ DOMAIN trail' = 1..(N + 1)
        /\ \A i \in 1..N : policies'[i] = policies[i] /\ trail'[i] = trail[i]
        /\ policies'[N + 1] = new /\ trail'[N + 1] = past
    BY <2>1, <2>2, <1>0 DEF PolicyInv
  <2>4. EditTrail'
    BY <2>3, <1>0 DEF PolicyInv, EditTrail
  <2>5. TogglesCount'
    BY <2>3, <1>0 DEF PolicyInv, TogglesCount
  <2> HIDE DEF new, past
  <2>6. ASSUME NEW w \in Workers PROVE TogglingSound(w)'
    <3> SUFFICES ASSUME pool[w] # None, pool[w].op = "toggle"
                 PROVE  TogglingSound(w)'
      BY <2>1 DEF TogglingSound
    <3>1. pool[w].policy \in 1..N
      BY <1>0 DEF PolicyInv, TogglingSound
    <3>2. /\ pool[w].policy \in 1..(N + 1)
          /\ policies'[pool[w].policy] = policies[pool[w].policy]
          /\ trail'[pool[w].policy] = trail[pool[w].policy]
      BY <2>3, <3>1, <1>0
    <3> QED BY <2>1, <2>3, <3>2 DEF PolicyInv, TogglingSound, Toggles
  <2> QED BY <2>1, <2>3, <2>4, <2>5, <2>6 DEF PolicyInv
<1>2. ASSUME NEW i \in DOMAIN policies, NEW fields \in Edits, EditReads(i, fields)
      PROVE  PolicyInv'
  <2>1. /\ policies' = policies /\ trail' = trail /\ pool' = pool
        /\ loop' = [op |-> "edit", policy |-> i, fields |-> fields,
                    version |-> policies[i].version]
    BY <1>2 DEF EditReads, LoopBegins, policyVars
  <2>2. Editing(loop)'
    BY <2>1 DEF Editing
  <2>3. ASSUME NEW w \in Workers PROVE TogglingSound(w)'
    BY <2>1 DEF PolicyInv, TogglingSound, Toggles
  <2> QED BY <2>1, <2>2, <2>3 DEF PolicyInv, EditTrail, TogglesCount
<1>3. CASE EditWrites
  <2> DEFINE i == loop.policy
             e == loop.fields
  <2>1. /\ loop # None /\ loop.op = "edit" /\ loop' = None /\ pool' = pool
        /\ policies' = [policies EXCEPT ![i].rule = Edited(@, e),
                                        ![i].version = loop.version + 1]
        /\ trail' = [trail EXCEPT ![i].rule = Said(@, e), ![i].edits = @ + 1]
    BY <1>3 DEF EditWrites, LoopEnds, LoopFree
  <2>2. i \in 1..N /\ e \in Edits /\ loop.version = policies[i].version
    BY <2>1, <1>0 DEF PolicyInv, Editing
  <2>3. policies[i] \in Policy /\ trail[i] \in History /\ policies[i].rule = trail[i].rule
    BY <2>2, <1>0 DEF PolicyInv, EditTrail
  <2>4. /\ Edited(policies[i].rule, e) \in Rule
        /\ Said(trail[i].rule, e) = Edited(policies[i].rule, e)
    BY <2>2, <2>3, EditedRule DEF Policy
  <2> DEFINE rule == Edited(policies[i].rule, e)
             row == [enabled |-> policies[i].enabled, version |-> policies[i].version + 1,
                     rule |-> rule]
             past == [rule |-> rule, edits |-> trail[i].edits + 1,
                      toggles |-> trail[i].toggles, raced |-> trail[i].raced]
  <2> HIDE DEF rule
  <2>5. row \in Policy /\ past \in History
    BY <2>3, <2>4 DEF Policy, History, rule
  <2>6. policies' = [policies EXCEPT ![i] = row] /\ trail' = [trail EXCEPT ![i] = past]
    BY <2>1, <2>2, <2>3, <2>4, <1>0 DEF Policy, History, rule
  <2> HIDE DEF row, past
  <2>7. /\ policies' \in Seq(Policy) /\ trail' \in Seq(History)
        /\ Len(policies') = N /\ Len(trail') = N
        /\ DOMAIN policies' = 1..N /\ DOMAIN trail' = 1..N
        /\ \A j \in 1..N \ {i} : policies'[j] = policies[j] /\ trail'[j] = trail[j]
        /\ policies'[i] = row /\ trail'[i] = past
    BY <2>2, <2>5, <2>6, <1>0 DEF PolicyInv
  <2>8. /\ row.enabled = policies[i].enabled /\ row.rule = past.rule
        /\ past.toggles = trail[i].toggles /\ past.raced = trail[i].raced
        /\ row.version = policies[i].version + 1 /\ past.edits = trail[i].edits + 1
    BY DEF row, past
  <2>9. EditTrail'
    <3>1. policies[i].version = 1 + trail[i].edits /\ trail[i].edits \in Nat
      BY <2>2, <1>0 DEF PolicyInv, EditTrail, History
    <3> QED BY <2>7, <2>8, <3>1, <1>0 DEF PolicyInv, EditTrail
  <2>10. TogglesCount'
    BY <2>2, <2>7, <2>8, <1>0 DEF PolicyInv, TogglesCount
  <2>11. ASSUME NEW w \in Workers PROVE TogglingSound(w)'
    BY <2>1, <2>2, <2>7, <2>8, <1>0 DEF PolicyInv, TogglingSound, Toggles
  <2> QED BY <2>1, <2>7, <2>9, <2>10, <2>11 DEF PolicyInv
<1>4. ASSUME NEW w \in Workers, NEW i \in DOMAIN policies, ToggleReads(w, i) PROVE PolicyInv'
  <2>1. /\ pool[w] = None /\ loop' = loop /\ policies' = policies
        /\ pool' = [pool EXCEPT ![w] = [op |-> "toggle", policy |-> i,
                                        was |-> policies[i].enabled]]
        /\ trail' = IF Toggling(i) THEN [trail EXCEPT ![i].raced = TRUE] ELSE trail
    BY <1>4 DEF ToggleReads, WorkerBegins, Idle
  <2>2. i \in 1..N /\ trail[i] \in History /\ policies[i] \in Policy
    BY <1>0
  <2>3. ~Toggling(i) => \A v \in Workers : ~Toggles(v, i)
    BY DEF Toggling, Running, Toggles
  <2> DEFINE past == [trail[i] EXCEPT !.raced = TRUE]
  <2>4. past \in History
    BY <2>2 DEF History
  <2>5. trail' = IF Toggling(i) THEN [trail EXCEPT ![i] = past] ELSE trail
    <3>1. [trail EXCEPT ![i].raced = TRUE] = [trail EXCEPT ![i] = past]
      BY <2>2, <1>0
    <3> QED BY <2>1, <3>1
  <2>6. past.rule = trail[i].rule /\ past.edits = trail[i].edits /\ past.raced
    BY <2>2 DEF History
  <2> HIDE DEF past
  <2>7. /\ trail' \in Seq(History) /\ Len(trail') = N /\ DOMAIN trail' = 1..N
        /\ \A j \in 1..N : /\ trail'[j].rule = trail[j].rule
                           /\ trail'[j].edits = trail[j].edits
                           /\ ~trail'[j].raced => trail'[j] = trail[j]
        /\ ~trail'[i].raced => ~Toggling(i)
    BY <2>2, <2>4, <2>5, <2>6, <1>0 DEF PolicyInv
  <2>8. EditTrail'
    BY <2>1, <2>7, <1>0 DEF PolicyInv, EditTrail
  <2>9. TogglesCount'
    BY <2>1, <2>7, <1>0 DEF PolicyInv, TogglesCount
  <2>10. ASSUME NEW v \in Workers PROVE TogglingSound(v)'
    <3>1. CASE v = w
      <4>1. /\ pool'[v].policy = i /\ pool'[v].was = policies[i].enabled
            /\ \A u \in Workers \ {w} : pool'[u] = pool[u]
        BY <2>1, <3>1 DEF PolicyInv
      <4>2. policies[i].enabled \in BOOLEAN
        BY <2>2 DEF Policy
      <4> QED BY <2>1, <2>2, <2>3, <2>7, <3>1, <4>1, <4>2, <1>0 DEF TogglingSound, Toggles
    <3>2. CASE v # w
      <4>1. pool'[v] = pool[v] /\ pool'[w].policy = i
            /\ \A u \in Workers \ {w} : pool'[u] = pool[u]
        BY <2>1, <3>2 DEF PolicyInv
      <4> SUFFICES ASSUME pool[v] # None, pool[v].op = "toggle" PROVE TogglingSound(v)'
        BY <4>1 DEF TogglingSound
      <4> DEFINE k == pool[v].policy
      <4>2. k \in 1..N /\ pool[v].was \in BOOLEAN
        BY <1>0 DEF PolicyInv, TogglingSound
      <4>3. CASE k = i
        BY <2>1, <2>3, <2>7, <4>1, <4>2, <4>3, <1>0 DEF TogglingSound, Toggles
      <4>4. CASE k # i
        BY <2>1, <2>7, <4>1, <4>2, <4>4, <1>0 DEF PolicyInv, TogglingSound, Toggles
      <4> QED BY <4>3, <4>4
    <3> QED BY <3>1, <3>2
  <2> QED BY <2>1, <2>7, <2>8, <2>9, <2>10 DEF PolicyInv, Editing
<1>5. ASSUME NEW w \in Workers, ToggleWrites(w) PROVE PolicyInv'
  <2> DEFINE i == pool[w].policy
  <2>1. /\ pool[w] # None /\ pool[w].op = "toggle" /\ loop' = loop
        /\ pool' = [pool EXCEPT ![w] = None]
        /\ policies' = [policies EXCEPT ![i].enabled = ~pool[w].was]
        /\ trail' = [trail EXCEPT ![i].toggles = @ + 1]
    BY <1>5 DEF ToggleWrites, WorkerEnds, Idle
  <2>2. /\ i \in 1..N /\ pool[w].was \in BOOLEAN
        /\ ~trail[i].raced => /\ pool[w].was = policies[i].enabled
                              /\ \A v \in Workers : Toggles(v, i) => v = w
    BY <2>1, <1>0 DEF PolicyInv, TogglingSound
  <2>3. policies[i] \in Policy /\ trail[i] \in History
    BY <2>2, <1>0
  <2> DEFINE row == [enabled |-> ~pool[w].was, version |-> policies[i].version,
                     rule |-> policies[i].rule]
             past == [rule |-> trail[i].rule, edits |-> trail[i].edits,
                      toggles |-> trail[i].toggles + 1, raced |-> trail[i].raced]
  <2>4. row \in Policy /\ past \in History
    BY <2>2, <2>3 DEF Policy, History
  <2>5. policies' = [policies EXCEPT ![i] = row] /\ trail' = [trail EXCEPT ![i] = past]
    <3>1. [policies[i] EXCEPT !.enabled = ~pool[w].was] = row
      BY <2>3 DEF Policy
    <3>2. [trail[i] EXCEPT !.toggles = @ + 1] = past
      BY <2>3 DEF History
    <3>3. /\ [policies EXCEPT ![i].enabled = ~pool[w].was]
               = [policies EXCEPT ![i] = [policies[i] EXCEPT !.enabled = ~pool[w].was]]
          /\ [trail EXCEPT ![i].toggles = @ + 1]
               = [trail EXCEPT ![i] = [trail[i] EXCEPT !.toggles = @ + 1]]
      BY <2>2, <1>0
    <3> QED BY <2>1, <3>1, <3>2, <3>3
  <2>6. /\ row.rule = policies[i].rule /\ row.version = policies[i].version
        /\ row.enabled <=> ~pool[w].was
        /\ past.rule = trail[i].rule /\ past.edits = trail[i].edits
        /\ past.raced = trail[i].raced /\ past.toggles = trail[i].toggles + 1
    OBVIOUS
  <2> HIDE DEF row, past
  <2>7. /\ policies' \in Seq(Policy) /\ trail' \in Seq(History)
        /\ Len(policies') = N /\ Len(trail') = N
        /\ DOMAIN policies' = 1..N /\ DOMAIN trail' = 1..N
        /\ \A j \in 1..N \ {i} : policies'[j] = policies[j] /\ trail'[j] = trail[j]
        /\ policies'[i] = row /\ trail'[i] = past
    BY <2>2, <2>4, <2>5, <1>0 DEF PolicyInv
  <2>8. EditTrail'
    BY <2>2, <2>6, <2>7, <1>0 DEF PolicyInv, EditTrail
  <2>9. TogglesCount'
    <3>1. ~trail[i].raced => (policies[i].enabled <=> trail[i].toggles % 2 = 0)
      BY <2>2, <1>0 DEF PolicyInv, TogglesCount
    <3>2. trail[i].toggles \in Nat
      BY <2>3 DEF History
    <3>3. (trail[i].toggles + 1) % 2 = 0 <=> trail[i].toggles % 2 # 0
      BY <3>2
    <3>4. ~past.raced => (row.enabled <=> past.toggles % 2 = 0)
      BY <2>2, <2>6, <3>1, <3>3
    <3> QED BY <2>2, <2>7, <3>4, <1>0 DEF PolicyInv, TogglesCount
  <2>10. ASSUME NEW v \in Workers PROVE TogglingSound(v)'
    <3>1. pool'[w] = None /\ \A u \in Workers \ {w} : pool'[u] = pool[u]
      BY <2>1 DEF PolicyInv
    <3> SUFFICES ASSUME v # w, pool[v] # None, pool[v].op = "toggle" PROVE TogglingSound(v)'
      BY <3>1 DEF TogglingSound
    <3> DEFINE k == pool[v].policy
    <3>2. k \in 1..N /\ pool[v].was \in BOOLEAN
      BY <1>0 DEF PolicyInv, TogglingSound
    <3>3. CASE k = i
      BY <2>2, <2>6, <2>7, <3>1, <3>2, <3>3, <1>0 DEF TogglingSound, Toggles
    <3>4. CASE k # i
      <4>1. policies'[k] = policies[k] /\ trail'[k] = trail[k] /\ pool'[v] = pool[v]
        BY <2>7, <3>1, <3>2, <3>4
      <4>2. TogglingSound(v)
        BY DEF PolicyInv
      <4>3. k \in DOMAIN policies'
        BY <2>7, <3>2
      <4>4. ASSUME ~trail[k].raced, NEW u \in Workers, Toggles(u, k)' PROVE u = v
        <5>1. u # w
          BY <3>1, <4>4 DEF Toggles
        <5>2. Toggles(u, k)
          BY <3>1, <4>1, <4>4, <5>1 DEF Toggles
        <5> QED BY <4>2, <4>4, <5>2 DEF TogglingSound
      <4>5. ~trail[k].raced => pool[v].was = policies[k].enabled
        BY <4>2 DEF TogglingSound
      <4> QED BY <3>2, <4>1, <4>3, <4>4, <4>5 DEF TogglingSound, Toggles
    <3> QED BY <3>3, <3>4
  <2>11. loop # None /\ loop.op = "edit" => Editing(loop)'
    <3> SUFFICES ASSUME loop # None, loop.op = "edit" PROVE Editing(loop)'
      OBVIOUS
    <3>1. loop.policy \in 1..N /\ loop.fields \in Edits
          /\ loop.version = policies[loop.policy].version
      BY <1>0 DEF PolicyInv, Editing
    <3>2. policies'[loop.policy].version = policies[loop.policy].version
      BY <2>2, <2>6, <2>7, <3>1
    <3> QED BY <2>1, <2>7, <3>1, <3>2 DEF Editing
  <2> QED BY <2>1, <2>7, <2>8, <2>9, <2>10, <2>11 DEF PolicyInv
<1>6. CASE RegistryNext /\ UNCHANGED policyVars
  <2>1. ASSUME NEW p \in Providers, NEW b \in Registrations, RegisterBackend(p, b)
        PROVE  loop'.op = "save" /\ pool' = pool
    BY <2>1 DEF RegisterBackend, LoopBegins
  <2>2. ASSUME NEW c \in Clients, NEW change \in Changes, UpdateBackend(c, change)
        PROVE  loop'.op = "save" /\ pool' = pool
    BY <2>2 DEF UpdateBackend
  <2>3. ASSUME NEW p \in Providers, NEW inside \in BOOLEAN, SetBoundary(p, inside)
        PROVE  loop'.op = "mark" /\ pool' = pool
    BY <2>3 DEF SetBoundary, LoopBegins
  <2>4. SaveBackend \/ SaveFails \/ MarkLive => loop' = None /\ pool' = pool
    BY DEF SaveBackend, SaveFails, MarkLive, LoopEnds
  <2>5. ASSUME NEW c \in Clients, NEW p \in Providers, UpdateReads(c, p)
        PROVE  loop' = loop /\ pool' = pool
    BY <2>5 DEF UpdateReads
  <2>6. ASSUME NEW w \in Workers, NEW p \in Providers, RemoveLive(w, p)
        PROVE  loop' = loop /\ pool' = [pool EXCEPT ![w] = [op |-> "remove", provider |-> p]]
    BY <2>6 DEF RemoveLive, WorkerBegins
  <2>7. ASSUME NEW w \in Workers, DeleteRow(w)
        PROVE  loop' = loop /\ pool' = [pool EXCEPT ![w] = None]
    BY <2>7 DEF DeleteRow, WorkerEnds
  <2>8. CASE pool' = pool /\ (loop' = loop \/ loop' = None \/ loop'.op # "edit")
    BY <1>6, <2>8, PolicyKept DEF PolicyInv
  <2>9. ASSUME NEW w \in Workers, NEW rest, rest = None \/ rest.op # "toggle",
               loop' = loop, pool' = [pool EXCEPT ![w] = rest]
        PROVE  PolicyInv'
    <3>1. DOMAIN pool' = Workers /\ \A v \in Workers : pool'[v] = IF v = w THEN rest ELSE pool[v]
      BY <2>9 DEF PolicyInv
    <3>2. \A v \in Workers : pool'[v] = pool[v] \/ pool'[v] = None \/ pool'[v].op # "toggle"
      BY <2>9, <3>1
    <3> QED BY <1>6, <2>9, <3>1, <3>2, PolicyKept
  <2>10. ASSUME NEW w \in Workers, NEW p \in Providers, RemoveLive(w, p) PROVE PolicyInv'
    BY <2>6, <2>9, <2>10
  <2>11. ASSUME NEW w \in Workers, DeleteRow(w) PROVE PolicyInv'
    BY <2>7, <2>9, <2>11
  <2> QED BY <1>6, <2>1, <2>2, <2>3, <2>4, <2>5, <2>8, <2>10, <2>11 DEF RegistryNext
<1>7. CASE ConfigNext /\ UNCHANGED policyVars
  <2>1. ASSUME NEW u \in ConfigUpdates, PutKey(u) PROVE loop'.op = "configure" /\ pool' = pool
    BY <2>1 DEF PutKey, LoopBegins
  <2>2. PutRows \/ PutRowsFails => loop' = None /\ pool' = pool
    BY DEF PutRows, PutRowsFails, LoopEnds
  <2>3. pool' = pool /\ (loop' = None \/ loop'.op # "edit")
    BY <1>7, <2>1, <2>2 DEF ConfigNext
  <2> QED BY <1>7, <2>3, PolicyKept DEF PolicyInv
<1>8. CASE Restart
  BY <1>8, PolicyKept DEF Restart, HandlersRestart
<1>9. CASE UNCHANGED vars
  BY <1>9, PolicyKept DEF vars, handlerVars, policyVars, PolicyInv
<1>10. CASE PolicyNext
  BY <1>10, <1>1, <1>2, <1>3, <1>4, <1>5 DEF PolicyNext
<1> QED BY <1>6, <1>7, <1>8, <1>9, <1>10 DEF Next

LEMMA PolicyInvariant == Spec => []PolicyInv
<1>1. Init => PolicyInv
  BY DEF Init, HandlersInit, PolicyInit, PolicyInv, EditTrail, TogglesCount, TogglingSound
<1> QED BY <1>1, PolicyStep, PTL DEF Spec

\* EditTrail for any number of policies, workers and overlapping requests.
THEOREM EditsAreKept == Spec => []EditTrail
<1>1. PolicyInv => EditTrail
  BY DEF PolicyInv
<1> QED BY <1>1, PolicyInvariant, PTL

\* TogglesCount for any number of policies, workers and overlapping requests.
THEOREM TogglesAreCounted == Spec => []TogglesCount
<1>1. PolicyInv => TogglesCount
  BY DEF PolicyInv
<1> QED BY <1>1, PolicyInvariant, PTL

\* update_policy and toggle_policy: no edit is lost, a toggle only to a toggle.
THEOREM ChangesAreKept == Spec => []ChangesKept
BY EditsAreKept, TogglesAreCounted, PTL DEF ChangesKept
-----------------------------------------------------------------------------
(* The decision on a request.                                              *)

\* The violated policies among those of s.
ViolatedIn(req, s, effect) ==
  {i \in s : policies[i].rule.effect = effect /\ Violation(policies[i].rule.conditions, req)}

\* The decision that the policies of s call for.
Strictest(req, s) ==
  IF ViolatedIn(req, s, "block") # {} THEN Decision("block", Min(ViolatedIn(req, s, "block")))
  ELSE IF ViolatedIn(req, s, "warn") # {} THEN Decision("warn", Min(ViolatedIn(req, s, "warn")))
  ELSE Decision("allow", 0)

\* A number above all of T does not change the least of T, and is the least
\* when T has none.
LEMMA MinOfMore ==
  ASSUME NEW T \in SUBSET Nat, NEW n \in Nat, \A m \in T : m < n
  PROVE  Min(T \cup {n}) = IF T = {} THEN n ELSE Min(T)
<1>1. CASE T = {}
  <2>1. T \cup {n} = {n} /\ {n} \in SUBSET Int /\ n <= n
    BY <1>1
  <2>2. Min({n}) = n
    BY <2>1, MinIs
  <2> QED BY <1>1, <2>1, <2>2
<1>2. CASE T # {}
  <2>1. PICK l \in T : \A m \in T : l <= m
    BY <1>2, LeastNumber
  <2>2. Min(T) = l
    <3>1. T \in SUBSET Int
      OBVIOUS
    <3> QED BY <2>1, <3>1, MinIs
  <2>3. T \in SUBSET Int /\ T \cup {n} \in SUBSET Int /\ l \in T \cup {n} /\ \A m \in T \cup {n} : l <= m
    BY <2>1
  <2>4. Min(T \cup {n}) = l
    BY <2>3, MinIs
  <2> QED BY <1>2, <2>2, <2>4
<1> QED BY <1>1, <1>2

\* Weighing the newest policy of a set turns the decision of the others into
\* that of all.
LEMMA WeighedLast ==
  ASSUME NEW req, NEW s \in SUBSET Nat, NEW i \in Nat, \A j \in s : j < i
  PROVE  Strictest(req, s \cup {i}) = Weigh(req, i, Strictest(req, s))
<1> DEFINE V(e) == ViolatedIn(req, s, e)
           W(e) == ViolatedIn(req, s \cup {i}, e)
           bad  == Violation(policies[i].rule.conditions, req)
           mine == policies[i].rule.effect
<1>1. \A e : W(e) = IF bad /\ mine = e THEN V(e) \cup {i} ELSE V(e)
  BY DEF ViolatedIn
<1>2. \A e : V(e) \in SUBSET Nat /\ \A j \in V(e) : j < i
  BY DEF ViolatedIn
<1>3. \A e : Min(V(e) \cup {i}) = IF V(e) = {} THEN i ELSE Min(V(e))
  <2> SUFFICES ASSUME NEW e PROVE Min(V(e) \cup {i}) = IF V(e) = {} THEN i ELSE Min(V(e))
    OBVIOUS
  <2> DEFINE T == V(e)
  <2>1. T \in SUBSET Nat /\ \A j \in T : j < i
    BY <1>2
  <2> HIDE DEF T
  <2>2. Min(T \cup {i}) = IF T = {} THEN i ELSE Min(T)
    BY <2>1, MinOfMore
  <2> QED BY <2>2 DEF T
<1>4. Strictest(req, s) = IF V("block") # {} THEN Decision("block", Min(V("block")))
                          ELSE IF V("warn") # {} THEN Decision("warn", Min(V("warn")))
                          ELSE Decision("allow", 0)
  BY DEF Strictest
<1>5. Strictest(req, s \cup {i}) = IF W("block") # {} THEN Decision("block", Min(W("block")))
                                   ELSE IF W("warn") # {} THEN Decision("warn", Min(W("warn")))
                                   ELSE Decision("allow", 0)
  BY DEF Strictest
<1>6. \A d : Weigh(req, i, d) = IF d.effect = "block" \/ ~bad THEN d
                                ELSE IF mine = "block" THEN Decision("block", i)
                                ELSE IF mine = "warn" /\ d.effect = "allow" THEN Decision("warn", i)
                                ELSE d
  BY DEF Weigh
<1>7. \A e, p : Decision(e, p).effect = e
  BY DEF Decision
<1> HIDE DEF V, W, bad, mine
<1>8. CASE ~bad
  <2>1. \A e : W(e) = V(e)
    BY <1>1, <1>8
  <2> QED BY <1>4, <1>5, <1>6, <1>8, <2>1
<1>9. CASE bad /\ mine = "block"
  <2>1. W("block") = V("block") \cup {i} /\ W("block") # {} /\ W("warn") = V("warn")
    BY <1>1, <1>9
  <2>2. Strictest(req, s \cup {i}) = Decision("block", IF V("block") = {} THEN i ELSE Min(V("block")))
    BY <1>3, <1>5, <2>1
  <2>3. CASE V("block") = {}
    <3>1. Strictest(req, s).effect # "block"
      BY <1>4, <1>7, <2>3
    <3> QED BY <1>6, <1>9, <2>2, <2>3, <3>1
  <2>4. CASE V("block") # {}
    <3>1. Strictest(req, s) = Decision("block", Min(V("block")))
      BY <1>4, <2>4
    <3> QED BY <1>6, <1>7, <1>9, <2>2, <2>4, <3>1
  <2> QED BY <2>3, <2>4
<1>10. CASE bad /\ mine = "warn"
  <2>1. W("warn") = V("warn") \cup {i} /\ W("warn") # {} /\ W("block") = V("block")
    BY <1>1, <1>10
  <2>2. CASE V("block") # {}
    BY <1>4, <1>5, <1>6, <1>7, <1>10, <2>1, <2>2
  <2>3. CASE V("block") = {} /\ V("warn") = {}
    <3>1. Strictest(req, s) = Decision("allow", 0)
      BY <1>4, <2>3
    <3>2. Strictest(req, s \cup {i}) = Decision("warn", i)
      BY <1>3, <1>5, <2>1, <2>3
    <3> QED BY <1>6, <1>7, <1>10, <3>1, <3>2
  <2>4. CASE V("block") = {} /\ V("warn") # {}
    <3>1. Strictest(req, s) = Decision("warn", Min(V("warn")))
      BY <1>4, <2>4
    <3>2. Strictest(req, s \cup {i}) = Decision("warn", Min(V("warn")))
      BY <1>3, <1>5, <2>1, <2>4
    <3> QED BY <1>6, <1>7, <1>10, <3>1, <3>2
  <2> QED BY <2>2, <2>3, <2>4
<1>11. CASE bad /\ mine # "block" /\ mine # "warn"
  <2>1. W("block") = V("block") /\ W("warn") = V("warn")
    BY <1>1, <1>11
  <2> QED BY <1>4, <1>5, <1>6, <1>11, <2>1
<1> QED BY <1>8, <1>9, <1>10, <1>11

\* h decides on every set of policies among D as the loop does.
LoopOver(req, D, h) ==
  h = [s \in SUBSET D |->
         IF s = {} THEN Decision("allow", 0) ELSE Weigh(req, Max(s), h[s \ {Max(s)}])]

\* The loop decides as the strictest violated policy says.
LEMMA LoopDecides ==
  ASSUME NEW req, NEW N \in Nat, NEW D \in SUBSET (1..N)
  PROVE  /\ \E h : LoopOver(req, D, h)
         /\ \A h : LoopOver(req, D, h) => h[D] = Strictest(req, D)
<1>1. Strictest(req, {}) = Decision("allow", 0)
  BY DEF Strictest, ViolatedIn
<1>2. ASSUME NEW s \in SUBSET D, s # {}
      PROVE  Strictest(req, s) = Weigh(req, Max(s), Strictest(req, s \ {Max(s)}))
  <2> DEFINE rest == s \ {Max(s)}
  <2>1. /\ Max(s) \in s /\ Max(s) \in Nat /\ rest \in SUBSET Nat
        /\ \A j \in rest : j < Max(s)
    <3>1. s \in SUBSET (1..N)
      OBVIOUS
    <3>2. Max(s) \in s /\ Max(s) \in Nat /\ \A j \in s \ {Max(s)} : j < Max(s)
      BY <1>2, <3>1, MaxOfSome
    <3>3. s \subseteq Nat
      <4>1. 1..N \subseteq Nat
        OBVIOUS
      <4> QED BY <3>1, <4>1, Zenon
    <3> QED BY <3>2, <3>3, Zenon
  <2>2. s = rest \cup {Max(s)}
    BY <2>1
  <2> HIDE DEF rest
  <2>3. Strictest(req, rest \cup {Max(s)}) = Weigh(req, Max(s), Strictest(req, rest))
    BY <2>1, WeighedLast
  <2> QED BY <2>2, <2>3 DEF rest
<1>3. \E h : LoopOver(req, D, h)
  <2> DEFINE h == [s \in SUBSET D |-> Strictest(req, s)]
  <2>1. ASSUME NEW s \in SUBSET D
        PROVE  h[s] = IF s = {} THEN Decision("allow", 0)
                      ELSE Weigh(req, Max(s), h[s \ {Max(s)}])
    BY <1>1, <1>2
  <2>2. LoopOver(req, D, h)
    BY <2>1 DEF LoopOver
  <2> QED BY <2>2
<1>4. ASSUME NEW h, LoopOver(req, D, h) PROVE h[D] = Strictest(req, D)
  <2> DEFINE P == {n \in Nat : \A s \in SUBSET D : s \subseteq 1..n => h[s] = Strictest(req, s)}
  <2>0. \A s \in SUBSET D :
          h[s] = IF s = {} THEN Decision("allow", 0)
                 ELSE Weigh(req, Max(s), h[s \ {Max(s)}])
    BY <1>4 DEF LoopOver
  <2>1. 0 \in P
    <3>1. ASSUME NEW s \in SUBSET D, s \subseteq 1..0 PROVE s = {}
      BY <3>1
    <3> QED BY <1>1, <2>0, <3>1
  <2>2. ASSUME NEW n \in Nat, \A s \in SUBSET D : s \subseteq 1..n => h[s] = Strictest(req, s),
               NEW s \in SUBSET D, s \subseteq 1..(n + 1)
        PROVE  h[s] = Strictest(req, s)
    <3>1. CASE s = {}
      BY <1>1, <2>0, <3>1
    <3>2. CASE s # {}
      <4>1. /\ Max(s) \in s /\ Max(s) \in Nat
            /\ \A j \in s \ {Max(s)} : j < Max(s)
        BY <3>2, MaxOfSome
      <4>2. \A j \in s \ {Max(s)} : j \in 1..n
        BY <2>2, <4>1
      <4>3. h[s \ {Max(s)}] = Strictest(req, s \ {Max(s)})
        BY <2>2, <4>2
      <4> QED BY <1>2, <2>0, <3>2, <4>3
    <3> QED BY <3>1, <3>2
  <2>3. \A n \in P : n + 1 \in P
    BY <2>2
  <2>4. P \in SUBSET Nat
    OBVIOUS
  <2>5. P = Nat
    <3> HIDE DEF P
    <3> QED BY <2>1, <2>3, <2>4, CountingUp
  <2> QED BY <2>5
<1> QED BY <1>3, <1>4

LEMMA EvaluateIs ==
  ASSUME PolicyTypeOK, NEW req
  PROVE  Evaluate(req) = Strictest(req, LoadEnabled(req))
<1> DEFINE D == LoadEnabled(req)
<1>1. Len(policies) \in Nat /\ D \in SUBSET (1..Len(policies))
  BY DEF PolicyTypeOK, LoadEnabled
<1>2. Evaluate(req) = (CHOOSE h : LoopOver(req, D, h))[D]
  BY DEF Evaluate, MapThenFoldSet, LoopOver
<1> HIDE DEF D
<1>3. LoopOver(req, D, CHOOSE h : LoopOver(req, D, h))
  BY <1>1, LoopDecides
<1>4. (CHOOSE h : LoopOver(req, D, h))[D] = Strictest(req, D)
  BY <1>1, <1>3, LoopDecides
<1> QED BY <1>2, <1>4 DEF D

\* MostRestrictive for any number of policies, whatever they scope and demand.
THEOREM StrictestPolicyWins == Spec => []MostRestrictive
<1>1. PolicyInv => MostRestrictive
  <2> SUFFICES ASSUME PolicyInv PROVE MostRestrictive
    OBVIOUS
  <2>1. PolicyTypeOK
    BY DEF PolicyInv, PolicyTypeOK, Policy
  <2> DEFINE V(req, effect) ==
          {i \in DOMAIN policies :
             /\ policies[i].enabled
             /\ policies[i].rule.effect = effect
             /\ policies[i].rule.action # "tool.call"
             /\ ScopeMatches(policies[i].rule.scope, req)
             /\ Violation(policies[i].rule.conditions, req)}
  <2>2. ASSUME NEW req, NEW effect PROVE V(req, effect) = ViolatedIn(req, LoadEnabled(req), effect)
    <3>1. ASSUME NEW i \in DOMAIN policies
          PROVE  policies[i].rule.action # "tool.call"
                   <=> policies[i].rule.action \in {"chat.completion", "*"}
      <4>1. policies[i].rule \in Rule
        <5>1. policies[i] \in Policy
          BY DEF PolicyInv
        <5> QED BY <5>1 DEF Policy
      <4>2. policies[i].rule.action \in Actions
        BY <4>1 DEF Rule
      <4> QED BY <4>2 DEF Actions
    <3> QED BY <3>1 DEF ViolatedIn, LoadEnabled
  <2>3. ASSUME NEW req
        PROVE  Evaluate(req) = IF V(req, "block") # {} THEN Decision("block", Min(V(req, "block")))
                               ELSE IF V(req, "warn") # {} THEN Decision("warn", Min(V(req, "warn")))
                               ELSE Decision("allow", 0)
    <3> HIDE DEF V
    <3> QED BY <2>1, <2>2, EvaluateIs DEF Strictest
  <2> QED BY <2>3 DEF MostRestrictive
<1> QED BY <1>1, PolicyInvariant, PTL

-----------------------------------------------------------------------------
(* Backends.                                                               *)

\* Edits under way: one that has its own object was overlapped, one that has not
\* finds the live one.
EditOK(e, table) ==
  e # None =>
    /\ e.provider \in Providers
    /\ e.object \in Backend \cup {None}
    /\ e.object = None => table[e.provider] # None
    /\ e.object # None => e.overlapped

RegistryTypes ==
  /\ live \in [Providers -> Backend \cup {None}]
  /\ rows \in [Providers -> Backend \cup {None}]
  /\ word \in [Providers -> Backend \cup {None}]
  /\ lost \subseteq Providers
  /\ DOMAIN editing = Clients
  /\ \A c \in Clients : EditOK(editing[c], live)
  /\ loop # None => loop.op # "remove"
  /\ loop # None /\ loop.op \in {"save", "mark"} => loop \in Unfinished
  /\ DOMAIN pool = Workers
  /\ \A w \in Workers : pool[w] # None /\ pool[w].op = "remove" => pool[w] \in Unfinished

Saving(p) == Writing(p) /\ loop.op = "save"
Marked(b, inside) == IF b = None THEN None ELSE [b EXCEPT !.inBoundary = inside]

\* A backend no word of which is lost, while requests on it are under way.
WordKept(p) ==
  /\ ~(Writing(p) /\ Removing(p))
  /\ Removing(p) => live[p] = None /\ word[p] = None
  /\ Saving(p) => live[p] = word[p] /\ loop.row = word[p]
  /\ Writing(p) /\ ~Saving(p) => word[p] = Marked(live[p], loop.inBoundary)
  /\ ~Writing(p) => live[p] = word[p]
  /\ Saving(p) \/ Removing(p) \/ rows[p] = word[p] \/ (p \in BuiltIn /\ rows[p] = None)

RegistryInv == RegistryTypes /\ \A p \in Providers \ lost : WordKept(p)

Removes(w, p) == pool[w] # None /\ pool[w].op = "remove" /\ pool[w].provider = p

LEMMA RemovingIs ==
  (loop # None => loop.op # "remove")
    => \A p \in Providers : Removing(p) <=> \E w \in Workers : Removes(w, p)
BY DEF Removing, Running, Removes

\* A step that is not about backend p.
LEMMA WordFrame ==
  ASSUME NEW p \in Providers, WordKept(p),
         live'[p] = live[p], rows'[p] = rows[p], word'[p] = word[p],
         Removing(p)' <=> Removing(p),
         loop' = loop \/ (~Writing(p) /\ ~Writing(p)')
  PROVE  WordKept(p)'
BY DEF WordKept, Saving, Writing, LoopFree

\* Merging changes into a backend makes a backend.
LEMMA MergeType ==
  ASSUME NEW b \in Backend, NEW c \in Change
  PROVE  Merge(b, c) \in Backend
BY RegistryAssumption DEF Backend, Change, Merge

LEMMA MarkedType ==
  ASSUME NEW b \in Backend \cup {None}, NEW inside \in BOOLEAN
  PROVE  /\ Marked(b, inside) \in Backend \cup {None}
         /\ Marked(b, inside) = None <=> b = None
<1>1. CASE b \in Backend
  <2>1. [b EXCEPT !.inBoundary = inside] \in Backend
    BY <1>1 DEF Backend
  <2> QED BY <1>1, <2>1, RegistryAssumption DEF Marked
<1> QED BY <1>1 DEF Marked

\* Taking p's object out of the registry leaves edits what they need.
LEMMA DetachedEdits ==
  ASSUME NEW E, \A c \in Clients : EditOK(E[c], live),
         live \in [Providers -> Backend \cup {None}],
         NEW p \in Providers, NEW T, \A q \in Providers \ {p} : T[q] = live[q]
  PROVE  \A c \in Clients : EditOK(Detached(E, p)[c], T)
<1> SUFFICES ASSUME NEW c \in Clients PROVE EditOK(Detached(E, p)[c], T)
  OBVIOUS
<1>1. CASE E[c] = None \/ E[c].provider # p
  <2>1. Detached(E, p)[c] = E[c]
    BY <1>1 DEF Detached
  <2> QED BY <1>1, <2>1 DEF EditOK
<1>2. CASE E[c] # None /\ E[c].provider = p
  <2>1. Detached(E, p)[c] = [provider |-> p, object |-> Existing(E[c]), overlapped |-> TRUE]
    BY <1>2 DEF Detached
  <2>2. Existing(E[c]) \in Backend /\ Existing(E[c]) # None
    BY <1>2, RegistryAssumption DEF EditOK, Existing
  <2> QED BY <2>1, <2>2 DEF EditOK
<1> QED BY <1>1, <1>2

\* What requests on policies and the router do to the loop and the pool is no
\* matter of the registry.
Busy == loop # None /\ loop.op \in {"save", "mark"}

LEMMA RegistryKept ==
  ASSUME RegistryInv, UNCHANGED registryVars, DOMAIN pool' = Workers,
         \/ loop' = loop
         \/ ~Busy /\ ~Busy' /\ (loop' # None => loop'.op # "remove"),
         \A w \in Workers : \/ pool'[w] = pool[w]
                            \/ /\ pool[w] = None \/ pool[w].op # "remove"
                               /\ pool'[w] = None \/ pool'[w].op # "remove"
  PROVE  RegistryInv'
<1>1. RegistryTypes'
  BY DEF RegistryInv, RegistryTypes, registryVars, Busy
<1>2. \A p \in Providers : Removing(p)' <=> Removing(p)
  <2>1. \A p \in Providers : Removing(p) <=> \E w \in Workers : Removes(w, p)
    BY RemovingIs DEF RegistryInv, RegistryTypes
  <2>2. (loop # None => loop.op # "remove")'
    BY <1>1 DEF RegistryTypes
  <2>3. (\A p \in Providers : Removing(p) <=> \E w \in Workers : Removes(w, p))'
    BY <2>2, RemovingIs, PTL
  <2>4. \A w \in Workers, p \in Providers : Removes(w, p)' <=> Removes(w, p)
    BY DEF Removes
  <2> QED BY <2>1, <2>3, <2>4
<1>3. \A p \in Providers : loop' = loop \/ (~Writing(p) /\ ~Writing(p)')
  BY DEF Writing, Busy, LoopFree
<1>4. ASSUME NEW p \in Providers \ lost PROVE WordKept(p)'
  BY <1>2, <1>3, WordFrame DEF RegistryInv, registryVars
<1> QED BY <1>1, <1>4 DEF RegistryInv, registryVars

\* How the removals under way change with the pool.
LEMMA RemovalsChange ==
  ASSUME RegistryTypes, RegistryTypes'
  PROVE  /\ pool' = pool => \A p \in Providers : Removing(p)' <=> Removing(p)
         /\ \A w \in Workers, q \in Providers :
              Idle(w) /\ pool' = [pool EXCEPT ![w] = [op |-> "remove", provider |-> q]]
                => \A p \in Providers : Removing(p)' <=> Removing(p) \/ p = q
         /\ \A w \in Workers : pool' = [pool EXCEPT ![w] = None] =>
              \A p \in Providers : /\ Removing(p)' => Removing(p)
                                   /\ ~Removes(w, p) => (Removing(p)' <=> Removing(p))
<1>1. \A p \in Providers : Removing(p) <=> \E w \in Workers : Removes(w, p)
  BY RemovingIs DEF RegistryTypes
<1>2. (\A p \in Providers : Removing(p) <=> \E w \in Workers : Removes(w, p))'
  <2>1. (loop # None => loop.op # "remove")'
    BY DEF RegistryTypes
  <2> QED BY <2>1, RemovingIs, PTL
<1>3. ASSUME pool' = pool, NEW p \in Providers PROVE Removing(p)' <=> Removing(p)
  <2>1. \A w \in Workers : Removes(w, p)' <=> Removes(w, p)
    BY <1>3 DEF Removes
  <2> QED BY <1>1, <1>2, <2>1
<1>4. ASSUME NEW w \in Workers, NEW q \in Providers, Idle(w),
             pool' = [pool EXCEPT ![w] = [op |-> "remove", provider |-> q]],
             NEW p \in Providers
      PROVE  Removing(p)' <=> Removing(p) \/ p = q
  <2>1. [op |-> "remove", provider |-> q] # None
    BY RegistryAssumption DEF Unfinished
  <2>2. Removes(w, p)' <=> p = q
    BY <1>4, <2>1 DEF Removes, RegistryTypes
  <2>3. ~Removes(w, p)
    BY <1>4 DEF Removes, Idle
  <2>4. \A v \in Workers \ {w} : Removes(v, p)' <=> Removes(v, p)
    BY <1>4 DEF Removes, RegistryTypes
  <2> QED BY <1>1, <1>2, <2>2, <2>3, <2>4
<1>5. ASSUME NEW w \in Workers, pool' = [pool EXCEPT ![w] = None], NEW p \in Providers
      PROVE  /\ Removing(p)' => Removing(p)
             /\ ~Removes(w, p) => (Removing(p)' <=> Removing(p))
  <2>1. ~Removes(w, p)'
    BY <1>5 DEF Removes, RegistryTypes
  <2>2. \A v \in Workers \ {w} : Removes(v, p)' <=> Removes(v, p)
    BY <1>5 DEF Removes, RegistryTypes
  <2> QED BY <1>1, <1>2, <2>1, <2>2
<1> QED BY <1>3, <1>4, <1>5

LEMMA RegisterKept ==
  ASSUME RegistryInv, NEW q \in Providers, NEW b \in Registrations, RegisterBackend(q, b)
  PROVE  RegistryInv'
<1> DEFINE rest == [op |-> "save", provider |-> q, row |-> b]
<1>0. /\ RegistryTypes /\ b \in Backend /\ b # None /\ loop = None
      /\ loop' = rest /\ pool' = pool /\ rows' = rows
      /\ live' = [live EXCEPT ![q] = b] /\ word' = [word EXCEPT ![q] = b]
      /\ editing' = Detached(editing, q)
      /\ lost' = IF Removing(q) THEN lost \cup {q} ELSE lost \ {q}
  BY RegistryAssumption DEF RegisterBackend, LoopBegins, RegistryInv, LoopFree
<1>1. rest \in Unfinished /\ rest # None
  BY <1>0, RegistryAssumption DEF Unfinished
<1>2. RegistryTypes'
  <2>1. \A c \in Clients : EditOK(editing'[c], live')
    BY <1>0, DetachedEdits DEF RegistryTypes
  <2>2. DOMAIN editing' = Clients
    BY <1>0 DEF Detached
  <2> HIDE DEF rest
  <2>3. rest.op = "save"
    BY DEF rest
  <2> QED BY <1>0, <1>1, <2>1, <2>2, <2>3 DEF RegistryTypes
<1>3. \A p \in Providers : Removing(p)' <=> Removing(p)
  BY <1>0, <1>2, RemovalsChange
<1>4. ASSUME NEW p \in Providers \ lost' PROVE WordKept(p)'
  <2>1. CASE p = q
    <3>1. ~Removing(p)'
      BY <1>0, <1>3, <1>4, <2>1
    <3>2. live'[p] = b /\ word'[p] = b
      BY <1>0, <2>1 DEF RegistryTypes
    <3>3. Saving(p)'
      BY <1>0, <1>1, <2>1 DEF Saving, Writing, LoopFree
    <3>4. loop'.row = b
      BY <1>0
    <3> QED BY <3>1, <3>2, <3>3, <3>4 DEF WordKept, Saving
  <2>2. CASE p # q
    <3>1. /\ live'[p] = live[p] /\ word'[p] = word[p] /\ p \notin lost
          /\ ~Writing(p) /\ ~Writing(p)'
      BY <1>0, <1>4, <2>2 DEF RegistryTypes, Writing, LoopFree
    <3> QED BY <1>0, <1>3, <3>1, WordFrame DEF RegistryInv
  <2> QED BY <2>1, <2>2
<1> QED BY <1>2, <1>4 DEF RegistryInv

LEMMA SaveKept ==
  ASSUME RegistryInv, SaveBackend \/ SaveFails
  PROVE  RegistryInv'
<1> DEFINE q == loop.provider
<1>0. /\ RegistryTypes /\ loop # None /\ loop.op = "save"
      /\ loop' = None /\ pool' = pool /\ live' = live /\ word' = word /\ editing' = editing
      /\ \/ rows' = [rows EXCEPT ![q] = loop.row] /\ lost' = lost
         \/ rows' = rows /\ lost' = lost \cup {q}
  BY DEF SaveBackend, SaveFails, LoopEnds, LoopFree, Note, RegistryInv
<1>1. q \in Providers /\ loop.row \in Backend
  BY <1>0 DEF RegistryTypes, Unfinished
<1>2. RegistryTypes'
  BY <1>0, <1>1 DEF RegistryTypes
<1>3. \A p \in Providers : Removing(p)' <=> Removing(p)
  BY <1>0, <1>2, RemovalsChange
<1>4. ASSUME NEW p \in Providers \ lost' PROVE WordKept(p)'
  <2>0. p \notin lost /\ ~Writing(p)'
    BY <1>0, <1>4 DEF Writing, LoopFree
  <2>1. CASE p = q
    <3>1. /\ Saving(p) /\ rows'[p] = loop.row
      BY <1>0, <1>4, <2>1 DEF Saving, Writing, LoopFree, RegistryTypes
    <3>2. live[p] = word[p] /\ loop.row = word[p] /\ ~Removing(p)
      BY <2>0, <3>1 DEF RegistryInv, WordKept, Saving
    <3> QED BY <1>0, <1>3, <2>0, <3>1, <3>2 DEF WordKept, Saving
  <2>2. CASE p # q
    <3>1. rows'[p] = rows[p] /\ ~Writing(p)
      BY <1>0, <2>2 DEF RegistryTypes, Writing, LoopFree
    <3> QED BY <1>0, <1>3, <2>0, <3>1, WordFrame DEF RegistryInv
  <2> QED BY <2>1, <2>2
<1> QED BY <1>2, <1>4 DEF RegistryInv

LEMMA EditBeginsKept ==
  ASSUME RegistryInv, NEW c \in Clients, NEW q \in Providers, UpdateReads(c, q)
  PROVE  RegistryInv'
<1>0. /\ RegistryTypes /\ live[q] # None
      /\ UNCHANGED <<loop, pool, live, rows, word, lost>>
      /\ editing' = [editing EXCEPT ![c] =
                       [provider |-> q, object |-> None, overlapped |-> FALSE]]
  BY DEF UpdateReads, RegistryInv
<1>1. \A d \in Clients : EditOK(editing'[d], live)
  BY <1>0 DEF RegistryTypes, EditOK
<1>2. RegistryTypes'
  BY <1>0, <1>1 DEF RegistryTypes
<1>3. \A p \in Providers : Removing(p)' <=> Removing(p)
  BY <1>0, <1>2, RemovalsChange
<1>4. ASSUME NEW p \in Providers \ lost PROVE WordKept(p)'
  BY <1>0, <1>3, WordFrame DEF RegistryInv
<1> QED BY <1>0, <1>2, <1>4 DEF RegistryInv

LEMMA UpdateKept ==
  ASSUME RegistryInv, NEW c \in Clients, NEW change \in Changes, UpdateBackend(c, change)
  PROVE  RegistryInv'
<1> DEFINE e == editing[c]
           q == e.provider
           b == Merge(Existing(e), change)
           rest == [op |-> "save", provider |-> q, row |-> b]
           others == [editing EXCEPT ![c] = None]
<1>0. /\ RegistryTypes /\ loop = None /\ e # None
      /\ live' = [live EXCEPT ![q] = b] /\ loop' = rest /\ editing' = Detached(others, q)
      /\ word' = [word EXCEPT ![q] = IF @ = None THEN b ELSE Merge(@, change)]
      /\ lost' = IF e.overlapped THEN lost \cup {q} ELSE lost
      /\ pool' = pool /\ rows' = rows
  BY DEF UpdateBackend, RegistryInv, LoopFree, Note
<1>1. /\ q \in Providers /\ Existing(e) \in Backend
      /\ ~e.overlapped => Existing(e) = live[q]
  BY <1>0 DEF RegistryTypes, EditOK, Existing
<1>2. b \in Backend /\ b # None
  BY <1>1, MergeType, RegistryAssumption
<1>3. rest \in Unfinished /\ rest # None
  BY <1>1, <1>2, RegistryAssumption DEF Unfinished
<1>4. RegistryTypes'
  <2>1. \A d \in Clients : EditOK(others[d], live)
    BY <1>0 DEF RegistryTypes, EditOK
  <2>2. \A d \in Clients : EditOK(editing'[d], live')
    <3> HIDE DEF b, others
    <3> QED BY <1>0, <1>1, <2>1, DetachedEdits DEF RegistryTypes
  <2>3. DOMAIN editing' = Clients
    BY <1>0 DEF Detached
  <2>4. word' \in [Providers -> Backend \cup {None}]
    <3>1. word[q] = None \/ Merge(word[q], change) \in Backend
      BY <1>0, <1>1, MergeType, RegistryAssumption DEF RegistryTypes
    <3> HIDE DEF b
    <3> QED BY <1>0, <1>1, <1>2, <3>1 DEF RegistryTypes
  <2>5. live' \in [Providers -> Backend \cup {None}] /\ lost' \subseteq Providers
    <3> HIDE DEF b
    <3> QED BY <1>0, <1>1, <1>2 DEF RegistryTypes
  <2>6. rest.op = "save"
    OBVIOUS
  <2> HIDE DEF rest
  <2> QED BY <1>0, <1>3, <2>2, <2>3, <2>4, <2>5, <2>6 DEF RegistryTypes
<1>5. \A p \in Providers : Removing(p)' <=> Removing(p)
  BY <1>0, <1>4, RemovalsChange
<1>6. ASSUME NEW p \in Providers \ lost' PROVE WordKept(p)'
  <2>0. p \notin lost /\ WordKept(p) /\ ~Writing(p)
    BY <1>0, <1>6 DEF RegistryInv, Writing, LoopFree
  <2>1. CASE p = q
    <3>1. ~e.overlapped
      BY <1>0, <1>6, <2>1
    <3>2. live[p] # None /\ live[p] = word[p] /\ Existing(e) = live[p]
      <4>1. e.object = None /\ live[q] # None
        BY <1>0, <3>1 DEF RegistryTypes, EditOK
      <4> QED BY <1>1, <2>0, <2>1, <3>1, <4>1 DEF WordKept
    <3>3. ~Removing(p)'
      BY <1>5, <2>0, <3>2 DEF WordKept
    <3>4. live'[p] = b /\ word'[p] = b
      <4>1. b = Merge(word[p], change)
        BY <3>2
      <4> HIDE DEF b
      <4> QED BY <1>0, <2>1, <3>2, <4>1 DEF RegistryTypes
    <3>5. Saving(p)' /\ loop'.row = b
      <4>1. rest.op = "save" /\ rest.provider = q /\ rest.row = b
        OBVIOUS
      <4> HIDE DEF rest, b
      <4> QED BY <1>0, <1>3, <2>1, <4>1 DEF Saving, Writing, LoopFree
    <3> QED BY <3>3, <3>4, <3>5 DEF WordKept, Saving
  <2>2. CASE p # q
    <3>1. live'[p] = live[p] /\ word'[p] = word[p]
      BY <1>0, <2>2 DEF RegistryTypes
    <3>2. ~Writing(p)'
      BY <1>0, <2>2 DEF Writing
    <3> QED BY <1>0, <1>5, <2>0, <3>1, <3>2, WordFrame
  <2> QED BY <2>1, <2>2
<1> QED BY <1>4, <1>6 DEF RegistryInv

LEMMA SetBoundaryKept ==
  ASSUME RegistryInv, NEW q \in Providers, NEW inside \in BOOLEAN, SetBoundary(q, inside)
  PROVE  RegistryInv'
<1> DEFINE rest == [op |-> "mark", provider |-> q, inBoundary |-> inside]
<1>0. /\ RegistryTypes /\ loop = None /\ loop' = rest /\ pool' = pool
      /\ rows' = [rows EXCEPT ![q] = Marked(@, inside)]
      /\ word' = [word EXCEPT ![q] = Marked(@, inside)]
      /\ lost' = IF Removing(q) THEN lost \cup {q} ELSE lost
      /\ live' = live /\ editing' = editing
  <2>1. /\ rows' = IF rows[q] = None THEN rows ELSE [rows EXCEPT ![q].inBoundary = inside]
        /\ word' = IF word[q] = None THEN word ELSE [word EXCEPT ![q].inBoundary = inside]
    BY DEF SetBoundary
  <2>2. rows' = [rows EXCEPT ![q] = Marked(@, inside)]
    BY <2>1 DEF RegistryInv, RegistryTypes, Marked
  <2>3. word' = [word EXCEPT ![q] = Marked(@, inside)]
    BY <2>1 DEF RegistryInv, RegistryTypes, Marked
  <2> QED BY <2>2, <2>3 DEF SetBoundary, LoopBegins, LoopFree, RegistryInv, Note
<1>1. rest \in Unfinished /\ rest # None /\ rest.op = "mark" /\ rest.provider = q
      /\ rest.inBoundary = inside
  BY RegistryAssumption DEF Unfinished
<1> HIDE DEF rest
<1>2. RegistryTypes'
  <2>1. /\ Marked(rows[q], inside) \in Backend \cup {None}
        /\ Marked(word[q], inside) \in Backend \cup {None}
    BY <1>0, MarkedType DEF RegistryTypes
  <2> QED BY <1>0, <1>1, <2>1 DEF RegistryTypes
<1>3. \A p \in Providers : Removing(p)' <=> Removing(p)
  BY <1>0, <1>2, RemovalsChange
<1>4. ASSUME NEW p \in Providers \ lost' PROVE WordKept(p)'
  <2>0. p \notin lost /\ WordKept(p) /\ ~Writing(p)
    BY <1>0, <1>4 DEF RegistryInv, Writing, LoopFree
  <2>1. CASE p = q
    <3>1. ~Removing(p) /\ ~Removing(p)'
      BY <1>0, <1>3, <1>4, <2>1
    <3>2. /\ live[p] = word[p]
          /\ rows[p] = word[p] \/ (p \in BuiltIn /\ rows[p] = None)
      BY <2>0, <3>1 DEF WordKept, Saving
    <3>3. /\ word'[p] = Marked(word[p], inside) /\ rows'[p] = Marked(rows[p], inside)
      BY <1>0, <2>1 DEF RegistryTypes
    <3>4. Marked(None, inside) = None
      BY DEF Marked
    <3>5. Writing(p)' /\ ~Saving(p)' /\ loop'.inBoundary = inside
      BY <1>0, <1>1, <2>1 DEF Writing, Saving, LoopFree
    <3> QED BY <1>0, <3>1, <3>2, <3>3, <3>4, <3>5 DEF WordKept
  <2>2. CASE p # q
    <3>1. rows'[p] = rows[p] /\ word'[p] = word[p]
      BY <1>0, <2>2 DEF RegistryTypes
    <3>2. ~Writing(p)'
      BY <1>0, <1>1, <2>2 DEF Writing
    <3> QED BY <1>0, <1>3, <2>0, <3>1, <3>2, WordFrame
  <2> QED BY <2>1, <2>2
<1> QED BY <1>2, <1>4 DEF RegistryInv

LEMMA MarkLiveKept ==
  ASSUME RegistryInv, MarkLive
  PROVE  RegistryInv'
<1> DEFINE q == loop.provider
<1>0. RegistryTypes /\ loop # None /\ loop.op = "mark" /\ loop' = None /\ pool' = pool
      /\ UNCHANGED <<rows, editing, word, lost>>
  BY DEF MarkLive, LoopEnds, LoopFree, RegistryInv
<1>1. q \in Providers /\ loop.inBoundary \in BOOLEAN
  BY <1>0 DEF RegistryTypes, Unfinished
<1>2. live' = [live EXCEPT ![q] = Marked(@, loop.inBoundary)]
  <2>1. live' = IF live[q] = None THEN live
                ELSE [live EXCEPT ![q].inBoundary = loop.inBoundary]
    BY DEF MarkLive
  <2> QED BY <1>0, <1>1, <2>1 DEF RegistryTypes, Marked
<1>3. /\ Marked(live[q], loop.inBoundary) \in Backend \cup {None}
      /\ Marked(live[q], loop.inBoundary) = None <=> live[q] = None
  BY <1>0, <1>1, MarkedType DEF RegistryTypes
<1>4. RegistryTypes'
  <2>1. live' \in [Providers -> Backend \cup {None}]
    BY <1>0, <1>1, <1>2, <1>3 DEF RegistryTypes
  <2>2. \A p \in Providers : live'[p] = None <=> live[p] = None
    BY <1>0, <1>1, <1>2, <1>3 DEF RegistryTypes
  <2>3. \A c \in Clients : EditOK(editing[c], live')
    BY <1>0, <2>2 DEF RegistryTypes, EditOK
  <2> QED BY <1>0, <2>1, <2>3 DEF RegistryTypes
<1>5. \A p \in Providers : Removing(p)' <=> Removing(p)
  BY <1>0, <1>4, RemovalsChange
<1>6. ASSUME NEW p \in Providers \ lost' PROVE WordKept(p)'
  <2>0. p \notin lost /\ WordKept(p) /\ ~Writing(p)'
    BY <1>0, <1>6 DEF RegistryInv, Writing, LoopFree
  <2>1. CASE p = q
    <3>1. Writing(p) /\ ~Saving(p)
      BY <1>0, <2>1 DEF Writing, Saving, LoopFree
    <3>2. ~Removing(p) /\ word[p] = Marked(live[p], loop.inBoundary)
          /\ (rows[p] = word[p] \/ (p \in BuiltIn /\ rows[p] = None))
      BY <2>0, <3>1 DEF WordKept
    <3>3. live'[p] = word[p]
      BY <1>0, <1>2, <2>1, <3>2 DEF RegistryTypes
    <3> QED BY <1>0, <1>5, <2>0, <3>2, <3>3 DEF WordKept, Saving
  <2>2. CASE p # q
    <3>1. live'[p] = live[p] /\ ~Writing(p)
      BY <1>0, <1>2, <2>2 DEF RegistryTypes, Writing
    <3> QED BY <1>0, <1>5, <2>0, <3>1, WordFrame
  <2> QED BY <2>1, <2>2
<1> QED BY <1>4, <1>6 DEF RegistryInv

LEMMA RemoveKept ==
  ASSUME RegistryInv, NEW w \in Workers, NEW q \in Providers, RemoveLive(w, q)
  PROVE  RegistryInv'
<1> DEFINE rest == [op |-> "remove", provider |-> q]
<1>0. /\ RegistryTypes /\ Idle(w) /\ loop' = loop /\ rows' = rows
      /\ pool' = [pool EXCEPT ![w] = [op |-> "remove", provider |-> q]]
      /\ live' = [live EXCEPT ![q] = None] /\ word' = [word EXCEPT ![q] = None]
      /\ editing' = Detached(editing, q)
      /\ lost' = IF Writing(q) THEN lost \cup {q} ELSE lost
  BY DEF RemoveLive, WorkerBegins, RegistryInv, Note
<1>1. rest \in Unfinished
  BY DEF Unfinished
<1>2. RegistryTypes'
  <2>1. \A c \in Clients : EditOK(editing'[c], live')
    BY <1>0, DetachedEdits DEF RegistryTypes
  <2>2. DOMAIN editing' = Clients
    BY <1>0 DEF Detached
  <2> HIDE DEF rest
  <2>3. pool' = [pool EXCEPT ![w] = rest]
    BY <1>0 DEF rest
  <2> QED BY <1>0, <1>1, <2>1, <2>2, <2>3 DEF RegistryTypes
<1>3. \A p \in Providers : Removing(p)' <=> Removing(p) \/ p = q
  BY <1>0, <1>2, RemovalsChange
<1>4. ASSUME NEW p \in Providers \ lost' PROVE WordKept(p)'
  <2>0. p \notin lost /\ WordKept(p) /\ (Writing(p)' <=> Writing(p))
    BY <1>0, <1>4 DEF RegistryInv, Writing, LoopFree
  <2>1. CASE p = q
    <3>1. ~Writing(p)' /\ Removing(p)'
      BY <1>0, <1>3, <1>4, <2>0, <2>1
    <3>2. live'[p] = None /\ word'[p] = None
      BY <1>0, <2>1 DEF RegistryTypes
    <3> QED BY <3>1, <3>2 DEF WordKept, Saving
  <2>2. CASE p # q
    <3>1. live'[p] = live[p] /\ word'[p] = word[p] /\ (Removing(p)' <=> Removing(p))
      BY <1>0, <1>3, <2>2 DEF RegistryTypes
    <3> QED BY <1>0, <2>0, <3>1, WordFrame
  <2> QED BY <2>1, <2>2
<1> QED BY <1>2, <1>4 DEF RegistryInv

LEMMA DeleteKept ==
  ASSUME RegistryInv, NEW w \in Workers, DeleteRow(w)
  PROVE  RegistryInv'
<1> DEFINE q == pool[w].provider
<1>0. /\ RegistryTypes /\ Removes(w, q) /\ loop' = loop
      /\ pool' = [pool EXCEPT ![w] = None] /\ rows' = [rows EXCEPT ![q] = None]
      /\ UNCHANGED <<live, editing, word, lost>>
  BY DEF DeleteRow, WorkerEnds, Idle, RegistryInv, Removes
<1>1. q \in Providers
  BY <1>0 DEF RegistryTypes, Removes, Unfinished
<1>2. RegistryTypes'
  BY <1>0, <1>1 DEF RegistryTypes
<1>3. \A p \in Providers : /\ Removing(p)' => Removing(p)
                           /\ ~Removes(w, p) => (Removing(p)' <=> Removing(p))
  BY <1>0, <1>2, RemovalsChange
<1>4. ASSUME NEW p \in Providers \ lost PROVE WordKept(p)'
  <2>0. WordKept(p) /\ (Writing(p)' <=> Writing(p))
    BY <1>0, <1>4 DEF RegistryInv, Writing, LoopFree
  <2>1. CASE p = q
    <3>1. Removing(p)
      BY <1>0, <2>1, RemovingIs DEF RegistryTypes
    <3>2. live[p] = None /\ word[p] = None /\ ~Writing(p)
      BY <2>0, <3>1 DEF WordKept
    <3>3. rows'[p] = None
      BY <1>0, <2>1 DEF RegistryTypes
    <3> QED BY <1>0, <2>0, <3>2, <3>3 DEF WordKept, Saving
  <2>2. CASE p # q
    <3>1. rows'[p] = rows[p] /\ ~Removes(w, p)
      BY <1>0, <2>2 DEF RegistryTypes, Removes
    <3> QED BY <1>0, <1>3, <2>0, <3>1, WordFrame
  <2> QED BY <2>1, <2>2
<1> QED BY <1>0, <1>2, <1>4 DEF RegistryInv

\* A registry that has just been built has no word of its own.
LEMMA RestartKept ==
  ASSUME RegistryInv, HandlersRestart, RegistryRestart
  PROVE  RegistryInv'
<1>0. /\ RegistryTypes /\ loop' = None /\ pool' = [w \in Workers |-> None]
      /\ live' = Boot(rows) /\ editing' = [c \in Clients |-> None] /\ rows' = rows
      /\ lost' = {}
      /\ word' = [p \in Providers |->
                    IF \/ p \in lost \/ Writing(p) \/ Removing(p)
                       \/ p \in BuiltIn /\ rows[p] = None
                    THEN live'[p] ELSE word[p]]
  BY DEF HandlersRestart, RegistryRestart, RegistryInv
<1>1. live' \in [Providers -> Backend \cup {None}]
  BY <1>0, RegistryAssumption DEF Boot, BuiltIn, RegistryTypes
<1>2. RegistryTypes'
  BY <1>0, <1>1 DEF RegistryTypes, EditOK
<1>3. ASSUME NEW p \in Providers PROVE ~Writing(p)' /\ ~Removing(p)'
  <2>1. ~Writing(p)'
    BY <1>0 DEF Writing, LoopFree
  <2>2. ~Removing(p)'
    BY <1>0 DEF Removing, Running
  <2> QED BY <2>1, <2>2
<1>4. ASSUME NEW p \in Providers PROVE WordKept(p)'
  <2>1. CASE p \in lost \/ Writing(p) \/ Removing(p) \/ (p \in BuiltIn /\ rows[p] = None)
    <3>1. live'[p] = word'[p]
      BY <1>0, <2>1
    <3>2. rows[p] = live'[p] \/ (p \in BuiltIn /\ rows[p] = None)
      BY <1>0 DEF Boot
    <3> QED BY <1>0, <1>3, <3>1, <3>2 DEF WordKept, Saving
  <2>2. CASE ~(p \in lost \/ Writing(p) \/ Removing(p) \/ (p \in BuiltIn /\ rows[p] = None))
    <3>1. word'[p] = word[p] /\ rows[p] = word[p]
      BY <1>0, <2>2 DEF RegistryInv, WordKept, Saving
    <3>2. live'[p] = rows[p]
      BY <1>0, <2>2 DEF Boot
    <3> QED BY <1>0, <1>3, <3>1, <3>2 DEF WordKept, Saving
  <2> QED BY <2>1, <2>2
<1> QED BY <1>2, <1>4 DEF RegistryInv

LEMMA RegistryStep == PolicyInv /\ RegistryInv /\ [Next]_vars => RegistryInv'
<1> SUFFICES ASSUME PolicyInv, RegistryInv, [Next]_vars PROVE RegistryInv'
  OBVIOUS
<1>1. CASE RegistryNext
  BY <1>1, RegisterKept, SaveKept, EditBeginsKept, UpdateKept, SetBoundaryKept,
     MarkLiveKept, RemoveKept, DeleteKept DEF RegistryNext
<1>2. CASE PolicyNext /\ UNCHANGED registryVars
  <2>1. ASSUME pool' = pool, ~Busy, loop' = None \/ loop'.op = "edit"
        PROVE  RegistryInv'
    BY <1>2, <2>1, RegistryKept DEF RegistryInv, RegistryTypes, Busy
  <2>2. ASSUME NEW w \in Workers, Idle(w) \/ pool[w].op = "toggle", NEW rest,
               rest = None \/ rest.op = "toggle",
               pool' = [pool EXCEPT ![w] = rest], loop' = loop
        PROVE  RegistryInv'
    <3>1. DOMAIN pool' = Workers /\ \A v \in Workers \ {w} : pool'[v] = pool[v]
      BY <2>2 DEF RegistryInv, RegistryTypes
    <3>2. pool'[w] = rest
      BY <2>2 DEF RegistryInv, RegistryTypes
    <3> QED BY <1>2, <2>2, <3>1, <3>2, RegistryKept DEF Idle
  <2>3. ASSUME NEW rule \in Rules, CreatePolicy(rule) PROVE RegistryInv'
    BY <2>1, <2>3 DEF CreatePolicy, LoopBegins, LoopFree, Busy
  <2>4. ASSUME NEW i \in DOMAIN policies, NEW fields \in Edits, EditReads(i, fields)
        PROVE  RegistryInv'
    <3>1. loop'.op = "edit" /\ loop = None /\ pool' = pool
      BY <2>4 DEF EditReads, LoopBegins, LoopFree
    <3> QED BY <2>1, <3>1 DEF Busy
  <2>5. CASE EditWrites
    BY <2>1, <2>5 DEF EditWrites, LoopEnds, Busy
  <2>6. ASSUME NEW w \in Workers, NEW i \in DOMAIN policies, ToggleReads(w, i)
        PROVE  RegistryInv'
    <3> DEFINE rest == [op |-> "toggle", policy |-> i, was |-> policies[i].enabled]
    <3>1. Idle(w) /\ pool' = [pool EXCEPT ![w] = rest] /\ loop' = loop
      BY <2>6 DEF ToggleReads, WorkerBegins
    <3>2. rest.op = "toggle"
      OBVIOUS
    <3> HIDE DEF rest
    <3> QED BY <2>2, <3>1, <3>2
  <2>7. ASSUME NEW w \in Workers, ToggleWrites(w) PROVE RegistryInv'
    BY <2>2, <2>7 DEF ToggleWrites, WorkerEnds
  <2> QED BY <1>2, <2>3, <2>4, <2>5, <2>6, <2>7 DEF PolicyNext
<1>3. CASE ConfigNext /\ UNCHANGED registryVars
  <2>1. ~Busy /\ pool' = pool /\ (loop' = None \/ loop'.op = "configure")
    <3>1. ASSUME NEW u \in ConfigUpdates, PutKey(u)
          PROVE  loop = None /\ pool' = pool /\ loop'.op = "configure"
      BY <3>1 DEF PutKey, LoopBegins, LoopFree
    <3>2. CASE PutRows \/ PutRowsFails
      BY <3>2 DEF PutRows, PutRowsFails, LoopEnds, Busy
    <3> QED BY <1>3, <3>1, <3>2 DEF ConfigNext, Busy
  <2> QED BY <1>3, <2>1, RegistryKept DEF RegistryInv, RegistryTypes, Busy
<1>4. CASE Restart
  BY <1>4, RestartKept DEF Restart
<1>5. CASE UNCHANGED vars
  BY <1>5, RegistryKept DEF vars, handlerVars, RegistryInv, RegistryTypes
<1> QED BY <1>1, <1>2, <1>3, <1>4, <1>5 DEF Next

LEMMA RegistryStarts == Init => RegistryInv
<1> SUFFICES ASSUME Init PROVE RegistryInv
  OBVIOUS
<1>0. /\ loop = None /\ pool = [w \in Workers |-> None]
      /\ rows = [p \in Providers |-> None] /\ live = Boot(rows)
      /\ editing = [c \in Clients |-> None] /\ word = live /\ lost = {}
  BY DEF Init, HandlersInit, RegistryInit
<1>1. live \in [Providers -> Backend \cup {None}]
  BY <1>0, RegistryAssumption DEF Boot, BuiltIn
<1>2. RegistryTypes
  BY <1>0, <1>1 DEF RegistryTypes, EditOK
<1>3. ASSUME NEW p \in Providers PROVE WordKept(p)
  <2>1. ~Writing(p) /\ ~Removing(p)
    BY <1>0 DEF Writing, LoopFree, Removing, Running
  <2> QED BY <1>0, <2>1 DEF WordKept, Saving, Boot
<1> QED BY <1>2, <1>3 DEF RegistryInv

LEMMA RegistryAlways == Spec => []RegistryInv
BY RegistryStarts, RegistryStep, PolicyInvariant, PTL DEF Spec

\* LastWordHolds for any number of owners, workers, backends and overlapping
\* requests, failed writes and restarts.
THEOREM LastWordIsKept == Spec => []LastWordHolds
<1>1. RegistryInv => LastWordHolds
  BY DEF RegistryInv, WordKept, Saving, LastWordHolds
<1> QED BY <1>1, RegistryAlways, PTL

-----------------------------------------------------------------------------
(* The whole control plane.                                                *)

LEMMA CallsBounded == Spec => [](calls \in 0..MaxCalls)
<1>1. Init => calls \in 0..MaxCalls
  BY HandlersAssumption DEF Init, HandlersInit
<1>2. calls \in 0..MaxCalls /\ [Next]_vars => (calls \in 0..MaxCalls)'
  <2> SUFFICES ASSUME calls \in 0..MaxCalls, [Next]_vars PROVE calls' \in 0..MaxCalls
    OBVIOUS
  <2>1. Arrive => calls' \in 0..MaxCalls
    BY HandlersAssumption DEF Arrive
  <2>2. PolicyNext => Arrive \/ calls' = calls
    BY DEF PolicyNext, CreatePolicy, EditReads, EditWrites, ToggleReads, ToggleWrites,
           LoopBegins, LoopEnds, WorkerBegins, WorkerEnds
  <2>3. RegistryNext => Arrive \/ calls' = calls
    BY DEF RegistryNext, RegisterBackend, SaveBackend, SaveFails, UpdateReads, UpdateBackend,
           SetBoundary, MarkLive, RemoveLive, DeleteRow,
           LoopBegins, LoopEnds, WorkerBegins, WorkerEnds
  <2>4. ConfigNext => Arrive \/ calls' = calls
    BY DEF ConfigNext, PutKey, PutRows, PutRowsFails, LoopBegins, LoopEnds
  <2>5. Restart \/ UNCHANGED vars => calls' = calls
    BY DEF Restart, HandlersRestart, vars, handlerVars
  <2> QED BY <2>1, <2>2, <2>3, <2>4, <2>5 DEF Next
<1> QED BY <1>1, <1>2, PTL DEF Spec

\* The stores keep their types, and the registry and its table hold what the
\* owner last said of each backend.
THEOREM RegistryStaysSound == Spec => []RegistrySound
<1>1. RegistryInv => RegistryTypeOK
  BY DEF RegistryInv, RegistryTypes, RegistryTypeOK, EditOK
<1>2. PolicyInv => PolicyTypeOK
  BY DEF PolicyInv, PolicyTypeOK, Policy
<1>3. ConfigInv => ConfigTypeOK
  BY DEF ConfigInv
<1> QED BY <1>1, <1>2, <1>3, RegistryAlways, PolicyInvariant, ConfigInvariant,
           CallsBounded, LastWordIsKept, PTL DEF RegistrySound, TypeOK

==============================================================================
