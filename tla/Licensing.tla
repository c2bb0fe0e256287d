------------------------------ MODULE Licensing ------------------------------
(***************************************************************************)
(* Self-host licensing: the vendor's service, which issues signed keys,    *)
(* changes plans and revokes, and the customers' deployments, which verify *)
(* a key offline, refuse inference when it has run out, and may report to  *)
(* the vendor with a heartbeat.                                            *)
(*                                                                         *)
(* Time is counted in days.  A license and its subject are the same value: *)
(* licenses.subject is UNIQUE and ids are uuid4.  The vendor's handlers    *)
(* run on its event loop, revoke in its thread pool; the columns set_plan  *)
(* reads before it writes never change, so each handler is one step.  A    *)
(* heartbeat awaits the vendor: sending, arrival and answer are steps, and *)
(* each may be the last.  A request that arrives after its sender has      *)
(* given up is not told from one that arrived just before.  Nothing in     *)
(* app/ calls heartbeat_once, which the documents promise daily: here      *)
(* anybody may call it at any time.                                        *)
(***************************************************************************)
EXTENDS Null, Integers, FiniteSets

CONSTANTS
  Subjects,          \* people who sign in, and their licenses
  Installs,          \* self-hosted deployments
  Signers,           \* key pairs: the committed dev pair, production pairs
  TrialDays, SubscriptionDays, GraceDays,
  Days,              \* terms an admin may give explicitly
  Enforce,           \* PRECEPTA_LICENSE_ENFORCE
  LastSale, MaxKeys, MaxTime \* bounds: the last day keys are issued, how many
                     \* are, the last day

ASSUME LicensingAssumption ==
  /\ TrialDays \in Nat /\ SubscriptionDays \in Nat /\ GraceDays \in Nat
  /\ Days \subseteq Int \ {0}
  /\ LastSale \in Nat /\ MaxKeys \in Nat /\ MaxTime \in Nat
  /\ Enforce \in BOOLEAN

VARIABLES
  now,
  signer,       \* vendor: the pair that signs
  logins,       \* vendor: who has signed in
  licenses,     \* vendor: each subject's row, or None
  installs,     \* vendor: the last heartbeat of each install, or None
  issued,       \* the keys customers have been given
  token,        \* app_license.token of each install, or None
  trusted,      \* the public key each install verifies with
  server_plan,  \* app_license.server_plan of each install
  beat,         \* the heartbeat each install awaits: None, the request, or the
                \* answer
  granted       \* history: the terms <<subject, last day>> that first sign-ins
                \* and admins have granted

vendor == <<signer, logins, licenses, issued, granted>>
app == <<token, trusted>>
network == <<beat, installs>>
vars == <<now, vendor, app, network, server_plan>>

Plans == {"trial", "subscription"}
Key == [license : Subjects, plan : Plans, expires_at : Int, signed_by : Signers]
License == [plan : Plans, expires_at : Int, revoked : BOOLEAN, token : Key]
Request == [license : Subjects, plan : Plans]
Answer == [license : Subjects, plan : Plans, revoked : BOOLEAN]

ASSUME NoneAssumption == None \notin Key \cup License \cup Request \cup Answer

-----------------------------------------------------------------------------
(* The two computations of a license's state.                              *)

\* core.status, from the vendor's row.
VendorState(row) ==
  CASE now <= row.expires_at -> "active"
    [] row.expires_at < now /\ row.plan # "subscription"
         /\ now <= row.expires_at + GraceDays -> "grace"
    [] OTHER -> "expired"

\* Mutant: a trial's grace has no end.
KeyState_EndlessGrace(key) ==
  CASE now <= key.expires_at -> "active"
    [] key.expires_at < now /\ key.plan = "trial" -> "grace"
    [] OTHER -> "expired"

\* licensing.status, from the payload of the key.
KeyState(key) ==
  CASE now <= key.expires_at -> "active"
    [] key.expires_at < now /\ key.plan = "trial"
         /\ now <= key.expires_at + GraceDays -> "grace"
    [] OTHER -> "expired"

\* current: a stored key is verified again at every use.
Licensed(i) == token[i] # None /\ token[i].signed_by = trusted[i]

State(i) == IF Licensed(i) THEN KeyState(token[i]) ELSE "unlicensed"

\* _license_gate lets a request pass.
Serves(i) == Enforce => State(i) \in {"active", "grace"}

-----------------------------------------------------------------------------
Init ==
  /\ now = 0
  /\ signer \in Signers
  /\ logins = {}
  /\ licenses = [s \in Subjects |-> None]
  /\ installs = [i \in Installs |-> None]
  /\ issued = {}
  /\ granted = {}
  /\ token = [i \in Installs |-> None]
  /\ trusted = [i \in Installs |-> signer]
  /\ server_plan = [i \in Installs |-> None]
  /\ beat = [i \in Installs |-> None]

(* The vendor.                                                             *)

\* A key for s is signed, put on file and given to the customer.
Issue(s, plan, days) ==
  LET key == [license |-> s, plan |-> plan, expires_at |-> now + days,
              signed_by |-> signer]
  IN /\ now <= LastSale
     /\ Cardinality(issued \cup {key}) <= MaxKeys
     /\ licenses' = [licenses EXCEPT ![s] =
          [plan |-> plan, expires_at |-> now + days, revoked |-> FALSE, token |-> key]]
     /\ issued' = issued \cup {key}

\* Mutant: every sign-in issues a trial.
Onboard_FreshTrial(s) ==
  /\ logins' = logins \cup {s}
  /\ Issue(s, "trial", TrialDays)
  /\ granted' = IF licenses[s] = None THEN granted \cup {<<s, now + TrialDays>>} ELSE granted
  /\ UNCHANGED <<now, signer, app, network, server_plan>>

\* POST /onboard: the login is recorded; a subject without a license gets a
\* trial, any other its key on file.
Onboard(s) ==
  /\ logins' = logins \cup {s}
  /\ IF licenses[s] = None
     THEN /\ Issue(s, "trial", TrialDays)
          /\ granted' = granted \cup {<<s, now + TrialDays>>}
     ELSE UNCHANGED <<licenses, issued, granted>>
  /\ UNCHANGED <<now, signer, app, network, server_plan>>

\* The service dies after the login is committed, before the license is.
OnboardCutOff(s) ==
  /\ logins' = logins \cup {s}
  /\ UNCHANGED <<now, signer, licenses, issued, granted, app, network, server_plan>>

\* Mutant: the row changes and keeps its old key.
SetPlan_KeepsKey(s, plan, days) ==
  LET term == IF days # 0 THEN days
              ELSE IF plan = "subscription" THEN SubscriptionDays ELSE TrialDays
  IN /\ licenses[s] # None
     /\ now <= LastSale
     /\ licenses' = [licenses EXCEPT ![s] = [@ EXCEPT !.plan = plan,
                                             !.expires_at = now + term, !.revoked = FALSE]]
     /\ granted' = granted \cup {<<s, now + term>>}
     /\ UNCHANGED <<now, signer, logins, issued, app, network, server_plan>>

\* POST /admin/licenses/{id}/plan: days is 0 when the body names none.  A plan
\* change lifts a revocation.
SetPlan(s, plan, days) ==
  LET term == IF days # 0 THEN days
              ELSE IF plan = "subscription" THEN SubscriptionDays ELSE TrialDays
  IN /\ licenses[s] # None
     /\ Issue(s, plan, term)
     /\ granted' = granted \cup {<<s, now + term>>}
     /\ UNCHANGED <<now, signer, logins, app, network, server_plan>>

\* POST /admin/licenses/{id}/revoke.
Revoke(s) ==
  /\ licenses[s] # None
  /\ licenses' = [licenses EXCEPT ![s].revoked = TRUE]
  /\ UNCHANGED <<now, signer, logins, issued, granted, app, network, server_plan>>

\* The vendor starts again with another LICENSE_SIGNING_KEY; rows keep the keys
\* they have on file.
RotateSigner(k) ==
  /\ signer' = k
  /\ UNCHANGED <<now, logins, licenses, issued, granted, app, network, server_plan>>

\* POST /license/heartbeat: record_heartbeat notes the install and answers with
\* the license's state now.  Every key has a row, so the answer for an unknown
\* license does not occur.
Arrive(i) ==
  /\ beat[i] \in Request
  /\ installs' = [installs EXCEPT ![i] = beat[i]]
  /\ LET row == licenses[beat[i].license]
     IN beat' = [beat EXCEPT ![i] =
          [license |-> beat[i].license, plan |-> row.plan, revoked |-> row.revoked]]
  /\ UNCHANGED <<now, vendor, app, server_plan>>

(* A deployment.                                                           *)

\* POST /v1/license/activate: a key the install verifies replaces the stored
\* one, whichever is newer; any other is refused and changes nothing.
Activate(i, key) ==
  /\ key \in issued
  /\ key.signed_by = trusted[i]
  /\ token' = [token EXCEPT ![i] = key]
  /\ UNCHANGED <<now, vendor, trusted, network, server_plan>>

\* heartbeat_once up to its await: the body names the key stored now.
SendHeartbeat(i) ==
  /\ Licensed(i)
  /\ beat[i] = None
  /\ beat' = [beat EXCEPT ![i] = [license |-> token[i].license, plan |-> token[i].plan]]
  /\ UNCHANGED <<now, vendor, app, installs, server_plan>>

\* Mutant: a revocation removes the stored key, whichever license it names.
ReceiveReply_DropsKey(i) ==
  /\ beat[i] \in Answer
  /\ server_plan' = [server_plan EXCEPT ![i] = beat[i].plan]
  /\ token' = IF beat[i].revoked THEN [token EXCEPT ![i] = None] ELSE token
  /\ beat' = [beat EXCEPT ![i] = None]
  /\ UNCHANGED <<now, vendor, trusted, installs>>

\* The answer arrives and record_heartbeat_result stores its plan, whatever
\* key is stored by now; `revoked` is not looked at.
ReceiveReply(i) ==
  /\ beat[i] \in Answer
  /\ server_plan' = [server_plan EXCEPT ![i] = beat[i].plan]
  /\ beat' = [beat EXCEPT ![i] = None]
  /\ UNCHANGED <<now, vendor, app, installs>>

\* The call times out, the connection breaks, or the body is no JSON: fail-soft.
HeartbeatFails(i) ==
  /\ beat[i] # None
  /\ beat' = [beat EXCEPT ![i] = None]
  /\ UNCHANGED <<now, vendor, app, installs, server_plan>>

\* A JSON body without a plan (an error of the service or of a proxy) is stored
\* as no plan.
HeartbeatRefused(i) ==
  /\ beat[i] # None
  /\ server_plan' = [server_plan EXCEPT ![i] = None]
  /\ beat' = [beat EXCEPT ![i] = None]
  /\ UNCHANGED <<now, vendor, app, installs>>

\* The container starts again, perhaps with another PRECEPTA_LICENSE_PUBLIC_KEY.
Redeploy(i, k) ==
  /\ trusted' = [trusted EXCEPT ![i] = k]
  /\ beat' = [beat EXCEPT ![i] = None]
  /\ UNCHANGED <<now, vendor, token, installs, server_plan>>

Tick ==
  /\ now < MaxTime
  /\ now' = now + 1
  /\ UNCHANGED <<vendor, app, network, server_plan>>

Vendor ==
  \/ \E s \in Subjects : Onboard(s) \/ OnboardCutOff(s) \/ Revoke(s)
  \/ \E s \in Subjects, plan \in Plans, days \in Days \cup {0} : SetPlan(s, plan, days)
  \/ \E k \in Signers : RotateSigner(k)
  \/ \E i \in Installs : Arrive(i)

Deployment(i) ==
  \/ \E key \in issued : Activate(i, key)
  \/ SendHeartbeat(i) \/ ReceiveReply(i) \/ HeartbeatFails(i) \/ HeartbeatRefused(i)
  \/ \E k \in Signers : Redeploy(i, k)

Next == Vendor \/ (\E i \in Installs : Deployment(i)) \/ Tick

Spec == Init /\ [][Next]_vars

\* Days pass; nobody is obliged to do anything.
FairSpec == Spec /\ WF_vars(Tick)

-----------------------------------------------------------------------------
(* Properties.                                                             *)

\* The types of the vendor's tables, the deployments' rows and the network.
TypeOK ==
  /\ now \in 0..MaxTime
  /\ signer \in Signers
  /\ logins \subseteq Subjects
  /\ licenses \in [Subjects -> License \cup {None}]
  /\ installs \in [Installs -> Request \cup {None}]
  /\ issued \subseteq Key
  /\ granted \subseteq Subjects \X Int
  /\ token \in [Installs -> Key \cup {None}]
  /\ trusted \in [Installs -> Signers]
  /\ server_plan \in [Installs -> Plans \cup {None}]
  /\ beat \in [Installs -> Request \cup Answer \cup {None}]

\* A deployment that holds the key the vendor has on file, and trusts its
\* signer, is offline in the same state as the vendor's row says, at every
\* moment of the term and its grace: a re-issued key clears the block.
StatesAgree ==
  \A i \in Installs :
    Licensed(i) /\ licenses[token[i].license].token = token[i]
      => State(i) = VendorState(licenses[token[i].license])

\* Signing in again never extends a license: every key in a customer's hands,
\* re-issued and rotated ones included, ends with a term that the subject's
\* first sign-in or an admin has granted to that very subject.
OneTrial == \A key \in issued : <<key.license, key.expires_at>> \in granted

\* A deployment that serves never stops for a ping that fails, is refused, or
\* answers for a license it no longer runs on (the answer is handled after an
\* await), nor for anything the vendor alone does.  It stops when its term has
\* passed, when its owner activates another key or changes the key it trusts;
\* whether it should stop when it hears that its own license is revoked is
\* left to RevocationEnforced.
StopsHaveCause ==
  [][\A i \in Installs :
       Serves(i) /\ ~Serves(i)'
         => \/ Tick
            \/ \E key \in issued : Activate(i, key)
            \/ \E k \in Signers : Redeploy(i, k)
            \/ /\ ReceiveReply(i)
               /\ beat[i].revoked /\ beat[i].license = token[i].license]_vars

\* Once the vendor sells no more keys, every deployment that enforces its
\* license ends read-only, whichever of its keys it activates.
EndsReadOnly == \A i \in Installs : Enforce => <>[]~Serves(i)

\* What the vendor's test expects of the client (tests/test_licensing_e2e.py:62:
\* "client enforces in P17"): a deployment that hears that the license it runs
\* on is revoked stops serving.  heartbeat_once does not look at `revoked`.
RevocationEnforced ==
  [][\A i \in Installs :
       ReceiveReply(i) /\ beat[i].revoked
         /\ token[i] # None /\ token[i].license = beat[i].license
         => ~Serves(i)']_vars

\* Every stored row, key and heartbeat is well formed, and none of the keys in a
\* customer's hands carries a term nobody granted, however often its subject
\* signs in and the vendor rotates its signing key.
KeysSound == TypeOK /\ OneTrial
=============================================================================
