----------------------------- MODULE MCAdmission -----------------------------
(* One instance of what stands in front of the gateway: the license of the  *)
(* installation and the caller's key.  The two share no state, so each      *)
(* moves while the other has not begun: mixing their steps would only       *)
(* multiply the states of one by those of the other.                        *)
EXTENDS MCKeyedRequests, MCLicensing

\* Which pair the vendor signs with is no matter to the callers.
OneSigner == signer = CHOOSE k \in Signers : TRUE

AdmissionInit == KeyedInit /\ Init

AdmissionNext ==
  \/ Init /\ OneSigner /\ KeyedNext /\ UNCHANGED vars
  \/ KeyedInit /\ Next /\ UNCHANGED keyedVars

\* The fairness of Licensing: days pass.
AdmissionSpec ==
  /\ AdmissionInit
  /\ [][AdmissionNext]_<<vars, keyedVars>>
  /\ WF_<<vars, keyedVars>>(KeyedInit /\ Tick /\ UNCHANGED keyedVars)
=============================================================================
