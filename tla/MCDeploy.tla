------------------------------ MODULE MCDeploy ------------------------------
(***************************************************************************)
(* Small instances of Deploy for TLC.  A behaviour is calm or it is not:   *)
(* in a calm one two requests overlap freely and nothing fails but the     *)
(* steps of the pipelines; in the others anything may fail, with one       *)
(* request at a time.  RegistryExact of DeployProofs covers their product. *)
(***************************************************************************)
EXTENDS Deploy, TLC

VARIABLE calm

\* A failure that the callers swallow leaves the namespace as it was.
ScaleFailed ==
    /\ k8s' = k8s
    /\ \/ /\ k8s = "up"
          /\ \E r \in Requests : req[r].pc \in {"stop_scale", "restart_scale", "delete_scale"} /\ req'[r] # req[r]
       \/ /\ k8s # "absent"
          /\ \/ \E d \in Deploys : pipe[d] = "teardown" /\ pipe'[d] # pipe[d]
             \/ \E r \in Requests : req[r].pc = "cancel_teardown" /\ req'[r] # req[r]
KickoffFailed ==
    \E r \in Requests : req[r].pc = "deploy_insert" /\ ~Overtaken(r) /\ req'[r] # req[r] /\ rec' = rec
Failure ==
    \/ \E d \in Deploys : GatewayRaises(d)
    \/ \E r \in Requests : RestartRaises(r) \/ FailCall(r)
    \/ ScaleFailed \/ KickoffFailed \/ Crash

OneRequest == \A r, q \in Requests : r = q \/ req'[r].pc = "none" \/ req'[q].pc = "none"

MCInit == Init /\ calm \in BOOLEAN
MCNext == Next /\ UNCHANGED calm /\ IF calm THEN ~Failure ELSE OneRequest

MCSpec == MCInit /\ [][MCNext]_<<vars, calm>> /\ Fairness

\* Calm behaviours: an Instance that rests in status pending has no running pods.
StoppedMeansDownWhenCalm == calm => StoppedMeansDown

\* Calm behaviours: every deploy record leaves the status running.
DeploySettlesWhenCalm == calm => DeploySettles

\* Calm behaviours: a restart does not leave the Instance deploying.
RestartSettlesWhenCalm == calm => RestartSettles
=============================================================================
