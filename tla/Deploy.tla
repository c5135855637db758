------------------------------- MODULE Deploy -------------------------------
(***************************************************************************)
(* Deploying one Instance to Kubernetes: the background pipeline and its   *)
(* DeployRecord (services/deploy_service.py), cancellation (api/v1/        *)
(* deploy.py), restart (services/instance_restart.py) and the lifecycle    *)
(* endpoints that share the Instance row and the per-instance namespace    *)
(* with it (api/v1/instances.py).                                          *)
(*                                                                         *)
(* A pipeline is an asyncio task; an action is its code between two        *)
(* awaits of the cluster or the database.  Steps 2 to 7, which create      *)
(* resources in the same namespace, are one action: what they leave behind *)
(* when one of them fails is removed with the namespace.                   *)
(***************************************************************************)
EXTENDS Naturals, FiniteSets

CONSTANTS
    Deploys,    \* identities of DeployRecords (and of their pipelines)
    Requests,   \* concurrent requests
    Ops,        \* which endpoints are called
    Faults      \* which kinds of failure may happen

AllOps == {"deploy", "restart", "start", "stop", "fail", "delete", "cancel"}
ASSUME OpsAssumption == Ops \subseteq AllOps

VARIABLES
    inst,       \* committed Instance.status
    deleted,    \* Instance.deleted_at is set
    rec,        \* committed DeployRecord.status, or "absent"
    pipe,       \* where each pipeline is
    registry,   \* keys of _TASK_REGISTRY
    k8s,        \* the namespace of the Instance
    req         \* each request: where it is, and the records it has read

vars == <<inst, deleted, rec, pipe, registry, k8s, req>>

InstanceStatus ==
    {"creating", "pending", "deploying", "running", "failed", "deleting"}
DeployStatus == {"absent", "running", "success", "failed", "cancelled"}
\* absent: no namespace.  empty: no Deployment in it.  down, up: a
\* Deployment with 0 replicas, or with the wanted replicas.
Namespace == {"absent", "empty", "down", "up"}
\* created: the task exists and has not run yet.
Started == {"gateway", "namespace", "resources", "watch", "ready", "success",
            "failing", "teardown"}
PipePC == {"none", "created", "ended"} \cup Started
RequestPC ==
    {"none", "deploy_insert", "stop_scale", "restart_scale",
     "restart_commit", "restart_read", "restart_insert",
     "delete_scale", "delete_commit", "delete_teardown",
     "cancel_commit", "cancel_teardown"}

NoOp == [pc |-> "none", about |-> {}]
Running(d) == pipe[d] \in Started \cup {"created"}
Existing == {d \in Deploys : rec[d] # "absent"}

----------------------------------------------------------------------------
Init ==
    /\ inst = "creating"
    /\ deleted = FALSE
    /\ rec = [d \in Deploys |-> "absent"]
    /\ pipe = [d \in Deploys |-> "none"]
    /\ registry = {}
    /\ k8s = "absent"
    /\ req = [r \in Requests |-> NoOp]

\* scale_deployment on whatever is there; the callers swallow its failure.
Scaled(n) == IF k8s \in {"up", "down"} THEN n ELSE k8s
ScaleDown == k8s' = Scaled("down") \/ ("scale" \in Faults /\ k8s' = k8s)

----------------------------------------------------------------------------
\* Faulty variants of the definitions below, for the mutation runs.

Goto(d, pc) == pipe' = [pipe EXCEPT ![d] = pc]

\* The pipeline waits for readiness without a deadline.
Watch_NoDeadline(d) ==
    /\ pipe[d] = "watch"
    /\ \/ k8s = "up" /\ Goto(d, "ready")
       \/ k8s = "absent" /\ Goto(d, "failing")
    /\ UNCHANGED <<inst, deleted, rec, registry, k8s, req>>

\* A failed deploy is recorded but the Instance is not marked failed.
Fail_RecordOnly(d) ==
    /\ pipe[d] = "failing"
    /\ rec' = [rec EXCEPT ![d] = "failed"]
    /\ Goto(d, "teardown")
    /\ UNCHANGED <<inst, deleted, registry, k8s, req>>

\* The gateway error path forgets to unregister the task.
GatewayRaises_KeepsTask(d) ==
    /\ "gateway" \in Faults
    /\ pipe[d] = "gateway"
    /\ Goto(d, "ended")
    /\ UNCHANGED <<inst, deleted, rec, registry, k8s, req>>

\* The pipeline does not overwrite the status of an Instance that was stopped.
MarkRunning_UnlessStopped(d) ==
    /\ pipe[d] = "ready"
    /\ inst' = IF deleted \/ inst = "pending" THEN inst ELSE "running"
    /\ Goto(d, "success")
    /\ UNCHANGED <<deleted, rec, registry, k8s, req>>

----------------------------------------------------------------------------
\* The pipeline.

\* The task created by an endpoint runs for the first time.
PipelineStart(d) ==
    /\ pipe[d] = "created"
    /\ Goto(d, "gateway")
    /\ registry' = registry \cup {d}
    /\ UNCHANGED <<inst, deleted, rec, k8s, req>>

Gateway(d) ==
    /\ pipe[d] = "gateway"
    /\ Goto(d, "namespace")
    /\ UNCHANGED <<inst, deleted, rec, registry, k8s, req>>

\* get_gateway_client raises: it is awaited before the try block.
GatewayRaises(d) ==
    /\ "gateway" \in Faults
    /\ pipe[d] = "gateway"
    /\ Goto(d, "ended")
    /\ registry' = registry \ {d}
    /\ UNCHANGED <<inst, deleted, rec, k8s, req>>

EnsureNamespace(d) ==
    /\ pipe[d] = "namespace"
    /\ k8s' = IF k8s = "absent" THEN "empty" ELSE k8s
    /\ Goto(d, "resources")
    /\ UNCHANGED <<inst, deleted, rec, registry, req>>

\* Steps 2 to 7, ending with the Deployment scaled to the wanted replicas.
\* Without the namespace the first of them raises.
CreateResources(d) ==
    /\ pipe[d] = "resources"
    /\ IF k8s = "absent" THEN Goto(d, "failing") /\ UNCHANGED k8s
                         ELSE Goto(d, "watch") /\ k8s' = "up"
    /\ UNCHANGED <<inst, deleted, rec, registry, req>>

\* Step 8: poll until the replicas are ready, the read fails, an image
\* cannot be pulled, or DEPLOY_PIPELINE_TIMEOUT_SECONDS have passed.
Watch(d) ==
    /\ pipe[d] = "watch"
    /\ \/ k8s = "up" /\ Goto(d, "ready")
       \/ Goto(d, "failing")
    /\ UNCHANGED <<inst, deleted, rec, registry, k8s, req>>

\* _run_post_ready_instance_steps
MarkRunning(d) ==
    /\ pipe[d] = "ready"
    /\ inst' = IF deleted THEN inst ELSE "running"
    /\ Goto(d, "success")
    /\ UNCHANGED <<deleted, rec, registry, k8s, req>>

\* Step 9, and the end of the task.
MarkSuccess(d) ==
    /\ pipe[d] = "success"
    /\ rec' = [rec EXCEPT ![d] = "success"]
    /\ Goto(d, "ended")
    /\ registry' = registry \ {d}
    /\ UNCHANGED <<inst, deleted, k8s, req>>

\* An exception inside the try block.
StepRaises(d) ==
    /\ "step" \in Faults
    /\ pipe[d] \in {"namespace", "resources", "ready", "success"}
    /\ Goto(d, "failing")
    /\ UNCHANGED <<inst, deleted, rec, registry, k8s, req>>

\* except Exception: record and Instance fail in one transaction.
Fail(d) ==
    /\ pipe[d] = "failing"
    /\ rec' = [rec EXCEPT ![d] = "failed"]
    /\ inst' = IF deleted THEN inst ELSE "failed"
    /\ Goto(d, "teardown")
    /\ UNCHANGED <<deleted, registry, k8s, req>>

\* teardown_instance_namespace, best effort.
DeleteNamespace == k8s' = "absent" \/ ("scale" \in Faults /\ k8s' = k8s)

Teardown(d) ==
    /\ pipe[d] = "teardown"
    /\ DeleteNamespace
    /\ Goto(d, "ended")
    /\ registry' = registry \ {d}
    /\ UNCHANGED <<inst, deleted, rec, req>>

PipelineStep(d) ==
    \/ PipelineStart(d) \/ Gateway(d) \/ EnsureNamespace(d)
    \/ CreateResources(d) \/ Watch(d) \/ MarkRunning(d) \/ MarkSuccess(d)
    \/ Fail(d) \/ Teardown(d)

----------------------------------------------------------------------------
\* The endpoints.

Become(r, pc) == req' = [req EXCEPT ![r] = [pc |-> pc, about |-> req[r].about]]
Call(r, op) == op \in Ops /\ req[r].pc = "none"

\* Bound: as many deploys and restarts at a time as there are records left.
Room ==
    Cardinality({r \in Requests :
        req[r].pc \in {"deploy_insert", "restart_scale", "restart_commit",
                       "restart_read", "restart_insert"}})
      < Cardinality(Deploys \ Existing)

\* _next_deploy_revision: the revision after those of the records it sees.
NextRevision(r, pc) == req' = [req EXCEPT ![r] = [pc |-> pc, about |-> Existing]]

\* The unique index on the revision refuses the insert of a request that
\* another one has overtaken since it read the revisions.
Overtaken(r) == req[r].about # Existing

\* deploy_existing_instance inserts and commits a record in status running.
NewRecord(d) == rec[d] = "absent" /\ rec' = [rec EXCEPT ![d] = "running"]
NewPipeline(d) == pipe' = [pipe EXCEPT ![d] = "created"]

\* Neither the insert nor the restart looks again whether the Instance has
\* been deleted: the session keeps the row it loaded for the first check.
DeployCall(r) ==
    /\ Call(r, "deploy") /\ Room
    /\ ~deleted
    /\ NextRevision(r, "deploy_insert")
    /\ UNCHANGED <<inst, deleted, rec, pipe, registry, k8s>>

DeployInsert(r) ==
    /\ req[r].pc = "deploy_insert"
    /\ \/ /\ ~Overtaken(r)
          /\ \E d \in Deploys : NewRecord(d) /\ NewPipeline(d)
       \/ /\ Overtaken(r) \/ "kickoff" \in Faults
          /\ UNCHANGED <<rec, pipe>>
    /\ req' = [req EXCEPT ![r] = NoOp]
    /\ UNCHANGED <<inst, deleted, registry, k8s>>

\* _transition with FOR UPDATE, for start, stop and fail.
StartCall(r) ==
    /\ Call(r, "start")
    /\ ~deleted /\ inst \in {"pending", "deploying"}
    /\ inst' = "running"
    /\ UNCHANGED <<deleted, rec, pipe, registry, k8s, req>>

FailCall(r) ==
    /\ Call(r, "fail")
    /\ ~deleted
    /\ inst' = "failed"
    /\ UNCHANGED <<deleted, rec, pipe, registry, k8s, req>>

StopCall(r) ==
    /\ Call(r, "stop")
    /\ ~deleted /\ inst = "running"
    /\ inst' = "pending"
    /\ Become(r, "stop_scale")
    /\ UNCHANGED <<deleted, rec, pipe, registry, k8s>>

StopScale(r) ==
    /\ req[r].pc = "stop_scale"
    /\ ScaleDown
    /\ req' = [req EXCEPT ![r] = NoOp]
    /\ UNCHANGED <<inst, deleted, rec, pipe, registry>>

\* restart_instance_runtime
RestartCall(r) ==
    /\ Call(r, "restart") /\ Room
    /\ ~deleted
    /\ Become(r, IF inst = "running" THEN "restart_scale" ELSE "restart_commit")
    /\ UNCHANGED <<inst, deleted, rec, pipe, registry, k8s>>

RestartScale(r) ==
    /\ req[r].pc = "restart_scale"
    /\ ScaleDown
    /\ Become(r, "restart_commit")
    /\ UNCHANGED <<inst, deleted, rec, pipe, registry>>

RestartCommit(r) ==
    /\ req[r].pc = "restart_commit"
    /\ inst' = "deploying"
    /\ Become(r, "restart_read")
    /\ UNCHANGED <<deleted, rec, pipe, registry, k8s>>

RestartRead(r) ==
    /\ req[r].pc = "restart_read"
    /\ NextRevision(r, "restart_insert")
    /\ UNCHANGED <<inst, deleted, rec, pipe, registry, k8s>>

RestartInsert(r) ==
    /\ req[r].pc = "restart_insert"
    /\ ~Overtaken(r)
    /\ \E d \in Deploys : NewRecord(d) /\ NewPipeline(d)
    /\ req' = [req EXCEPT ![r] = NoOp]
    /\ UNCHANGED <<inst, deleted, registry, k8s>>

\* The insert is refused.  The failed flush has deactivated the session, so
\* the handler of the exception raises too, before it marks the Instance.
RestartRefused(r) ==
    /\ req[r].pc = "restart_insert"
    /\ Overtaken(r)
    /\ req' = [req EXCEPT ![r] = NoOp]
    /\ UNCHANGED <<inst, deleted, rec, pipe, registry, k8s>>

\* The kick-off raises after the flush, while it composes the agent bundle
\* or the environment of the pod.  The handler marks the Instance failed, and
\* its commit keeps the flushed record, which has no pipeline.
RestartRaises(r) ==
    /\ "kickoff" \in Faults
    /\ req[r].pc = "restart_insert"
    /\ ~Overtaken(r)
    /\ \E d \in Deploys : NewRecord(d)
    /\ inst' = "failed"
    /\ req' = [req EXCEPT ![r] = NoOp]
    /\ UNCHANGED <<deleted, pipe, registry, k8s>>

\* delete_instance
DeleteCall(r) ==
    /\ Call(r, "delete")
    /\ ~deleted /\ inst # "deleting"
    /\ Become(r, IF inst = "running" THEN "delete_scale" ELSE "delete_commit")
    /\ UNCHANGED <<inst, deleted, rec, pipe, registry, k8s>>

DeleteScale(r) ==
    /\ req[r].pc = "delete_scale"
    /\ ScaleDown
    /\ Become(r, "delete_commit")
    /\ UNCHANGED <<inst, deleted, rec, pipe, registry>>

DeleteCommit(r) ==
    /\ req[r].pc = "delete_commit"
    /\ inst' = "deleting"
    /\ deleted' = TRUE
    /\ Become(r, "delete_teardown")
    /\ UNCHANGED <<rec, pipe, registry, k8s>>

DeleteTeardown(r) ==
    /\ req[r].pc = "delete_teardown"
    /\ DeleteNamespace
    /\ req' = [req EXCEPT ![r] = NoOp]
    /\ UNCHANGED <<inst, deleted, rec, pipe, registry>>

\* cancel_deploy: cancel the task if it is registered (CancelledError is not
\* an Exception, so the pipeline just ends) ...
CancelCall(r) ==
    /\ Call(r, "cancel")
    /\ \E d \in Deploys :
          /\ rec[d] # "absent"
          /\ pipe' = [pipe EXCEPT ![d] = IF d \in registry THEN "ended" ELSE @]
          /\ registry' = registry \ {d}
          /\ req' = [req EXCEPT ![r] = [pc |-> "cancel_commit", about |-> {d}]]
    /\ UNCHANGED <<inst, deleted, rec, k8s>>

\* ... mark the record, whatever its status ...
CancelCommit(r) ==
    /\ req[r].pc = "cancel_commit"
    /\ rec' = [d \in Deploys |-> IF d \in req[r].about THEN "cancelled"
                                                       ELSE rec[d]]
    /\ Become(r, "cancel_teardown")
    /\ UNCHANGED <<inst, deleted, pipe, registry, k8s>>

\* ... and delete the namespace.
CancelTeardown(r) ==
    /\ req[r].pc = "cancel_teardown"
    /\ DeleteNamespace
    /\ req' = [req EXCEPT ![r] = NoOp]
    /\ UNCHANGED <<inst, deleted, rec, pipe, registry>>

RequestStep(r) ==
    \/ DeployInsert(r) \/ StopScale(r)
    \/ RestartScale(r) \/ RestartCommit(r) \/ RestartRead(r)
    \/ RestartInsert(r) \/ RestartRefused(r)
    \/ DeleteScale(r) \/ DeleteCommit(r) \/ DeleteTeardown(r)
    \/ CancelCommit(r) \/ CancelTeardown(r)

RequestCall(r) ==
    \/ DeployCall(r) \/ StartCall(r) \/ FailCall(r) \/ StopCall(r)
    \/ RestartCall(r) \/ DeleteCall(r) \/ CancelCall(r)

\* The backend process dies and starts again: nothing resumes a pipeline.
Crash ==
    /\ "crash" \in Faults
    /\ pipe' = [d \in Deploys |-> IF Running(d) THEN "ended" ELSE pipe[d]]
    /\ registry' = {}
    /\ req' = [r \in Requests |-> NoOp]
    /\ UNCHANGED <<inst, deleted, rec, k8s>>

Next ==
    \/ \E d \in Deploys : PipelineStep(d) \/ GatewayRaises(d) \/ StepRaises(d)
    \/ \E r \in Requests : RequestCall(r) \/ RequestStep(r) \/ RestartRaises(r)
    \/ Crash

Spec == Init /\ [][Next]_vars

\* Tasks that can run are run; the cluster and the database answer, and the
\* watch of step 8 ends at its deadline at the latest.
Fairness ==
    /\ \A d \in Deploys : WF_vars(PipelineStep(d))
    /\ \A r \in Requests : WF_vars(RequestStep(r))

FairSpec == Spec /\ Fairness

----------------------------------------------------------------------------
TypeOK ==
    /\ inst \in InstanceStatus
    /\ deleted \in BOOLEAN
    /\ rec \in [Deploys -> DeployStatus]
    /\ pipe \in [Deploys -> PipePC]
    /\ registry \subseteq Deploys
    /\ k8s \in Namespace
    /\ req \in [Requests -> [pc : RequestPC, about : SUBSET Deploys]]

Quiet ==
    /\ \A d \in Deploys : ~Running(d)
    /\ \A r \in Requests : req[r].pc = "none"

\* A pipeline can be cancelled exactly while it runs: the registry has no
\* entry of a finished task, which cancel_deploy would mistake for a live
\* one, and misses none that has started.
CancellableWhileRunning == registry = {d \in Deploys : pipe[d] \in Started}

\* When everything has come to rest, an Instance whose status is pending has
\* no running pods: no interleaving of stop, restart, cancel and pipelines
\* lets a pipeline scale up behind a stop without changing the status too.
StoppedMeansDown == Quiet /\ inst = "pending" => k8s # "up"

\* Every deploy record leaves the status running.
DeploySettles ==
    \A d \in Deploys : (rec[d] = "running") ~> (rec[d] # "running")

\* A restart does not leave the Instance deploying, not even one that has
\* lost the race for the next revision, unless the Instance is deleted or its
\* deploy is cancelled (cancel_deploy does not touch the Instance).
RestartSettles ==
    (inst = "deploying" /\ ~deleted)
        ~> \/ inst # "deploying" \/ deleted
           \/ \E d \in Deploys : rec[d] = "cancelled"
============================================================================
