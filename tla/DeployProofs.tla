---------------------------- MODULE DeployProofs ----------------------------
(***************************************************************************)
(* Proofs about Deploy, for any number of deploy records, requests and     *)
(* failures: its types, that exactly the pipelines that have started and   *)
(* not ended are registered for cancellation, and, in calm behaviours,     *)
(* that an Instance that rests in status pending has no pods.              *)
(***************************************************************************)
EXTENDS MCDeploy, TLAPS

\* A record that does not exist yet has no pipeline: without it, the next
\* deploy could restart the pipeline of a registered task.
NoRecordNoPipeline == \A d \in Deploys : rec[d] = "absent" => pipe[d] = "none"

IInv == TypeOK /\ NoRecordNoPipeline /\ CancellableWhileRunning

\* The program starts in a state of the invariant.
LEMMA InitIInv == Init => IInv
<1> SUFFICES ASSUME Init PROVE IInv
  OBVIOUS
<1>1. TypeOK
  BY DEF Init, TypeOK, InstanceStatus, DeployStatus, PipePC, Namespace,
         RequestPC, NoOp
<1>2. NoRecordNoPipeline /\ CancellableWhileRunning
  BY DEF Init, NoRecordNoPipeline, CancellableWhileRunning, Started
<1> QED
  BY <1>1, <1>2 DEF IInv

\* A step of a pipeline moves that pipeline on, and its registration with it.
LEMMA PipelineStepIInv ==
    ASSUME IInv, NEW d \in Deploys,
           PipelineStep(d) \/ GatewayRaises(d) \/ StepRaises(d)
    PROVE  IInv'
<1> USE DEF IInv, TypeOK, NoRecordNoPipeline, CancellableWhileRunning,
            InstanceStatus, DeployStatus, PipePC, Started, Namespace, Goto
<1>1. CASE PipelineStart(d)
  BY <1>1 DEF PipelineStart
<1>2. CASE Gateway(d)
  BY <1>2 DEF Gateway
<1>3. CASE EnsureNamespace(d)
  BY <1>3 DEF EnsureNamespace
<1>4. CASE CreateResources(d)
  BY <1>4 DEF CreateResources
<1>5. CASE Watch(d)
  BY <1>5 DEF Watch
<1>6. CASE MarkRunning(d)
  BY <1>6 DEF MarkRunning
<1>7. CASE MarkSuccess(d)
  BY <1>7 DEF MarkSuccess
<1>8. CASE Fail(d)
  BY <1>8 DEF Fail
<1>9. CASE Teardown(d)
  BY <1>9 DEF Teardown, DeleteNamespace
<1>10. CASE GatewayRaises(d)
  BY <1>10 DEF GatewayRaises
<1>11. CASE StepRaises(d)
  BY <1>11 DEF StepRaises
<1> QED
  BY <1>1, <1>2, <1>3, <1>4, <1>5, <1>6, <1>7, <1>8, <1>9, <1>10, <1>11
     DEF PipelineStep

\* What a request without a new record can change.
LEMMA PlainRequestIInv ==
    ASSUME IInv, NEW r \in Requests,
           \/ StartCall(r) \/ FailCall(r) \/ StopCall(r) \/ StopScale(r)
           \/ DeployCall(r) \/ RestartCall(r) \/ RestartScale(r)
           \/ RestartCommit(r) \/ RestartRead(r) \/ RestartRefused(r)
           \/ DeleteCall(r) \/ DeleteScale(r) \/ DeleteCommit(r)
           \/ DeleteTeardown(r) \/ CancelTeardown(r)
    PROVE  IInv'
<1> USE DEF TypeOK, InstanceStatus, Namespace, RequestPC, NoOp, Become
<1>1. UNCHANGED <<rec, pipe, registry>>
  BY DEF StartCall, FailCall, StopCall, StopScale, DeployCall, RestartCall,
         RestartScale, RestartCommit, RestartRead, RestartRefused, DeleteCall,
         DeleteScale, DeleteCommit, DeleteTeardown, CancelTeardown
<1>2. inst' \in InstanceStatus /\ deleted' \in BOOLEAN /\ k8s' \in Namespace
  BY DEF IInv, StartCall, FailCall, StopCall, StopScale, DeployCall,
         RestartCall, RestartScale, RestartCommit, RestartRead, RestartRefused,
         DeleteCall, DeleteScale, DeleteCommit, DeleteTeardown, CancelTeardown,
         ScaleDown, Scaled, DeleteNamespace
<1>3. req' \in [Requests -> [pc : RequestPC, about : SUBSET Deploys]]
  BY DEF IInv, StartCall, FailCall, StopCall, StopScale, DeployCall,
         RestartCall, RestartScale, RestartCommit, RestartRead, RestartRefused,
         DeleteCall, DeleteScale, DeleteCommit, DeleteTeardown, CancelTeardown,
         NextRevision, Existing
<1> QED
  BY <1>1, <1>2, <1>3 DEF IInv, NoRecordNoPipeline, CancellableWhileRunning

\* Inserting a record, with or without a pipeline.
LEMMA InsertIInv ==
    ASSUME IInv, NEW r \in Requests,
           DeployInsert(r) \/ RestartInsert(r) \/ RestartRaises(r)
    PROVE  IInv'
<1> USE DEF IInv, TypeOK, NoRecordNoPipeline, CancellableWhileRunning,
            InstanceStatus, DeployStatus, PipePC, Started, RequestPC, NoOp,
            NewRecord, NewPipeline
<1>1. CASE DeployInsert(r)
  BY <1>1 DEF DeployInsert
<1>2. CASE RestartInsert(r)
  BY <1>2 DEF RestartInsert
<1>3. CASE RestartRaises(r)
  BY <1>3 DEF RestartRaises
<1> QED
  BY <1>1, <1>2, <1>3

\* Cancelling ends the task that it removes from the registry.
LEMMA CancelIInv ==
    ASSUME IInv, NEW r \in Requests, CancelCall(r) \/ CancelCommit(r)
    PROVE  IInv'
<1> USE DEF IInv, TypeOK, NoRecordNoPipeline, CancellableWhileRunning,
            DeployStatus, PipePC, Started, RequestPC
<1>1. CASE CancelCall(r)
  BY <1>1 DEF CancelCall
<1>2. CASE CancelCommit(r)
  BY <1>2 DEF CancelCommit, Become
<1> QED
  BY <1>1, <1>2

\* A crash ends every task and empties the registry.
LEMMA CrashIInv == IInv /\ Crash => IInv'
BY DEF IInv, TypeOK, NoRecordNoPipeline, CancellableWhileRunning, PipePC,
       Started, RequestPC, NoOp, Crash, Running

\* Every step keeps the invariant.
LEMMA NextIInv == IInv /\ [Next]_vars => IInv'
<1> SUFFICES ASSUME IInv, [Next]_vars PROVE IInv'
  OBVIOUS
<1>1. CASE UNCHANGED vars
  BY <1>1 DEF vars, IInv, TypeOK, NoRecordNoPipeline, CancellableWhileRunning
<1>2. ASSUME NEW d \in Deploys,
             PipelineStep(d) \/ GatewayRaises(d) \/ StepRaises(d)
      PROVE  IInv'
  BY <1>2, PipelineStepIInv
<1>3. ASSUME NEW r \in Requests,
             RequestCall(r) \/ RequestStep(r) \/ RestartRaises(r)
      PROVE  IInv'
  BY <1>3, PlainRequestIInv, InsertIInv, CancelIInv
     DEF RequestCall, RequestStep
<1>4. CASE Crash
  BY <1>4, CrashIInv
<1> QED
  BY <1>1, <1>2, <1>3, <1>4 DEF Next

LEMMA AlwaysIInv == Spec => []IInv
BY InitIInv, NextIInv, PTL DEF Spec

\* Every variable keeps its type; in particular the status restarting, which
\* restart_instance_runtime flushes, is never committed.
THEOREM TypeCorrect == Spec => []TypeOK
BY AlwaysIInv, PTL DEF IInv

\* _TASK_REGISTRY holds exactly the pipelines that have started and not
\* ended, however deploys, cancellations, failures and crashes interleave.
THEOREM RegistryExact == Spec => []CancellableWhileRunning
BY AlwaysIInv, PTL DEF IInv

-----------------------------------------------------------------------------
(* Calm behaviours                                                         *)

\* What will change the status of a stopped Instance or take its pods down: a
\* stop or a cancellation on its way to the cluster, or a pipeline that has
\* scaled up and not yet written its outcome.
WillSettle ==
    \/ \E r \in Requests : req[r].pc \in {"stop_scale", "cancel_commit", "cancel_teardown"}
    \/ \E d \in Deploys : pipe[d] \in {"watch", "ready", "failing", "teardown"}

\* Nobody stops a deleted Instance: then a pipeline that ends writes its status.
CalmInv ==
    /\ deleted => inst # "pending"
    /\ calm /\ inst = "pending" /\ k8s = "up" => WillSettle

\* A pipeline that ends changes the status, or the namespace goes with it.
LEMMA CalmPipelineStep ==
    ASSUME IInv, CalmInv, calm' = calm, calm => ~Failure, NEW d \in Deploys,
           PipelineStep(d) \/ GatewayRaises(d) \/ StepRaises(d)
    PROVE  CalmInv'
<1>0. pipe \in [Deploys -> PipePC] /\ req' = req /\ deleted' = deleted
  BY DEF IInv, TypeOK, PipelineStep, PipelineStart, Gateway, EnsureNamespace, CreateResources, Watch, MarkRunning,
         MarkSuccess, Fail, Teardown, GatewayRaises, StepRaises
<1>1. CASE PipelineStart(d) \/ Gateway(d) \/ EnsureNamespace(d) \/ MarkSuccess(d) \/ GatewayRaises(d)
  <2>1. /\ inst' = inst /\ (k8s' = "up" => k8s = "up")
        /\ pipe[d] \notin {"watch", "ready", "failing", "teardown"}
        /\ \A e \in Deploys \ {d} : pipe'[e] = pipe[e]
    BY <1>0, <1>1 DEF PipelineStart, Gateway, EnsureNamespace, MarkSuccess, GatewayRaises, Goto
  <2> QED
    BY <1>0, <2>1 DEF CalmInv, WillSettle
<1>2. CASE CreateResources(d) \/ Watch(d) \/ StepRaises(d)
  <2>1. /\ inst' = inst
        /\ pipe'[d] \in {"watch", "ready", "failing"}
    BY <1>0, <1>2 DEF CreateResources, Watch, StepRaises, Goto
  <2> QED
    BY <1>0, <2>1 DEF CalmInv, WillSettle
<1>3. CASE MarkRunning(d) \/ Fail(d)
  <2>1. inst' # "pending"
    BY <1>3 DEF MarkRunning, Fail, CalmInv
  <2> QED
    BY <2>1 DEF CalmInv
<1>4. CASE Teardown(d)
  <2>1. inst' = inst /\ pipe[d] = "teardown" /\ pipe'[d] = "ended"
    BY <1>0, <1>4 DEF Teardown, Goto
  <2>2. calm => k8s' = "absent"
    BY <1>4, <2>1 DEF Teardown, DeleteNamespace, Failure, ScaleFailed
  <2> QED
    BY <1>0, <2>1, <2>2 DEF CalmInv
<1> QED
  BY <1>1, <1>2, <1>3, <1>4 DEF PipelineStep

\* A request that ends what would have settled the Instance has settled it.
LEMMA CalmRequestStep ==
    ASSUME IInv, CalmInv, calm' = calm, calm => ~Failure, NEW r \in Requests,
           RequestCall(r) \/ RequestStep(r) \/ RestartRaises(r)
    PROVE  CalmInv'
<1>0. pipe \in [Deploys -> PipePC] /\ req \in [Requests -> [pc : RequestPC, about : SUBSET Deploys]]
  BY DEF IInv, TypeOK
<1>1. CASE \/ StartCall(r) \/ FailCall(r) \/ RestartCommit(r) \/ DeleteCommit(r) \/ RestartRaises(r)
  BY <1>1 DEF StartCall, FailCall, RestartCommit, DeleteCommit, RestartRaises, CalmInv
<1>2. CASE StopCall(r) \/ CancelCall(r) \/ CancelCommit(r)
  <2>1. /\ req'[r].pc \in {"stop_scale", "cancel_commit", "cancel_teardown"}
        /\ deleted' = deleted /\ (inst' = inst \/ ~deleted)
    BY <1>0, <1>2 DEF StopCall, CancelCall, CancelCommit, Become
  <2> QED
    BY <2>1 DEF CalmInv, WillSettle
<1>3. CASE StopScale(r) \/ CancelTeardown(r)
  <2>1. /\ inst' = inst /\ deleted' = deleted
        /\ req[r].pc \in {"stop_scale", "cancel_teardown"} /\ req'[r] # req[r]
    BY <1>0, <1>3 DEF StopScale, CancelTeardown, NoOp
  <2>2. calm => k8s' # "up"
    <3>1. CASE StopScale(r)
      BY <2>1, <3>1 DEF StopScale, ScaleDown, Scaled, Failure, ScaleFailed
    <3>2. CASE CancelTeardown(r)
      BY <2>1, <3>2 DEF CancelTeardown, DeleteNamespace, Failure, ScaleFailed
    <3> QED BY <1>3, <3>1, <3>2
  <2> QED
    BY <2>1, <2>2 DEF CalmInv
<1>4. CASE \/ DeployCall(r) \/ RestartCall(r) \/ DeleteCall(r) \/ RestartScale(r) \/ RestartRead(r)
           \/ RestartRefused(r) \/ DeleteScale(r) \/ DeleteTeardown(r) \/ DeployInsert(r) \/ RestartInsert(r)
  <2>1. /\ inst' = inst /\ deleted' = deleted /\ (k8s' = "up" => k8s = "up")
        /\ req[r].pc \notin {"stop_scale", "cancel_commit", "cancel_teardown"}
    BY <1>4 DEF DeployCall, RestartCall, DeleteCall, Call, RestartScale, RestartRead, RestartRefused, DeleteScale,
                DeleteTeardown, DeployInsert, RestartInsert, ScaleDown, Scaled, DeleteNamespace
  <2>2. \A q \in Requests \ {r} : req'[q] = req[q]
    BY <1>0, <1>4 DEF DeployCall, RestartCall, DeleteCall, RestartScale, RestartRead, RestartRefused, DeleteScale,
                DeleteTeardown, DeployInsert, RestartInsert, Become, NextRevision
  <2>3. \A e \in Deploys : pipe[e] # "none" => pipe'[e] = pipe[e]
    <3>1. CASE DeployInsert(r) \/ RestartInsert(r)
      BY <1>0, <3>1 DEF DeployInsert, RestartInsert, NewRecord, NewPipeline, IInv, NoRecordNoPipeline
    <3>2. CASE UNCHANGED pipe
      BY <3>2
    <3> QED
      BY <1>4, <3>1, <3>2 DEF DeployCall, RestartCall, DeleteCall, RestartScale, RestartRead, RestartRefused,
                              DeleteScale, DeleteTeardown
  <2>4. WillSettle => WillSettle'
    BY <2>1, <2>2, <2>3 DEF WillSettle
  <2> QED
    BY <2>1, <2>4 DEF CalmInv
<1> QED
  BY <1>1, <1>2, <1>3, <1>4 DEF RequestCall, RequestStep

\* In calm behaviours an Instance that rests in status pending has no running
\* pods, however its stops, restarts, cancellations and pipelines overlap.
THEOREM StoppedIsDown == MCSpec => []StoppedMeansDownWhenCalm
<1>1. MCInit => IInv /\ CalmInv
  BY InitIInv DEF MCInit, Init, CalmInv
<1>2. IInv /\ [MCNext]_<<vars, calm>> => IInv'
  BY NextIInv DEF MCNext, vars
<1>3. IInv /\ CalmInv /\ [MCNext]_<<vars, calm>> => CalmInv'
  <2> SUFFICES ASSUME IInv, CalmInv, [MCNext]_<<vars, calm>> PROVE CalmInv'
    OBVIOUS
  <2>1. CASE UNCHANGED <<vars, calm>>
    BY <2>1 DEF vars, CalmInv, WillSettle
  <2>2. CASE MCNext
    <3>1. calm' = calm /\ (calm => ~Failure) /\ Next
      BY <2>2 DEF MCNext
    <3>2. CASE Crash
      <4>1. inst' = inst /\ deleted' = deleted /\ ~calm
        BY <3>1, <3>2 DEF Crash, Failure
      <4> QED
        BY <3>1, <4>1 DEF CalmInv
    <3> QED
      BY <3>1, <3>2, CalmPipelineStep, CalmRequestStep DEF Next
  <2> QED BY <2>1, <2>2
<1>4. CalmInv => StoppedMeansDownWhenCalm
  BY DEF CalmInv, WillSettle, StoppedMeansDownWhenCalm, StoppedMeansDown, Quiet, Running, Started
<1> QED
  BY <1>1, <1>2, <1>3, <1>4, PTL DEF MCSpec
============================================================================
