------------------------------ MODULE Harness ------------------------------
(***************************************************************************)
(* The harness of one Instance in local (in-process) mode: the agent loop  *)
(* (agent_runtime/loop.py), the supervisor's registry of loop metrics and  *)
(* its circuit breakers (core/harness_supervisor.py, harness_handlers.py,  *)
(* harness_breakers.py), the periodic idle check (core/continuation.py)    *)
(* and the requests that change the persisted loop_status (api/v1/         *)
(* harness.py, core/meeting_wake.py, core/activation_consumer.py).         *)
(*                                                                         *)
(* Everything the harness keeps is keyed by instance id, so one Instance   *)
(* is modelled.  An action is the code between two awaits that reach the   *)
(* database or the provider.  emit() flushes the event row, then runs the  *)
(* handlers, all before the caller commits: a handler's effect belongs to  *)
(* the action of the flush, and a later failed commit does not undo it.    *)
(***************************************************************************)
EXTENDS Naturals, FiniteSets

CONSTANTS
    Slots,              \* identities for run_agent_loop coroutines
    NoSlot,             \* "no runtime task"
    Requests,           \* concurrent requests on the loop status
    NoRequest,          \* "the row is not locked"
    MaxContinuations,   \* InstanceLoopState.max_continuations
    MaxTokens,          \* InstanceLoopState.max_token_estimate
    TokenSteps,         \* token estimates a checkpoint may report
    Iterations,         \* _ITERATIONS
    Faults              \* which kinds of failure may happen

ASSUME SlotsAssumption == NoSlot \notin Slots
ASSUME RequestsAssumption == NoRequest \notin Requests
ASSUME LimitsAssumption ==
    /\ MaxContinuations \in Nat \ {0}
    /\ MaxTokens \in Nat \ {0}
    /\ Iterations \in Nat
    /\ TokenSteps \subseteq Nat

VARIABLES
    db,     \* committed InstanceLoopState.loop_status
    lock,   \* the request whose uncommitted UPDATE holds the row
    req,    \* each request: where it is, what it does, whether it writes
            \* the row, and (history) whether its kill stopped a loop
    reg,    \* supervisor._registry entry, or NoMetrics
    task,   \* supervisor._runtime_tasks entry, or NoSlot
    loop,   \* each coroutine: where it is, stop_flag, i, and (history) its late
            \* checkpoints and those whose breaker check failed
    idle    \* where the idle-check task is

vars == <<db, lock, req, reg, task, loop, idle>>

LoopStatus == {"idle", "running", "paused", "interrupted"}
Ops == {"interrupt", "pause", "resume", "activate", "wake"}

Target(op) ==
    CASE op = "interrupt" -> "interrupted"
      [] op = "pause" -> "paused"
      [] OTHER -> "running"

\* Clocks are kept as what the breakers ask of them: whether the limit that
\* starts at wall_clock_started or last_checkpoint_at has passed.
Clock == {"none", "fresh", "passed"}
Metrics == [count : Nat, tokens : Nat, wall : Clock, last : Clock]
NoMetrics == [count |-> 0, wall |-> "absent"]

Trip == {"trip_stop", "trip_kill", "trip_commit"}
LoopPC == {"free", "boot", "starting", "started", "top", "dbcheck", "llm", "ckpt",
           "ckpt_read", "ckpt_over", "ckpt_commit", "stopping", "stopped",
           "wedged"} \cup Trip
IdlePC == {"waiting", "scanned", "over", "dead"} \cup Trip
RequestPC == {"none", "read", "flushed", "killed", "woken", "start"}

FreeSlot == [pc |-> "free", stop |-> FALSE, i |-> 0, late |-> 0, unread |-> 0]
NoOp == [pc |-> "none", op |-> "pause", dirty |-> FALSE]

\* A coroutine that can still act.  One that failed before its try block is
\* finished, but nothing removes it from _runtime_tasks ("wedged").
Live(g) == loop[g].pc \notin {"free", "wedged"}
\* register_handler(HARNESS_CONTROL_SENT, _on_control) has been called.
Listening(g) == Live(g) /\ loop[g].pc # "boot"

----------------------------------------------------------------------------
Init ==
    /\ db = "idle"
    /\ lock = NoRequest
    /\ req = [r \in Requests |-> NoOp]
    /\ reg = NoMetrics
    /\ task = NoSlot
    /\ loop = [g \in Slots |-> FreeSlot]
    /\ idle = "waiting"

----------------------------------------------------------------------------
\* Faulty variants of the definitions below, for the mutation runs.

At(g, pc) == loop[g].pc = pc
Goto(g, pc) == loop' = [loop EXCEPT ![g].pc = pc]

\* `>` instead of `>=` for the number of continuations.
Exceeded_OffByOne(m) ==
    \/ m.count > MaxContinuations
    \/ m.tokens >= MaxTokens
    \/ m.wall = "passed"
    \/ m.last = "passed"

\* The idle_timeout breaker is forgotten.
Exceeded_NoIdleTimeout(m) ==
    \/ m.count >= MaxContinuations
    \/ m.tokens >= MaxTokens
    \/ m.wall = "passed"

\* start_runtime_for without its guard.
StartRuntime_NoGuard ==
    \E g \in Slots :
        /\ At(g, "free")
        /\ task' = g
        /\ loop' = [loop EXCEPT ![g] = [FreeSlot EXCEPT !.pc = "boot"]]

\* The loop relies on the persisted status alone.
LoopTop_IgnoresFlag(g) ==
    /\ At(g, "top")
    /\ Goto(g, IF loop[g].i >= Iterations THEN "stopping" ELSE "dbcheck")
    /\ UNCHANGED <<db, lock, req, reg, task, idle>>

\* _should_stop_via_db forgets paused.
DbCheck_NotPaused(g) ==
    /\ At(g, "dbcheck")
    /\ Goto(g, IF db = "interrupted" THEN "stopping" ELSE "llm")
    /\ UNCHANGED <<db, lock, req, reg, task, idle>>

----------------------------------------------------------------------------
\* Breakers.

\* check_breakers: the first of the four limits that has been reached.
Exceeded(m) ==
    \/ m.count >= MaxContinuations
    \/ m.tokens >= MaxTokens
    \/ m.wall = "passed"
    \/ m.last = "passed"

\* What check_breakers finds of metrics that were below the limits before its
\* read of them: their clocks have gone on, in the registry or dropped from it.
Verdicts == IF reg = NoMetrics THEN BOOLEAN ELSE {Exceeded(reg)}

\* HARNESS_CONTROL_SENT {action: kill} reaches every registered _on_control.
\* lp is the loop table after the emitter's own step.
Kill(lp) ==
    [g \in Slots |-> IF Listening(g) THEN [lp[g] EXCEPT !.stop = TRUE]
                                     ELSE lp[g]]

\* handle_checkpoint: setdefault, then count the checkpoint.
Counted(k) ==
    LET m == IF reg = NoMetrics
             THEN [count |-> 0, tokens |-> 0, wall |-> "none", last |-> "none"]
             ELSE reg
    IN  [count |-> m.count + 1, tokens |-> m.tokens + k,
         wall |-> m.wall, last |-> "fresh"]

----------------------------------------------------------------------------
\* run_agent_loop.

\* start_runtime_for, called by request r which then goes to pc.
StartRuntime ==
    \/ /\ task # NoSlot
       /\ UNCHANGED <<task, loop>>
    \/ /\ task = NoSlot
       /\ \E g \in Slots :
             /\ At(g, "free")
             /\ task' = g
             /\ loop' = [loop EXCEPT ![g] = [FreeSlot EXCEPT !.pc = "boot"]]

\* _resolve_workspace_path and _build_llm_client, before the try block: a
\* failure leaves the _runtime_tasks entry behind.
Boot(g) ==
    /\ At(g, "boot")
    /\ \/ Goto(g, "starting")
       \/ "boot" \in Faults /\ Goto(g, "wedged")
    /\ UNCHANGED <<db, lock, req, reg, task, idle>>

\* emit LOOP_STARTED: handle_loop_started replaces the metrics.
EmitStarted(g) ==
    /\ At(g, "starting")
    /\ reg' = [count |-> 0, tokens |-> 0, wall |-> "fresh", last |-> "none"]
    /\ Goto(g, "started")
    /\ UNCHANGED <<db, lock, req, task, idle>>

CommitStarted(g) ==
    /\ At(g, "started")
    /\ Goto(g, "top")
    /\ UNCHANGED <<db, lock, req, reg, task, idle>>

\* while not stop_flag.is_set() and i < _ITERATIONS
LoopTop(g) ==
    /\ At(g, "top")
    /\ Goto(g, IF loop[g].stop \/ loop[g].i >= Iterations
               THEN "stopping" ELSE "dbcheck")
    /\ UNCHANGED <<db, lock, req, reg, task, idle>>

\* _should_stop_via_db
DbCheck(g) ==
    /\ At(g, "dbcheck")
    /\ Goto(g, IF db \in {"paused", "interrupted"} THEN "stopping" ELSE "llm")
    /\ UNCHANGED <<db, lock, req, reg, task, idle>>

\* The provider answers, and the memory and notepad writes (whose failures
\* are swallowed) follow; or LLMError: back off and try again.
CallLLM(g) ==
    /\ At(g, "llm")
    /\ Goto(g, "ckpt") \/ Goto(g, "top")
    /\ UNCHANGED <<db, lock, req, reg, task, idle>>

\* emit CHECKPOINT: its handler counts the checkpoint and takes the metrics
\* to _check_breakers, which reads the limits from the database.
Checkpoint(g) ==
    /\ At(g, "ckpt")
    /\ \E k \in TokenSteps :
          /\ reg' = Counted(k)
          /\ loop' = [loop EXCEPT
                ![g].pc = IF Exceeded(reg') THEN "ckpt_over" ELSE "ckpt_read",
                ![g].late = IF loop[g].stop THEN @ + 1 ELSE @]
    /\ UNCHANGED <<db, lock, req, task, idle>>

\* check_breakers on the metrics taken.
CheckBreakers(g) ==
    /\ loop[g].pc \in {"ckpt_read", "ckpt_over"}
    /\ \E trips \in IF At(g, "ckpt_over") THEN {TRUE} ELSE Verdicts :
          Goto(g, IF trips THEN "trip_stop" ELSE "ckpt_commit")
    /\ UNCHANGED <<db, lock, req, reg, task, idle>>

\* The read of the limits raises: emit() logs it, the checkpoint stays counted
\* and no breaker is checked.
BreakerReadFails(g) ==
    /\ "config" \in Faults
    /\ loop[g].pc \in {"ckpt_read", "ckpt_over"}
    /\ loop' = [loop EXCEPT ![g].pc = "ckpt_commit", ![g].unread = @ + 1]
    /\ UNCHANGED <<db, lock, req, reg, task, idle>>

\* trip_breaker inside the checkpoint's handler: BREAKER_TRIPPED and
\* LOOP_STOPPED (whose handler drops the metrics), then the kill, then the
\* commit, after which _check_breakers drops the metrics once more.
LoopTrips(g) ==
    /\ \/ /\ At(g, "trip_stop")
          /\ reg' = NoMetrics
          /\ Goto(g, "trip_kill")
       \/ /\ At(g, "trip_kill")
          /\ loop' = Kill([loop EXCEPT ![g].pc = "trip_commit"])
          /\ UNCHANGED reg
       \/ /\ At(g, "trip_commit")
          /\ reg' = NoMetrics
          /\ Goto(g, "ckpt_commit")
    /\ UNCHANGED <<db, lock, req, task, idle>>

\* An exception of trip_breaker ends the handler; emit() logs it.
LoopTripFails(g) ==
    /\ \/ "trip_write" \in Faults /\ loop[g].pc \in {"trip_stop", "trip_kill"}
       \/ "trip_commit" \in Faults /\ At(g, "trip_commit")
    /\ Goto(g, "ckpt_commit")
    /\ UNCHANGED <<db, lock, req, reg, task, idle>>

CommitCheckpoint(g) ==
    /\ At(g, "ckpt_commit")
    /\ loop' = [loop EXCEPT ![g].pc = "top", ![g].i = @ + 1]
    /\ UNCHANGED <<db, lock, req, reg, task, idle>>

\* emit LOOP_STOPPED: handle_loop_stopped drops the metrics.
EmitStopped(g) ==
    /\ At(g, "stopping")
    /\ reg' = NoMetrics
    /\ Goto(g, "stopped")
    /\ UNCHANGED <<db, lock, req, task, idle>>

\* The finally block: the coroutine gives up its _runtime_tasks entry.
Finally(g) ==
    /\ task' = NoSlot
    /\ loop' = [loop EXCEPT ![g] = FreeSlot]

LoopExit(g) ==
    /\ At(g, "stopped")
    /\ Finally(g)
    /\ UNCHANGED <<db, lock, req, reg, idle>>

\* Any other exception inside the try block: a failed flush or commit, a
\* failed status read, a provider error that is not LLMError.
LoopRaises(g) ==
    /\ "loop" \in Faults
    /\ loop[g].pc \in {"starting", "started", "dbcheck", "llm", "ckpt",
                       "ckpt_commit", "stopping", "stopped"}
    /\ Finally(g)
    /\ UNCHANGED <<db, lock, req, reg, idle>>

LoopStep(g) ==
    \/ Boot(g) \/ EmitStarted(g) \/ CommitStarted(g) \/ LoopTop(g)
    \/ DbCheck(g) \/ CallLLM(g) \/ Checkpoint(g) \/ CheckBreakers(g)
    \/ LoopTrips(g) \/ CommitCheckpoint(g) \/ EmitStopped(g) \/ LoopExit(g)

----------------------------------------------------------------------------
\* idle_check_handler, once per period while it keeps rescheduling itself.
\* continuation_injected is never emitted: nothing writes the column
\* last_checkpoint_at that the handler tests.

\* The scan selects the rows whose status is running, and _check_breakers
\* takes the metrics of each to its read of the limits.
IdleScan ==
    /\ idle = "waiting"
    /\ db = "running"
    /\ reg # NoMetrics
    /\ idle' = IF Exceeded(reg) THEN "over" ELSE "scanned"
    /\ UNCHANGED <<db, lock, req, reg, task, loop>>

\* check_breakers on the metrics taken.
IdleEvaluate ==
    /\ idle \in {"scanned", "over"}
    /\ \E trips \in IF idle = "over" THEN {TRUE} ELSE Verdicts :
          idle' = IF trips THEN "trip_stop" ELSE "waiting"
    /\ UNCHANGED <<db, lock, req, reg, task, loop>>

IdleTrips ==
    /\ \/ /\ idle = "trip_stop"
          /\ reg' = NoMetrics
          /\ idle' = "trip_kill"
          /\ UNCHANGED loop
       \/ /\ idle = "trip_kill"
          /\ loop' = Kill(loop)
          /\ idle' = "trip_commit"
          /\ UNCHANGED reg
       \/ /\ idle = "trip_commit"
          /\ reg' = NoMetrics
          /\ idle' = "waiting"
          /\ UNCHANGED loop
    /\ UNCHANGED <<db, lock, req, task>>

\* An exception skips the re-enqueue at the end of the handler.
IdleRaises ==
    /\ \/ "idle" \in Faults /\ idle \in {"waiting", "scanned", "over"}
       \/ "trip_write" \in Faults /\ idle \in {"trip_stop", "trip_kill"}
       \/ "trip_commit" \in Faults /\ idle = "trip_commit"
    /\ idle' = "dead"
    /\ UNCHANGED <<db, lock, req, reg, task, loop>>

IdleStep == IdleScan \/ IdleEvaluate \/ IdleTrips

----------------------------------------------------------------------------
\* Time.

WallClockPasses ==
    /\ reg # NoMetrics
    /\ reg.wall = "fresh"
    /\ reg' = [reg EXCEPT !.wall = "passed"]
    /\ UNCHANGED <<db, lock, req, task, loop, idle>>

IdleTimeoutPasses ==
    /\ reg # NoMetrics
    /\ reg.last = "fresh"
    /\ reg' = [reg EXCEPT !.last = "passed"]
    /\ UNCHANGED <<db, lock, req, task, loop, idle>>

----------------------------------------------------------------------------
\* Requests.  Each runs in a session of its own.

\* Read the row.  on_activation_triggered goes on only from idle.  The ORM
\* will write the row only if the assigned status differs from the one read.
ReadState(r) ==
    /\ req[r].pc = "none"
    /\ \E op \in Ops :
          /\ op = "activate" => db = "idle"
          /\ req' = [req EXCEPT ![r] =
                [NoOp EXCEPT !.pc = "read", !.op = op,
                             !.dirty = Target(op) # db]]
    /\ UNCHANGED <<db, lock, reg, task, loop, idle>>

\* _set_loop_status: assign and flush.  The UPDATE, if there is one, takes
\* the row lock and keeps it until the end of the transaction.
SetLoopStatus(r) ==
    /\ req[r].pc = "read"
    /\ IF req[r].dirty
       THEN lock = NoRequest /\ lock' = r
       ELSE UNCHANGED lock
    /\ req' = [req EXCEPT ![r].pc = "flushed"]
    /\ UNCHANGED <<db, reg, task, loop, idle>>

\* handle_interrupt: emit the kill, then drop the metrics.
InterruptKill(r) ==
    /\ req[r].pc = "flushed" /\ req[r].op = "interrupt"
    /\ loop' = Kill(loop)
    /\ reg' = NoMetrics
    /\ req' = [req EXCEPT ![r].pc = "killed"]
    /\ UNCHANGED <<db, lock, task, idle>>

\* _wake_participant starts the runtime before its caller commits.
WakeStart(r) ==
    /\ req[r].pc = "flushed" /\ req[r].op = "wake"
    /\ StartRuntime
    /\ req' = [req EXCEPT ![r].pc = "woken"]
    /\ UNCHANGED <<db, lock, reg, idle>>

\* The transaction of r is complete up to its commit.
Committing(r) ==
    \/ req[r].pc \in {"killed", "woken"}
    \/ req[r].pc = "flushed" /\ req[r].op \in {"pause", "resume", "activate"}

EndOfTransaction(r) == lock' = IF lock = r THEN NoRequest ELSE lock

CommitRequest(r) ==
    /\ Committing(r)
    /\ db' = IF lock = r THEN Target(req[r].op) ELSE db
    /\ EndOfTransaction(r)
    /\ req' = [req EXCEPT ![r] = IF @.op \in {"resume", "activate"}
                                 THEN [@ EXCEPT !.pc = "start"] ELSE NoOp]
    /\ UNCHANGED <<reg, task, loop, idle>>

\* A database error rolls the request back; handler effects stay.
RollbackRequest(r) ==
    /\ "request" \in Faults
    /\ req[r].pc \in {"flushed", "killed", "woken"}
    /\ EndOfTransaction(r)
    /\ req' = [req EXCEPT ![r] = NoOp]
    /\ UNCHANGED <<db, reg, task, loop, idle>>

\* resume_instance and on_activation_triggered, after the commit.
ResumeStart(r) ==
    /\ req[r].pc = "start"
    /\ StartRuntime
    /\ req' = [req EXCEPT ![r] = NoOp]
    /\ UNCHANGED <<db, lock, reg, idle>>

RequestStep(r) ==
    \/ SetLoopStatus(r) \/ InterruptKill(r) \/ WakeStart(r)
    \/ CommitRequest(r) \/ ResumeStart(r)

----------------------------------------------------------------------------
\* The process stops (shutdown cancels the tasks, a crash drops them) and
\* starts again: start() with empty dictionaries, then rehydrate(), which
\* finds zero counts and no clocks because nothing ever writes them.  No
\* runtime task is started.
Restart ==
    /\ "crash" \in Faults
    /\ lock' = NoRequest
    /\ req' = [r \in Requests |-> NoOp]
    /\ reg' = IF db = "running"
              THEN [count |-> 0, tokens |-> 0, wall |-> "none", last |-> "none"]
              ELSE NoMetrics
    /\ task' = NoSlot
    /\ loop' = [g \in Slots |-> FreeSlot]
    /\ idle' = "waiting"
    /\ UNCHANGED db

Next ==
    \/ \E g \in Slots : LoopStep(g) \/ BreakerReadFails(g)
                        \/ LoopTripFails(g) \/ LoopRaises(g)
    \/ IdleStep \/ IdleRaises
    \/ WallClockPasses \/ IdleTimeoutPasses
    \/ \E r \in Requests : ReadState(r) \/ RequestStep(r) \/ RollbackRequest(r)
    \/ Restart

Spec == Init /\ [][Next]_vars

\* The event loop resumes every ready coroutine, the provider and the
\* database answer, the idle check runs every period and time passes.
\* Requests need not come, and nothing has to fail.
Fairness ==
    /\ \A g \in Slots : WF_vars(LoopStep(g))
    /\ \A r \in Requests : WF_vars(RequestStep(r))
    /\ WF_vars(IdleStep)
    /\ WF_vars(IdleTimeoutPasses)

FairSpec == Spec /\ Fairness

----------------------------------------------------------------------------
TypeOK ==
    /\ db \in LoopStatus
    /\ lock \in Requests \cup {NoRequest}
    /\ req \in [Requests -> [pc : RequestPC, op : Ops,
                             dirty : BOOLEAN]]
    /\ reg \in Metrics \cup {NoMetrics}
    /\ task \in Slots \cup {NoSlot}
    /\ loop \in [Slots -> [pc : LoopPC, stop : BOOLEAN, i : Nat,
                           late : Nat, unread : Nat]]
    /\ idle \in IdlePC

\* At most one run_agent_loop coroutine of an Instance is alive, and it is
\* the one in _runtime_tasks, whoever starts loops and however they end.
AtMostOneLoop == \A g \in Slots : Live(g) => task = g

\* A loop that has been told to stop writes at most one more checkpoint: the
\* flag is read only at the top of the iteration, and an iteration that had
\* begun is finished, provider call included.
OneLateCheckpoint == \A g \in Slots : loop[g].late <= 1

\* A loop writes at most 3 * max_continuations - 2 checkpoints, and one more
\* for each whose breaker check failed.  The metrics are dropped under a
\* running loop at most twice before a kill reaches it: by the last step of a
\* trip whose kill came while the loop was booting, and by the first step of
\* the trip that then kills it.  Each time it counts again from zero; one late
\* checkpoint may follow the kill.
BudgetRespected ==
    \A g \in Slots : loop[g].i <= 3 * MaxContinuations - 2 + loop[g].unread

\* When a loop has emitted LOOP_STOPPED and ends, no metrics are left that a
\* status request or the next breaker check would attribute to it.
CleanExit ==
    [][\A g \in Slots : LoopExit(g) => reg = NoMetrics]_vars

\* Once interrupted or paused is committed, the loop ends (or another
\* request changes the status first), also when the kill was sent while the
\* loop was still booting and had registered no handler.
StopHonoured ==
    (db \in {"paused", "interrupted"})
        ~> (db \notin {"paused", "interrupted"} \/ \A g \in Slots : ~Live(g))

\* Metrics whose loop is gone are dropped by a breaker of the idle check, as
\* long as the Instance counts as running, its clocks have been stamped and
\* the idle check itself has not died.
OrphanMetricsReaped ==
    (reg # NoMetrics /\ reg.last # "none" /\ task = NoSlot /\ db = "running")
        ~> (reg = NoMetrics \/ task # NoSlot \/ db # "running"
            \/ reg.last = "none" \/ idle = "dead")

----------------------------------------------------------------------------
\* What a comment says of the program, and the code does not do.

\* harness_supervisor.py, _check_breakers: "If commit raises above, the
\* registry entry is preserved and the next checkpoint will re-attempt the
\* trip."  When a trip fails, the metrics it was made for are still there.
FailedTripKeepsMetrics ==
    [][\A g \in Slots : LoopTripFails(g) => reg # NoMetrics]_vars
============================================================================
