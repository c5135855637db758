# Eyot.ai backend in TLA+

TLA+ models of the Eyot.ai backend (`src/eyot-backend/app`) and of the chat side
of its instance host (`src/eyot-instance-host/src`): the parts where concurrency,
failure and order decide whether the program is right. With them the TLC
configurations that check them on small instances, and TLAPS proofs of their
safety properties for every value of the constants. Paths below are relative to
`src/eyot-backend/app`.

Run a check with `tlc -config Harness.cfg MCHarness`, a proof with
`tlapm HarnessProofs.tla`. `PROJECT.json` lists the runs, the source lines of
every definition, the hazards and, for each property, a faulty variant of a
definition (a mutant, kept beside the definition it replaces) that the property
catches.

## 1. The system

The backend is one asyncio process (FastAPI) over one SQL database. Organizations
own *Instances*: AI agents that run either as a coroutine of the backend (local
mode) or in a Kubernetes pod that polls the backend (pod mode). Requests
interleave at every `await`; database transactions overlap under READ COMMITTED;
events are rows, and their in-process handlers run when the row is flushed, so
before the emitter commits.

| Part | State it keeps | Operations | Hard part | What makes it correct |
|---|---|---|---|---|
| Task queue (`core/queue.py`) | priority queue, `_seq`, `_wakeup` event, `_stopping`, worker task | register, enqueue with a delay, run loop, start, stop | an enqueue while the worker sleeps with the head popped; timer against wake-up; stop during a sleep | no task lost, doubled, early or out of order; no lost wake-up; every task and every stop completes |
| Harness (`core/harness_*.py`, `agent_runtime/loop.py`, `api/v1/harness.py`) | `_registry` of metrics, `_runtime_tasks`, `stop_flag` of the loop, `InstanceLoopState` row | start loop, checkpoint, breaker trip, interrupt, pause, resume, rehydrate | flags set before a commit; two evaluators of the same metrics; requests that start the loop concurrently; restart | one loop per Instance; a killed loop stops; budgets hold; metrics do not outlive the loop |
| Idle check (`core/continuation.py`) | position in a scan | scan all metrics, trip, reschedule itself | snapshot used after awaits; one exception ends it | metrics of dead loops are removed |
| Activation, meeting wake (`core/activation*.py`, `core/meeting_wake.py`) | none of its own | set running, start the loop | start before or after the commit | as for the harness |
| Deploy (`services/deploy_service.py`, `instance_restart.py`, `api/v1/deploy.py`, `api/v1/instances.py`) | `Instance.status`, `DeployRecord`, `_TASK_REGISTRY`, the namespace in the cluster | deploy, pipeline steps, cancel, restart, start, stop, fail, delete | several pipelines and requests on one namespace without a lock; the revision read before it is inserted; failure paths | a running pipeline can be cancelled; statuses settle; a stopped Instance has no pods |
| Inject queue (`core/inject_queue.py`, `api/v1/internal.py`) | rows pending/delivered/acked/failed/expired | enqueue, poll, ack, expire | flush computed from a stale read; calls that outlive their caller | each inject applied at most once; none stays pending |
| Pod runtime (`agent_runtime/loop.py`, `k8s_adapter.py`, `safe_point.py`) | poll task, loop, safe point guard, `stop_flag` | poll, hold, flush, apply, ack, exit | two coroutines share the guard; timeouts; kill in the same response as rows | nothing held is dropped or repeated |
| Composer turns, tunnel, instance host (`core/composer_turns.py`, `services/tunnel/`, `api/v1/composer.py`, host `chat-bridge.ts`, `tunnel-client.ts`) | turns with history and queue, one connection per Instance, the host's active turn | send, frame, finish, register, unregister, stream, replay | a socket replaced while its predecessor cleans up; frames after the end; a browser that leaves and returns; prompts that overlap | the newest registration stays; no frame is lost to a browser; a turn ends unless the host lost it |
| Brainstem (`core/brainstem_runner.py`) | schedules with `next_run_at` | tick, fire, edit | several processes tick; one transaction for all that is due | a schedule fires once per due time; one that raises is the only thing that holds the others up |
| Meetings (`api/v1/meetings*.py`, `core/meeting_wake.py`) | status, participants | create, start, end, cancel, wake | status checked without a lock | every participant is dealt with; only a race reopens a finished meeting |
| Topology (`api/v1/messaging.py`, `workspaces.py`, `core/passages.py`, `core/topology.py`) | memberships, passages | create, restore, introduce, move, delete; connect, switch, remove | creation of a passage against deletion of its ends; lock order | no passage to a deleted membership; no deadlock but with the cascade |
| Messages (`core/slash_parser.py`, `directive_router.py`, `message_router.py`) | events, turns, injects of one transaction | parse, route, deliver | slugs looked up again and again while the workspace changes | words are kept; who can be reached is reached, and is the one that is woken |
| Files and vault (`api/v1/central_hubs.py`, `services/fornix_sync.py`) | rows, vault entries, the mirror on disk | create, move, delete, archive, restore | the disk is written before the commit | no file is lost; no double archiving; the mirror matches |
| Accounts and contracts (`api/v1/organizations.py`, `users.py`, `namespace_contracts.py`, `core/permissions.py`) | users, contracts with atoms | add, change, remove, delete user | guards on state that another request changes | an organization keeps a manager, the platform an administrator |
| Deleting an organization (`delete_organization`) | rows on four levels | sweep | level by level while rows come and go | nothing that was there survives |
| Providers (`api/v1/organizations.py`, `services/llm/instance_pi_env.py`) | providers, defaults on three levels | create, edit, delete, refresh, choose | refresh across a remote call; stale defaults | an instance gets a provider that works |
| Catalog (`api/v1/capability_market.py`, `ai_genes.py`, `base_classes.py`, `entities.py`, `learning.py`, `clone.py`, `core/capabilities.py`, `migration_hash.py`, `preset_registry.py`) | market entries, genes, base classes, entities, instances, links, fingerprints, a cached registry | CRUD, attach, detach, clone, introduce, distill, reap, promote, transmute, combine | a fingerprint that caches everything an entity can do; a registry cached in memory; copies | the fingerprint, the registry and the copies follow their sources |
| Event bus and watcher, avatar status, knowledge, user genes, LLM clients, portal | rows, queues | reads, pure functions, CRUD | little of their own | see section 5 |

How they meet: requests write `InstanceLoopState` and emit `harness.control_sent`,
whose handler sets the loop's `stop_flag`; checkpoints emit events whose handlers
update the supervisor's metrics; trips emit `harness.loop_stopped`, whose handler
drops them. The idle check and the daily report are tasks of the task queue that
enqueue themselves again. Meetings, directives and chat end in `enqueue_inject`;
the pod's poll returns those rows together with control events. Deploy and the
lifecycle endpoints share the Instance row and its namespace.

## 2. Modules

| Module | Models | Atomicity |
|---|---|---|
| `DelayQueue` | what a caller of the task queue may rely on | abstract |
| `TaskQueue` | `InMemoryTaskQueue`; implements `DelayQueue` | code between two awaits that suspend |
| `Harness` | one Instance's loop, metrics, breakers, idle check, requests, restart | code between two awaits of database or provider; an event handler runs inside the action of the flush |
| `Deploy` | one Instance's records, pipelines, registry, namespace, lifecycle requests | one await of cluster or database; creation of the resources of steps 2 to 7 is one step |
| `InjectQueue` | one Instance's rows, endpoint calls, pods | read and commit of a transaction are two steps |
| `Composer` | one Instance's turns, hub, sockets, host, browsers | one await of socket, queue or database |
| `Topology`, `Meetings`, `Brainstem` | one workspace's memberships and passages, one meeting, all schedules | read, each row lock, and commit are steps |
| `Tenancy`, `OrgTree`, `Providers` | accounts and contracts of one organization; the rows below it; its providers | check and commit; each level of the sweep; before and after the remote call |
| `Fornix` | one workspace's files, vault and mirror | check, disk, commit |
| `Catalog` | genes, capabilities, base classes, entities, instances | reads and computation, commit, query and store of a reload |
| `Directives` | one message | one directive's look-up, one delivery, commit |
| `MC*` | the instances for TLC; `MCCollab`, `MCTenancy` and `MCCatalog` put services together | |
| `*Proofs` | inductive invariants and theorems | |

The state of the first group is keyed by Instance, so one Instance loses nothing but
the queueing of the idle check behind other Instances. The services that
`MCCollab`, `MCTenancy` and `MCCatalog` put together share no row that a property
looks at; `part` picks the one a behaviour is about, which avoids a product of
independent states.

**TaskQueue.** `queue` is the heap as a set with the tuple order `Before`; `held`
is the task in the worker's locals; `worker` says at which await it is suspended.
`_run` is cut into `WorkerIdle`, `WorkerSleep`, `WorkerRunDue`, `WorkerResume`
and `WorkerReinsert` (woken before the deadline), `TimerFires` and
`WorkerRunTimedOut` (deadline first), `WorkerHandlerDone` and `WorkerExit`.
`stop()` is `StopRequest` and `StopReturn` around its await. The application calls it once, at
shutdown; a second caller that resumes after a later `start()`, and would clear the new
`_worker_task`, is not modelled. `ran` is history.

**Harness.** A loop coroutine walks through `boot` (before its `try`), `starting`,
`started`, then per iteration `top`, `dbcheck`, `llm`, `ckpt`, the read of the limits
(`ckpt_read`, or `ckpt_over` when the metrics it is made for are over one), possibly the
three steps of a trip, and `ckpt_commit`; at the end `stopping`, `stopped`. A read of the
limits that raises is logged by `emit()`: the checkpoint counts and nothing trips
(`BreakerReadFails`, counted in `unread`). The metrics are taken before that read, by the
loop and by the idle check, and judged after it, in the registry by then or not
(`Verdicts`). Trips are the
same three steps for the loop and for the idle check: emit LOOP_STOPPED (metrics
dropped), emit CONTROL_SENT (flag set), commit. `wedged` is a coroutine that died
before its `try`: nothing removes it from `_runtime_tasks`. Clocks are
abstracted to whether a breaker's limit has passed. `lock` is the row lock of an
uncommitted UPDATE. `Restart` keeps the committed status only and rehydrates.

**Deploy.** `inst`, `rec` are committed values. `pipe[d]` is the pipeline's
position; `created` is a task that has not run, and so is not in the registry.
A deploy or restart reads the latest revision in one step and inserts in another;
`Overtaken` is a violation of the unique index on it. Sessions keep what
they loaded (`expire_on_commit=False`), so a restart does not see a delete that
committed after its first read. Failures of the cluster are `Faults`: `gateway`,
`step`, `scale`, `kickoff`, `crash`.

**InjectQueue.** A call of an endpoint is a record with the rows its session has
read; `PollCommit` and `AckCommit` write by primary key whatever was committed
since. `caller` becomes empty when the pod gives up or dies; the call goes on.
In the pod `inbox` (a response being handled), `guard` (held rows) and `batch`
(flushed rows being applied) are separate, since poll task and loop interleave.
An iteration whose provider call fails (`LLMFails`) goes on without checkpoint and
flush. A call may be rolled back (`CallRaises`), never arrive (`CallLost`) or outlast
the pod's patience (`CallTimesOut`).
The control cursor never advances (ids are UUID strings), so an old kill stops
every restarted pod again.

**Composer.** `turn[t]` has the status, the history and the queue that
`composer_turns.py` keeps per turn, the socket its request went to and the stage of
the request; `row` is the assistant's message in the database, `task` the stub stream;
`conn` is the registration in `TunnelHub` and `lock` who is registering; `ws` are the
sockets, `busy` the terminal frame a receive loop is finishing, `in` and `out` what is
on the wire. The host has one active turn (`ChatBridge`), and `pi` the prompts its
process has accepted. A reader
records what it has seen; `shared` is history: another browser took from the same
queue. Losing a socket, failing sends and second browsers are faults, `MaxFaults` in all.

**Topology, Meetings, Brainstem.** A request is a `job` with what it read. A commit
applies the unique indexes; `create_passage` takes its two row locks one after the
other in the order of the ids. `delete_membership` cleans up the passages after its own update.
`delete_workspace` is a request too: its bulk UPDATE locks the memberships one by one in
an order of its own (`SweepSeat`), and a circle of waiting requests is broken by the
database, which aborts one of them (`AbortDeadlock`). A passage is filed under the
workspace of its request's body, which need not be that of its ends (`Filings`). A
passage between memberships of two workspaces is not modelled.
A meeting's start works through the participants, each found in one of the conditions
`Bodies`, before its one commit. A tick holds the rows it selected until it commits,
fails on a payload that raises, or dies.

**Tenancy, OrgTree, Providers.** A request passes its checks (`Ask*`, one step), reads the
links it will replace (`ReadLinks`) and commits the difference by primary key; `Overtake` is what
another commit changes for it: rows that are gone, and the history `overtaken`. A link that
appeared is a conflict, and any request may end without effect. `OrgTree` has a row per kind below the organization,
enough for a parent and a child on each level. A refresh keeps the model and the list it read
across the call to the endpoint; an edit may set any field meanwhile, and a list equal to the one
read is not written again.

**Fornix.** A request reads and checks (`Ask*`), touches the mirror (`Sync`), commits
(`Commit*`); each may fail. `disk` is the set of paths. One directory stands for
all: rows below it name it by path, as in the code.

**Catalog.** `db` maps cells to values, such as `<<"ecap", entity, capability>>` to
whether the link is live; a handler works out a function from cells to new values and the commit
overlays it, so what a request did not write is whatever is there by then. An
attribute that is set to the value it has is not written, as in SQLAlchemy. A
capability is its name and the number of the request that made its market row (0 for
those that were there), so that a name deleted and created again is another row, to which old
links do not lead. What an LLM or a heuristic proposes is any of `Memories`. `Surface` is what `compute_migration_hash` is
given; a hash stands for its input.

**Directives.** Words are classified by what the parser's expressions find in them: mention,
scope (`@hub`), scope with a path (`@hub:a/b`), command, path (`and/or`), mail (`me@hub`), other.
The parser is a function on sequences of them. A path that holds the command becomes its `stem`,
a mail whose scope is taken out a `part`. Routing goes through the directives, one
query after the other, while `Shift` changes entities, instances and passages; a first
look-up that finds nobody leaves the message to `route_message`, which looks again.

## 3. Runs

| Run | Checks | Instance |
|---|---|---|
| `task_queue` | NoLostWakeup, ImplementsDelayQueue, EventuallyDispatched, StopCompletes | three tasks with delays 0, 1, 3; start, stop and enqueue at any time |
| `harness` | AtMostOneLoop, OneLateCheckpoint, BudgetRespectedWhenIntact, StopHonoured, OrphanMetricsReaped | two coroutines, one request at a time of any kind, idle check, every failure point, restarts |
| `deploy` | CancellableWhileRunning, StoppedMeansDownWhenCalm, DeploySettlesWhenCalm, RestartSettlesWhenCalm | two records, two requests of every kind |
| `inject` | AppliedAtMostOnce, PendingDrains, ReceivedIsAcked | one pod, two concurrent calls, two rows, polls of one |
| `composer_turns` | TurnsConsistent, NoFrameLost, RegistrationKept, TurnEnds | two turns, two sockets, two browsers, one fault |
| `collab` | SeatsAccounted, NoDanglingPassage, DeadlockNeedsCascade, FiredOncePerDueTime, ReopenedOnlyByRace, DueFires | two of each: memberships, requests, participants, schedules, processes |
| `fornix` | NeverLost, FilesConsistent | two files, a directory with two names, two requests, failing disk and commits |
| `tenancy` | OrganizationEmptied, InstanceGetsUsableProvider, ManagerLostOnlyByOverlap, AdminLostKnowingly, RefreshLeavesListedModel | two users, two requests, two providers and models |
| `catalog` | CatalogConsistent, FingerprintFollows, CopiesAreFaithful, RegistryFollows; TextKept, MentionWakesReceiver, ReachableIsDelivered | two overlapping requests of any route from catalogs with a carried, inherited or no gene; every line of up to three of eight words, some longer |

Each states what it says in the comment above its definition. Two kinds of
behaviour are checked side by side in three of them, chosen by a variable that
never changes:

* `deploy`: in *calm* behaviours two requests overlap and only pipeline steps fail;
  otherwise everything may fail, with one request at a time. Records do stay
  `running` after a crash, a failing gateway or a failing kick-off, so the three
  settling properties are stated for calm ones. `CancellableWhileRunning` holds in
  both, and its proof covers their product.
* `harness`: in *intact* behaviours the writes of a trip succeed. The budget
  (`3 * max_continuations - 2` checkpoints, a bound that is reached, and one more for
  each whose limits could not be read) is stated for
  them; `harness_failed_trip` shows why. The others are bounded to two checkpoints.
* `inject`: every failure may happen again and again, but none takes over for ever
  (see Fairness). `lostAck` is history: rows with an ack that failed or never reached
  the backend. The pod forgets such an ack (`_apply_inject`), and its row stays
  delivered; `ReceivedIsAcked` excepts these rows and those of a pod that goes down.

`ImplementsDelayQueue` is a refinement: `TaskQueue` under the mapping
`waiting <- queue` together with the task the worker has popped and not yet run,
`fired <- ran`, `clock <- now`.

Three runs exhibit a disagreement between the code and its own text (the quoted
lines are in `PROJECT.json`, `findings`):

| Run | What happens |
|---|---|
| `harness_failed_trip` | a trip that fails after LOOP_STOPPED has already lost the metrics it claims to keep |
| `fornix_mirror` | renaming a directory moves it on disk with all it holds; the rows below it keep the old path |
| `catalog_hash` | routes that change what an entity can do (`update_entity`, `delete_ai_gene`, `combine_capabilities` and others) leave its stored hash |

What else the models contain and a reader of the code's comments may not expect
(no run is kept for it):

* A resume right after an interrupt finds the dying loop registered and starts none.
  An interrupt whose commit fails has stopped the loop already.
* `loop_status` stays `running` after a loop has ended by itself: no code writes it.
* A pipeline not yet started overwrites `cancelled`. One that gets no Kubernetes
  client (`GatewayRaises`) leaves its record `running`: the call is made before the `try`.
* A restart that loses the race for the next revision (`RestartRefused`) raises
  again in its error handler, on a deactivated session. One whose kick-off raises
  keeps the flushed record, `running` and without a pipeline (`RestartRaises`). One
  that overlaps a delete deploys the deleted Instance, which its session still holds.
* All pipelines of an Instance share a namespace. A failing one deletes it after a
  newer one has become ready, and the Instance rests in `running` without pods.
* An abandoned poll commits `delivered` over `acked` or `expired`. With two pods that
  overlap, overlapping polls hand a row to both, and it is applied twice.
* A turn is handed to the host before the request that made it commits. A host
  that loses a turn is never timed out, and its bubble stays `responding`; so it
  does across a restart of the backend. Two browsers on one turn split its frames.
* Two managers who remove each other at once leave an organization without one; so do an own
  change of atoms and a super admin's of the same contract, since each commits a difference. Two
  super admins who demote one another at once leave the platform without one. A list of models that is
  edited during a refresh may stay and miss the new default.
  At the root of a workspace two files may get one name, since `parent_path` is NULL there.
* A line with a slash is a command: `and/or` gives `/or` with the argument `and`, `me@hub` in it
  becomes `me`, and the `b` of `@hub:a/b` is read as one. When the message also has general text,
  the text of such a turn leaves the arguments out.
* A cloned entity has no stored hash; a restart copies the NULL to its instance,
  which is then shown as outdated. Overlapping attachments lose one another's hash.
* `delete_workspace` and `create_passage` can deadlock, since only one of them locks in
  the order of the ids. A passage that was created with the id of another workspace
  outlives its memberships: `delete_workspace` retires passages by workspace.
* Passages are checked for cycles when they are created and not when they are switched
  on or revived. A malformed cron leaves a schedule enabled that never fires.

**Bounds.** Three tasks are the least that show a sleeping worker overtaken by an
earlier task with another one behind; `MaxTime` 4 lets the longest delay pass.
Two loop slots are enough, since the first to be refused a place in
`_runtime_tasks` is the second; one request in flight races the loop, the idle
check and the restart, and the theorems of `HarnessProofs` cover any number.
`Iterations` is 6, above the bounds 4 and, with one failed read of the limits, 5 that
the breakers must keep. Two records and two
requests give every pair of pipeline with pipeline, request and crash. `Limit` 1 with
two rows makes polls leave rows behind; two calls are a late one and the current one.
Two sockets are a connection and its successor; one streamed token tells a replayed
frame from a live one. Two of everything give each race of a pair in `collab`,
`tenancy`, `fornix` and `catalog`; `MaxDue` 2 lets a schedule become due again. Two requests of `catalog` reach every pair
of routes from each of the starting catalogs. Symmetry is used only for
interchangeable identities and in no run that checks liveness.

**Deadlock** is checked in `task_queue`, `harness` and `inject`. The other systems
may rest: records, requests or turns of the instance are used up, or nobody asks.

**Fairness.** asyncio runs every ready coroutine, so each loop, pipeline, request,
call, receive loop and stream has weak fairness on its own steps; so has time (`Tick`,
`IdleTimeoutPasses`), and so has the host. In `InjectQueue` a pod's coroutines have
strong fairness: a send needs a free call, which the bound on `Handlers` makes come
and go, and a killed pod is replaced by Kubernetes again and again; of the polls that
are sent again and again some reach the backend, of these some commit, and the provider
answers now and then: a provider or a database that fails for ever holds every row up.
In `Brainstem` the runner's loop ticks for ever, and a tick that is retried after
a worker died commits some time: not every one of them dies. Requests,
enqueues, kills and failures have no fairness: nothing has to be asked and nothing has
to fail.

## 4. Proofs

Each `*Proofs` module states an inductive invariant (`IInv`, or one for each service), proves that the initial
states have it and that every action keeps it, and derives the properties.

| Theorem | Says |
|---|---|
| `TaskQueueProofs!TypeCorrect`, `NoLossNoDuplicate`, `DispatchNotEarly`, `WakeupKept`, `OrderKept` | the safety properties of the queue, any names, delays, bounds |
| `TaskQueueProofs!Refinement` | `TaskQueue` implements `DelayQueue` |
| `HarnessProofs!TypeCorrect`, `SingleLoop`, `KillBounded`, `ExitClean` | the safety properties of the loops, any number of coroutines, requests, limits and failures |
| `HarnessProofs!BudgetKept` | the checkpoint budget, any limits and any number of failed reads of them, as long as the writes of trips succeed |
| `DeployProofs!TypeCorrect`, `RegistryExact` | the registry holds exactly the started, unfinished pipelines |
| `DeployProofs!StoppedIsDown` | in calm behaviours an Instance that rests in `pending` has no pods, any number of records and requests |
| `InjectQueueProofs!TypeCorrect`, `AppliedOnce` | at most one application of a row, if the Instance has one pod |
| `ComposerProofs!RegistrationAlwaysKept`, `TurnsAlwaysConsistent`, `NoFrameEverLost` | the newest socket stays registered, a turn has one end from the stub and one from the host at most, a browser alone on a turn that has its end has all of it; any number of turns, sockets, browsers, faults |
| `CollabProofs!PassagesAnchored`, `CascadeOnly`, `FiresOnce`, `SeatsAlwaysAccounted`, `NeverReopened` | no passage with a deleted end, no deadlock without a cascade, one firing per due time, every invited seat told or reported, meetings reopened by a race only; any number of memberships, processes, participants, requests |
| `HubProofs!FilesNeverLost`, `EntriesCounted`, `FilesAlwaysConsistent` | any overlap and any failure leave a file live or in the vault, with an entry per archiving, and no two live files on one path below the root |
| `HubProofs!MentionAlwaysWakesReceiver`, `ReachableAlwaysDelivered` | the routing of messages of any length to any number of entities |
| `HubProofs!TextAlwaysKept` | parsing keeps the words of messages of any length, up to those before the first of several mentions, and cuts a word only in a line with a slash, where it holds the command or a scope |
| `HubProofs!CatalogAlwaysConsistent`, `FingerprintAlwaysFollows`, `CopiesAlwaysFaithful`, `RegistryAlwaysFollows` | the catalog: unique slugs and cerebellums under any overlap; and what a request that no commit overlapped leaves: right fingerprints if its route computes them (`catalog_hash` shows those that do not), faithful copies, a right registry except after `transmute_entity`; from the starting catalogs of `MCCatalog`, any number of entities, base classes, genes, capabilities, instances, requests |
| `TenancyProofs!ManagerKept`, `AdminKept`, `OrganizationEmptiedAlways`, `ProviderAlwaysUsable`, `RefreshKeepsListedModel` | accounts, the sweep of an organization and its providers, any number of users, requests, rows, providers |

The proofs are about the specifications the runs check: where services are put
together (`MCCollab`, `MCTenancy`, `MCCatalog`) or two kinds of behaviour are
(`MCHarness`, `MCDeploy`), the theorem is about the composition. The inductive
invariants of `Composer` (with two faults), of the budget, of calm deploys, of messages and of
the catalog were checked by TLC on the run's instance before they were proved.

Why the invariants are what they are:

* *TaskQueue.* That a task is in one place needs that the popped task is in
  neither queue nor history while the worker sleeps (`HeldTask`, `RanApart`), that
  sequence numbers identify tasks (`QueueIdentity`), that all numbers up to `seq`
  are somewhere (`Present`), and that the task whose timer has fired is due and
  still the least (`TimerRight`).
* *Harness.* `AtMostOneLoop` is inductive with the types. The bound on late
  checkpoints needs `LateOnce`: a loop that has written a late checkpoint is
  flagged and past the checkpoint (`PastCheckpoint`), and the test of the flag at the
  top of the next iteration ends it.
  `CleanExit` needs that a loop in `stopped` has no metrics (`StoppedClean`),
  which rests on `AtMostOneLoop`: no other loop can have added any.
* *Deploy.* A record that does not exist has no pipeline
  (`NoRecordNoPipeline`), so that an insert does not meet a running one.
* *InjectQueue.* At most once follows from where a row can be: in one call, inbox,
  guard or batch of the pod at a time (`OnePlace`), the control task waits for at
  most one call (`OneCall`), no row the pod holds pending any more
  (`TakenNotPending`), and what a response brings is not held or applied yet
  (`ResponseIsNew`). With two pods `OnePlace` fails and the row can be
  applied twice; hence the hypothesis `OnePod`.
* *TaskQueue refinement.* The abstract `Fire` takes the least task that waits; that
  the task whose timer fired is still the least of queue and popped task together is
  `TimerRight`, that its number is new at `Accept` is `QueueIdentity` with the bound `seq`.
* *Harness, budget.* A loop has begun at most as many iterations as its metrics
  count plus what was counted before the metrics were last dropped (`LoopBudget`).
  They are dropped with the loop still alive only by a trip of the idle check, which
  goes on to set the flag; `Forgotten` is what may have been lost at each of its steps.
  The count passes the limit only by checkpoints that were not held to it (`Excused`).
* *Deploy, calm.* `StoppedMeansDown` is about rest. On the way an Instance is `pending` with
  pods up while something will settle it: a stop or a cancellation not yet at the
  cluster, or a pipeline that has scaled up and not yet written its outcome (`WillSettle`).
* *Composer.* The holder of the hub's lock is in `auth`, and from the moment the lock is
  taken the registration it will replace is no longer open (`HubInv`); so a cleanup never removes a successor.
  The host's right to end a turn is in one place only: in the request, on the wire,
  in the bridge, on the wire back or in the history (`TicketsApart`); a terminal
  frame is therefore not repeated. Frames wait in the queue in the order of the history
  (`QueueInOrder`), and for a browser alone on a turn what it saw and what
  waits make up the history (`NothingMissing`).
* *Brainstem.* A row that is due has been counted once more than it was fired
  (`FiredBelow`); that a tick still may fire what it selected needs `LockedIsDue`:
  no request changes a locked row.
* *Topology.* A membership held FOR UPDATE is live (`LockedIsLive`), and
  `create_passage` holds both ends from its check to its commit (`EndsHeld`). Who waits and
  holds a membership is a sweep or holds its smaller end (`LocksAccounted`), so that the
  wanted ids would have to grow all along a circle of creations (`NoCycle`). Live
  seats have different positions since a commit applies the unique index (`PlacesApart`).
* *Meetings.* A start under way has every invited seat still before it or told already, and an
  end found them told (`CallsFollowChecks`).
* *Tenancy.* Until a request is overtaken, what its guard found is true of the contracts there are
  (`ChecksDone`): whoever asks manages members, and if the contract is his own he keeps the atom
  or somebody else has one. Every commit that changes a grant ends this for all others, so the
  invariant is proved where a request reads and used at its commit. *OrgTree*: what the sweep has not read yet is still there,
  and what it has read it will delete (`SweepReads`). *Providers* needs its types only.
* *Fornix.* An archive request holds its row from the read on and the row stays live
  (`ArchiveHolds`): so each entry that is added pays for one archiving, and a
  file that leaves the tree enters the vault. `PathsInv` relates rows and mirror.
* *Directives.* Entries of a directive are written when it is its turn, all of them at once
  (`MessageTypes`, `OneTransaction`), and between the two look-ups the entity that was found still
  answers, or there still is none, unless something moved (`FoundAnswers`). That a parsed message is a list, for any
  number of lines and tokens, is an induction over data: `FlattenIsList` makes it with the
  least length at which it fails (`WFMin` on the naturals), since an induction
  scheme cannot be instantiated. For it `Positions` numbers the mentions with
  `Cardinality`: the library's sorting goes through an operator the prover does not know.
* *Words of a message.* `TextKept` is about what the parser computes, so its proof is one of lemmas
  on lists: words of a concatenation, of a line without its references, of the pieces
  between mentions, which add up to the line from the first mention on (`LineKept`). `Made`
  says of an argument where it comes from, and is kept by each operation of the parser (`CutsKept`). They are
  inductions over lengths, made through a least counterexample as above.
* *Catalog.* `CatalogInv` has three parts. The committed cells are consistent and no link belongs
  to a row that nobody has made yet (`Linked`): without it a new row could
  come with links, and a copy would not be faithful. What an open request will write
  has the right columns and is about rows that exist (`Sound`): that holds whatever
  commits meanwhile. And as long as nobody overtook it, the request holds a `Promise`
  about the state it will commit into: no conflict if it reloads the registry, right hashes (`Hashed`), faithful
  copies (`Copied`). A commit ends the promises of all others, so each promise is proved where
  the request is made, route by route, and used at its commit. The unique indexes (`Conflicts`) give the
  consistency of what is committed.

Assumptions on constants: identities that stand for "none" are not in their sets,
limits are positive naturals, delays and bounds are naturals, `Ops` are operations,
`Items` is finite (a poll takes the oldest `Limit` rows, counted with
`Cardinality`) and `Held` a part of it, position 0 is a position; memberships are finitely
many numbers (their ids are ordered for locking), provider ids are numbers,
`Offers` are sets of manage atoms, a message is a sequence of lines of tokens, no slug is the
missing target, what a memory proposes has a name of `Names`, no fingerprint is NULL, the
starting catalog is made of things that exist, and a file is not named like a directory or the root (`NamesAssumption`, which
limits the scope of `Fornix`: a file and a directory that share a path are not modelled).
TLC evaluates all of them.

Only model-checked is liveness, which is out of the prover's reach (it rests on fairness, hence
on ENABLED): `EventuallyDispatched`, `StopCompletes`, `StopHonoured`, `OrphanMetricsReaped`,
`DeploySettlesWhenCalm`, `RestartSettlesWhenCalm`, `PendingDrains`,
`ReceivedIsAcked`, `TurnEnds`, `DueFires`. Every invariant and every
action property of a passing run is a theorem. `HubProofs` takes a quarter of an hour to prove from nothing,
most of it for the routes of `Catalog`; the other modules take minutes.

## 5. Not modelled, and what is left

In order of importance:

1. `TaskQueue` composed with the self-rescheduling idle check and daily report: one
   exception in a scan ends idle detection until the next restart.
2. An abstract at-most-once channel that `InjectQueue` implements with one pod.
3. The control cursor with its limit of 50 events.
4. Cloning of whole workspaces and organizations, user genes, knowledge.

Left out: the event bus (bounded queues that drop events for browsers; status and
record are rows, nothing depends on the event) and the event watcher (it compares
UUID strings with the integer 0, so every poll fails before it dispatches anything);
avatar status, a pure function of states that are modelled; knowledge and user genes,
CRUD over single rows; dependency checks and the static model catalog; calls of LLM
providers; the builders of Kubernetes resources; text formatting; the portal. In
modelled parts: slugs that begin with the name of a scope, as in `@hubris`, which is cut like one;
the deploy fallback without a cluster, `update_instance`; `mark_inject_failed`
and the two sweeps of the inject queue, which nothing calls; nested directories; the
kanban boards of the hub.
