----------------------------- MODULE TaskQueue -----------------------------
(***************************************************************************)
(* The in-memory delayed task queue of the backend (InMemoryTaskQueue in   *)
(* app/core/queue.py): a priority queue ordered by (run_at, seq), one      *)
(* worker coroutine and the asyncio.Event `_wakeup` that tells the worker  *)
(* to look at the head again.                                              *)
(*                                                                         *)
(* asyncio runs one coroutine at a time and switches only at an await that *)
(* really suspends, so each action below is the code between two such      *)
(* points.  `put` on the unbounded queue never suspends.                   *)
(***************************************************************************)
EXTENDS Integers, FiniteSets

CONSTANTS
    Names,      \* task names a caller may register
    Delays,     \* delays a caller may pass to enqueue
    MaxTime,    \* bound on the loop clock
    MaxTasks    \* bound on the number of enqueued tasks

ASSUME DelaysAssumption == Delays \subseteq Nat
ASSUME BoundsAssumption == MaxTime \in Nat /\ MaxTasks \in Nat

VARIABLES
    now,        \* loop.time()
    handlers,   \* _handlers: the registered names
    seq,        \* _seq
    queue,      \* _queue: a set of tasks; the head is its least element
    wakeup,     \* _wakeup.is_set()
    stopping,   \* _stopping
    worker,     \* where the worker coroutine is suspended
    held,       \* the task in the worker's local variables, or NoTask
    ran         \* history: <<task, start time>> of every dispatched task

vars == <<now, handlers, seq, queue, wakeup, stopping, worker, held, ran>>

Task == [run_at : Nat, seq : Nat \ {0}, name : Names]
NoTask == [run_at |-> 0, seq |-> 0]

\* none: _worker_task is None.  top: about to test `while not _stopping`.
\* idle: awaiting _wakeup with an empty queue.  sleeping: inside wait_for
\* with a popped task that is not due.  timedout: the wait_for timer has
\* fired but the coroutine has not been resumed yet.  executing: awaiting
\* the handler.  done: the coroutine has returned and stop() has not yet
\* cleared _worker_task.
WorkerState ==
    {"none", "top", "idle", "sleeping", "timedout", "executing", "done"}

\* The tuple order of the PriorityQueue: run_at first, seq breaks ties.
Before(a, b) == \/ a.run_at < b.run_at
                \/ a.run_at = b.run_at /\ a.seq < b.seq

----------------------------------------------------------------------------
\* Faulty variants of the definitions below, for the mutation runs.

\* The heap compares only the insertion counter, not run_at.
IsHead_SeqOnly(t) == t \in queue /\ \A u \in queue : t.seq <= u.seq

\* enqueue forgets _wakeup.set().
Enqueue_NoWakeup(n, d) ==
    /\ n \in handlers
    /\ seq < MaxTasks
    /\ now + d <= MaxTime
    /\ seq' = seq + 1
    /\ queue' = queue \cup {[run_at |-> now + d, seq |-> seq + 1, name |-> n]}
    /\ UNCHANGED <<now, handlers, wakeup, stopping, worker, held, ran>>

\* stop forgets _wakeup.set().
StopRequest_NoWakeup ==
    /\ stopping' = TRUE
    /\ UNCHANGED <<now, handlers, seq, queue, wakeup, worker, held, ran>>

\* A handler's exception escapes _execute and ends the worker.
WorkerHandlerDone_Crash ==
    /\ worker = "executing"
    /\ held' = NoTask
    /\ worker' = "done"
    /\ UNCHANGED <<now, handlers, seq, queue, wakeup, stopping, ran>>

IsHead(t) == t \in queue /\ \A u \in queue \ {t} : Before(t, u)

----------------------------------------------------------------------------
Init ==
    /\ now = 0
    /\ handlers = {}
    /\ seq = 0
    /\ queue = {}
    /\ wakeup = FALSE
    /\ stopping = FALSE
    /\ worker = "none"
    /\ held = NoTask
    /\ ran = {}

\* register_task: a second registration of a name raises ValueError and
\* changes nothing, so only the successful call is an action.
RegisterTask(n) ==
    /\ n \notin handlers
    /\ handlers' = handlers \cup {n}
    /\ UNCHANGED <<now, seq, queue, wakeup, stopping, worker, held, ran>>

\* enqueue: an unregistered name raises before anything is stored.  Callable
\* at any time by a request, at start-up, or by the handler that is running.
Enqueue(n, d) ==
    /\ n \in handlers
    /\ seq < MaxTasks
    /\ now + d <= MaxTime
    /\ seq' = seq + 1
    /\ queue' = queue \cup {[run_at |-> now + d, seq |-> seq + 1, name |-> n]}
    /\ wakeup' = TRUE
    /\ UNCHANGED <<now, handlers, stopping, worker, held, ran>>

\* start: a no-op while _worker_task is set.
Start ==
    /\ worker = "none"
    /\ stopping' = FALSE
    /\ worker' = "top"
    /\ UNCHANGED <<now, handlers, seq, queue, wakeup, held, ran>>

\* stop, up to `await self._worker_task`.  Without a worker the two flags are
\* set and nothing is awaited; a second caller awaits the same worker.
StopRequest ==
    /\ stopping' = TRUE
    /\ wakeup' = TRUE
    /\ UNCHANGED <<now, handlers, seq, queue, worker, held, ran>>

\* stop, after the worker it awaits has returned.  The application stops its queue
\* once, at shutdown: a second stop() that resumes after a later start is left out.
StopReturn ==
    /\ worker = "done"
    /\ stopping
    /\ worker' = "none"
    /\ UNCHANGED <<now, handlers, seq, queue, wakeup, stopping, held, ran>>

----------------------------------------------------------------------------
\* _worker_loop from the `while` test to the next suspension.

WorkerExit ==
    /\ worker = "top"
    /\ stopping
    /\ worker' = "done"
    /\ UNCHANGED <<now, handlers, seq, queue, wakeup, stopping, held, ran>>

WorkerIdle ==
    /\ worker = "top"
    /\ ~stopping
    /\ queue = {}
    /\ wakeup' = FALSE
    /\ worker' = "idle"
    /\ UNCHANGED <<now, handlers, seq, queue, stopping, held, ran>>

WorkerRunDue ==
    /\ worker = "top"
    /\ ~stopping
    /\ \E t \in queue :
          /\ IsHead(t)
          /\ t.run_at <= now
          /\ queue' = queue \ {t}
          /\ held' = t
          /\ ran' = ran \cup {<<t, now>>}
    /\ worker' = "executing"
    /\ UNCHANGED <<now, handlers, seq, wakeup, stopping>>

WorkerSleep ==
    /\ worker = "top"
    /\ ~stopping
    /\ \E t \in queue :
          /\ IsHead(t)
          /\ t.run_at > now
          /\ queue' = queue \ {t}
          /\ held' = t
    /\ wakeup' = FALSE
    /\ worker' = "sleeping"
    /\ UNCHANGED <<now, handlers, seq, stopping, ran>>

\* The idle worker is resumed because _wakeup was set.
WorkerResume ==
    /\ worker = "idle"
    /\ wakeup
    /\ worker' = "top"
    /\ UNCHANGED <<now, handlers, seq, queue, wakeup, stopping, held, ran>>

\* The sleeping worker is resumed by _wakeup: it puts its task back.
WorkerReinsert ==
    /\ worker = "sleeping"
    /\ wakeup
    /\ queue' = queue \cup {held}
    /\ held' = NoTask
    /\ worker' = "top"
    /\ UNCHANGED <<now, handlers, seq, wakeup, stopping, ran>>

\* The event loop moves the due timer of wait_for to its ready list.  A
\* wake-up set earlier has put the coroutine there first and then the timer
\* is cancelled, so the timer wins only while _wakeup is clear; a wake-up set
\* after this point does not undo it.
TimerFires ==
    /\ worker = "sleeping"
    /\ ~wakeup
    /\ held.run_at <= now
    /\ worker' = "timedout"
    /\ UNCHANGED <<now, handlers, seq, queue, wakeup, stopping, held, ran>>

\* wait_for raises TimeoutError: the held task is dispatched.
WorkerRunTimedOut ==
    /\ worker = "timedout"
    /\ ran' = ran \cup {<<held, now>>}
    /\ worker' = "executing"
    /\ UNCHANGED <<now, handlers, seq, queue, wakeup, stopping, held>>

\* _execute returns: the handler finished, or raised and was logged.
WorkerHandlerDone ==
    /\ worker = "executing"
    /\ held' = NoTask
    /\ worker' = "top"
    /\ UNCHANGED <<now, handlers, seq, queue, wakeup, stopping, ran>>

Tick ==
    /\ now < MaxTime
    /\ now' = now + 1
    /\ UNCHANGED <<handlers, seq, queue, wakeup, stopping, worker, held, ran>>

Worker ==
    \/ WorkerExit \/ WorkerIdle \/ WorkerRunDue \/ WorkerSleep
    \/ WorkerResume \/ WorkerReinsert \/ TimerFires \/ WorkerRunTimedOut
    \/ WorkerHandlerDone

Client ==
    \/ \E n \in Names : RegisterTask(n)
    \/ \E n \in Names, d \in Delays : Enqueue(n, d)
    \/ Start
    \/ StopRequest
    \/ StopReturn

Next == Client \/ Worker \/ Tick

Spec == Init /\ [][Next]_vars

\* The event loop keeps resuming ready coroutines and the clock advances; a
\* handler is assumed to return.  Clients are free to do nothing.
Fairness == WF_vars(Worker) /\ WF_vars(Tick) /\ WF_vars(StopReturn)

FairSpec == Spec /\ Fairness

----------------------------------------------------------------------------
Dispatched == {p[1] : p \in ran}

TypeOK ==
    /\ now \in Nat
    /\ handlers \subseteq Names
    /\ seq \in Nat
    /\ queue \subseteq Task
    /\ wakeup \in BOOLEAN
    /\ stopping \in BOOLEAN
    /\ worker \in WorkerState
    /\ held \in Task \cup {NoTask}
    /\ ran \subseteq Task \X Nat

\* What waits for its dispatch: the queue and the head the worker has popped.
Waiting == queue \cup (IF worker \in {"sleeping", "timedout"} THEN {held} ELSE {})

Promise == INSTANCE DelayQueue WITH clock <- now, waiting <- Waiting, fired <- ran

\* The queue implements DelayQueue: whatever the worker has popped and whatever
\* wakes it, callers see tasks accepted once and dispatched once, in the order of
\* (run_at, seq), never early, and no popped head is lost or run twice.
ImplementsDelayQueue == Promise!DelaySpec

\* Every task ever enqueued is in exactly one place: waiting in the queue,
\* held by the sleeping worker, or dispatched.  The hazard is the pop before
\* the sleep (queue.py: get_nowait, then wait_for): a wake-up or a stop that
\* arrives meanwhile must not lose or duplicate the popped task.
EachTaskInOnePlace ==
    \A s \in 1..seq :
        \/ /\ \E t \in queue : t.seq = s
           /\ \A t \in Dispatched : t.seq # s
           /\ worker \in {"sleeping", "timedout"} => held.seq # s
        \/ /\ worker \in {"sleeping", "timedout"} /\ held.seq = s
           /\ \A t \in Dispatched : t.seq # s
           /\ \A t \in queue : t.seq # s
        \/ /\ \E t \in Dispatched : t.seq = s
           /\ \A t \in queue : t.seq # s
           /\ worker \in {"sleeping", "timedout"} => held.seq # s

\* No handler starts before its run_at.
NeverEarly == \A p \in ran : p[1].run_at <= p[2]

\* A dispatch picks the least waiting task in (run_at, seq) order, although
\* the worker may have slept on another head when an earlier task arrived.
DispatchInOrder ==
    [][\A p \in ran' \ ran : \A u \in queue' : Before(p[1], u)]_vars

\* No wake-up is lost: while the worker sleeps on a task and the event is
\* clear, nothing that should run earlier is in the queue; while it idles
\* with the event clear the queue is empty and no stop is pending.
NoLostWakeup ==
    /\ worker = "sleeping" /\ ~wakeup =>
          ~stopping /\ \A u \in queue : Before(held, u)
    /\ worker = "idle" /\ ~wakeup => ~stopping /\ queue = {}

\* A task that has been enqueued is eventually dispatched, provided the
\* worker is started and from some point on is never stopped again.
EventuallyDispatched ==
    \A s \in 1..MaxTasks :
        <>[](worker # "none" /\ ~stopping)
            => ((seq >= s) ~> (\E t \in Dispatched : t.seq = s))

\* stop() always gets its worker back, whatever the worker was waiting for
\* when _stopping was set: an empty queue, a distant run_at or a handler.
StopCompletes == stopping ~> (worker = "none")
============================================================================
