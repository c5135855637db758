---------------------------- MODULE InjectQueue ----------------------------
(***************************************************************************)
(* The inject queue of one Instance: rows of instance_inject_queue         *)
(* (core/inject_queue.py), the poll and ack endpoints (api/v1/internal.py) *)
(* and the pods that consume them (agent_runtime/loop.py in pod mode).     *)
(*                                                                         *)
(* A call of an endpoint reads and commits in two steps, as its            *)
(* transaction does under READ COMMITTED: a flush writes what the session  *)
(* computed from its read, whatever has been committed since.  A pod that  *)
(* has timed out or died no longer listens, but its call runs on.          *)
(*                                                                         *)
(* The order in which a pod works through the rows it has received is left *)
(* open: no property depends on it.                                        *)
(***************************************************************************)
EXTENDS Naturals, FiniteSets

CONSTANTS
    Items,      \* rows that may be enqueued
    Held,       \* those with delivery_mode soft_inject or wake
    Pods,       \* pods of the Instance that can exist at the same time
    Handlers,   \* bound: concurrent calls of the endpoints
    Limit,      \* rows per poll
    Faults      \* which kinds of failure may happen

ASSUME ItemsAssumption == IsFiniteSet(Items)
ASSUME HeldAssumption == Held \subseteq Items
ASSUME LimitAssumption == Limit \in Nat \ {0}

VARIABLES
    row,        \* InstanceInjectQueue.status, or "absent"
    born,       \* position in the order of created_at, id
    overdue,    \* pending rows whose expires_at has passed
    kill,       \* a harness.control_sent event with action kill exists
    applied,    \* committed harness.inject_applied events of each row
    lostAck,    \* (history) rows with an ack that failed or never arrived
    call,       \* the endpoint calls in progress
    poller,     \* where the control poll task of each pod is
    loop,       \* where the agent loop of each pod is
    inbox,      \* rows of a poll response that are still to be handled
    guard,      \* SafePointGuard._pending
    batch,      \* flushed rows that are still to be applied
    stop        \* stop_flag

queueVars == <<row, born, overdue, kill, applied, lostAck>>
podVars == <<poller, loop, inbox, guard, batch, stop>>
vars == <<queueVars, call, podVars>>

InjectStatus ==
    {"absent", "pending", "delivered", "acked", "failed", "expired"}
CallPC == {"free", "poll_read", "poll_commit", "ack_read", "ack_commit"}
PollerPC == {"off", "ready", "waiting", "handle"}
LoopPC == {"down", "sleep", "work", "apply", "waiting"}

\* caller is empty when nobody listens any more; task is the coroutine of
\* the pod that waits.
Call == [pc : CallPC, rows : SUBSET Items, kill : BOOLEAN,
         caller : SUBSET Pods, task : {"poller", "loop"}]
Free == [pc |-> "free", rows |-> {}, kill |-> FALSE, caller |-> {},
         task |-> "poller"]

----------------------------------------------------------------------------
Init ==
    /\ row = [i \in Items |-> "absent"]
    /\ born = [i \in Items |-> 0]
    /\ overdue = {}
    /\ kill = FALSE
    /\ applied = [i \in Items |-> 0]
    /\ lostAck = {}
    /\ call = [h \in Handlers |-> Free]
    /\ poller = [p \in Pods |-> "off"]
    /\ loop = [p \in Pods |-> "down"]
    /\ inbox = [p \in Pods |-> {}]
    /\ guard = [p \in Pods |-> {}]
    /\ batch = [p \in Pods |-> {}]
    /\ stop = [p \in Pods |-> FALSE]

Pending == {i \in Items : row[i] = "pending"}
Due == Pending \ overdue
Oldest(S) == {i \in S : Cardinality({j \in S : born[j] < born[i]}) < Limit}

----------------------------------------------------------------------------
\* Faulty variants of the definitions below, for the mutation runs.

\* The poll returns rows that an earlier poll has delivered as well.
PollRead_Redelivers(h) ==
    /\ call[h].pc = "poll_read"
    /\ row' = [i \in Items |-> IF i \in Pending \cap overdue THEN "expired"
                                                              ELSE row[i]]
    /\ call' = [call EXCEPT ![h] =
                  [pc |-> "poll_commit", kill |-> kill,
                   rows |-> Oldest(Due \cup {i \in Items : row[i] = "delivered"}),
                   caller |-> call[h].caller, task |-> "poller"]]
    /\ overdue' = {i \in overdue : row'[i] = "pending"}
    /\ UNCHANGED <<born, kill, applied, lostAck, podVars>>

\* The poll leaves overdue rows alone, and does not return them either.
Expire_Never == row

\* The flush of the guard forgets the rows it returns.
Checkpoint_DropsHeld(p) ==
    /\ loop[p] = "work"
    /\ guard' = [guard EXCEPT ![p] = {}]
    /\ loop' = [loop EXCEPT ![p] = "apply"]
    /\ UNCHANGED <<queueVars, call, poller, inbox, batch, stop>>

----------------------------------------------------------------------------
\* The backend.

\* enqueue_inject and the commit of its caller.
Enqueue(i) ==
    /\ row[i] = "absent"
    /\ row' = [row EXCEPT ![i] = "pending"]
    /\ born' = [born EXCEPT ![i] =
                  Cardinality({j \in Items : row[j] # "absent"})]
    /\ UNCHANGED <<overdue, kill, applied, lostAck, call, podVars>>

\* The hour of _DEFAULT_TTL passes.
TtlPasses(i) ==
    /\ row[i] = "pending" /\ i \notin overdue
    /\ overdue' = overdue \cup {i}
    /\ UNCHANGED <<row, born, kill, applied, lostAck, call, podVars>>

\* Somebody interrupts the Instance.  The pod's cursor never advances (ids
\* are no integers), so this event is in the response of every later poll.
SendKill ==
    /\ "kill" \in Faults
    /\ ~kill
    /\ kill' = TRUE
    /\ UNCHANGED <<row, born, overdue, applied, lostAck, call, podVars>>

Expire == [i \in Items |-> IF i \in Pending \cap overdue THEN "expired"
                                                          ELSE row[i]]

\* poll_pending_injects up to its select.
PollRead(h) ==
    /\ call[h].pc = "poll_read"
    /\ row' = Expire
    /\ call' = [call EXCEPT ![h] =
                  [pc |-> "poll_commit", kill |-> kill, rows |-> Oldest(Due),
                   caller |-> call[h].caller, task |-> "poller"]]
    /\ overdue' = {i \in overdue : row'[i] = "pending"}
    /\ UNCHANGED <<born, kill, applied, lostAck, podVars>>

\* Its flush, the commit and the response.  A kill in the response stops the
\* pod before it has looked at the rows.
PollCommit(h) ==
    /\ call[h].pc = "poll_commit"
    /\ row' = [i \in Items |-> IF i \in call[h].rows THEN "delivered" ELSE row[i]]
    /\ call' = [call EXCEPT ![h] = Free]
    /\ inbox' = [p \in Pods |-> IF p \in call[h].caller /\ ~call[h].kill
                                  THEN call[h].rows ELSE inbox[p]]
    /\ poller' = [p \in Pods |-> IF p \in call[h].caller
                                   THEN IF call[h].kill THEN "off" ELSE "handle"
                                   ELSE poller[p]]
    /\ stop' = [p \in Pods |-> stop[p] \/ (p \in call[h].caller /\ call[h].kill)]
    /\ overdue' = {i \in overdue : row'[i] = "pending"}
    /\ UNCHANGED <<born, kill, applied, lostAck, loop, guard, batch>>

\* The coroutine that waits for a call goes on; the failure of an ack is
\* logged and forgotten.
Resume(h) ==
    /\ poller' = [p \in Pods |->
                    IF p \in call[h].caller /\ call[h].task = "poller"
                      THEN IF call[h].pc \in {"poll_read", "poll_commit"}
                             THEN "ready" ELSE "handle"
                      ELSE poller[p]]
    /\ loop' = [p \in Pods |->
                  IF p \in call[h].caller /\ call[h].task = "loop" THEN "apply"
                                                                   ELSE loop[p]]
    /\ UNCHANGED <<inbox, guard, batch, stop>>

\* ack_injects: a row that is not in status delivered is skipped.
AckRead(h) ==
    /\ call[h].pc = "ack_read"
    /\ \E i \in call[h].rows :
          IF row[i] = "delivered"
            THEN /\ call' = [call EXCEPT ![h] =
                               [pc |-> "ack_commit", rows |-> {i}, kill |-> FALSE,
                                caller |-> call[h].caller, task |-> call[h].task]]
                 /\ UNCHANGED podVars
            ELSE call' = [call EXCEPT ![h] = Free] /\ Resume(h)
    /\ UNCHANGED queueVars

AckCommit(h) ==
    /\ call[h].pc = "ack_commit"
    /\ row' = [i \in Items |-> IF i \in call[h].rows THEN "acked" ELSE row[i]]
    /\ applied' = [i \in Items |-> IF i \in call[h].rows \cap Held
                                     THEN applied[i] + 1 ELSE applied[i]]
    /\ call' = [call EXCEPT ![h] = Free]
    /\ Resume(h)
    /\ UNCHANGED <<born, overdue, kill, lostAck>>

\* A call ends without having written anything.
Fail(h) ==
    /\ call' = [call EXCEPT ![h] = Free]
    /\ Resume(h)
    /\ lostAck' = lostAck \cup IF call[h].pc \in {"ack_read", "ack_commit"}
                               THEN call[h].rows ELSE {}
    /\ UNCHANGED <<row, born, overdue, kill, applied>>

\* A call fails and is rolled back.
CallRaises(h) ==
    /\ "db" \in Faults
    /\ call[h].pc # "free"
    /\ Fail(h)

\* A request never reaches the backend: no connection, or the pod's own
\* exception before it is sent.
CallLost(h) ==
    /\ "lost" \in Faults
    /\ call[h].pc \in {"poll_read", "ack_read"}
    /\ Fail(h)

\* The client's timeout: it gives up, the call runs on.
CallTimesOut(h) ==
    /\ "timeout" \in Faults
    /\ call[h].caller # {}
    /\ call' = [call EXCEPT ![h] = [pc |-> call[h].pc, rows |-> call[h].rows,
                                    kill |-> call[h].kill, caller |-> {},
                                    task |-> call[h].task]]
    /\ Resume(h)
    /\ UNCHANGED queueVars

HandlerStep(h) == PollRead(h) \/ PollCommit(h) \/ AckRead(h) \/ AckCommit(h)

----------------------------------------------------------------------------
\* A pod.

Idle == {h \in Handlers : call[h].pc = "free"}

\* Which of the idle handlers takes the call makes no difference.
Send(p, t, pc, rows) ==
    /\ Idle # {}
    /\ call' = [call EXCEPT ![CHOOSE h \in Idle : TRUE] =
                  [pc |-> pc, rows |-> rows, kill |-> FALSE,
                   caller |-> {p}, task |-> t]]

Goto(f, p, pc) == [f EXCEPT ![p] = pc]

\* _poll_control_loop
PollSend(p) ==
    /\ poller[p] = "ready"
    /\ Send(p, "poller", "poll_read", {})
    /\ poller' = Goto(poller, p, "waiting")
    /\ UNCHANGED <<queueVars, loop, inbox, guard, batch, stop>>

HandleHeld(p) ==
    /\ poller[p] = "handle"
    /\ \E i \in inbox[p] \cap Held :
          /\ inbox' = [inbox EXCEPT ![p] = inbox[p] \ {i}]
          /\ guard' = [guard EXCEPT ![p] = guard[p] \cup {i}]
    /\ UNCHANGED <<queueVars, call, poller, loop, batch, stop>>

HandleNotify(p) ==
    /\ poller[p] = "handle"
    /\ \E i \in inbox[p] \ Held :
          /\ inbox' = [inbox EXCEPT ![p] = inbox[p] \ {i}]
          /\ Send(p, "poller", "ack_read", {i})
    /\ poller' = Goto(poller, p, "waiting")
    /\ UNCHANGED <<queueVars, loop, guard, batch, stop>>

PollAgain(p) ==
    /\ poller[p] = "handle" /\ inbox[p] = {}
    /\ poller' = Goto(poller, p, "ready")
    /\ UNCHANGED <<queueVars, call, loop, inbox, guard, batch, stop>>

\* run_agent_loop: the check of stop_flag at the top of an iteration ...
LoopTop(p) ==
    /\ loop[p] = "sleep" /\ ~stop[p]
    /\ loop' = Goto(loop, p, "work")
    /\ UNCHANGED <<queueVars, call, poller, inbox, guard, batch, stop>>

\* ... LLMError: back off and go on, without checkpoint and flush ...
LLMFails(p) ==
    /\ "llm" \in Faults
    /\ loop[p] = "work"
    /\ loop' = Goto(loop, p, "sleep")
    /\ UNCHANGED <<queueVars, call, poller, inbox, guard, batch, stop>>

\* ... its checkpoint and the flush of the guard (the loop calls no tools,
\* so it is always at a safe point) ...
Checkpoint(p) ==
    /\ loop[p] = "work"
    /\ batch' = [batch EXCEPT ![p] = guard[p]]
    /\ guard' = [guard EXCEPT ![p] = {}]
    /\ loop' = Goto(loop, p, "apply")
    /\ UNCHANGED <<queueVars, call, poller, inbox, stop>>

\* ... and _apply_inject for each of the rows.
ApplyHeld(p) ==
    /\ loop[p] = "apply"
    /\ \E i \in batch[p] :
          /\ batch' = [batch EXCEPT ![p] = batch[p] \ {i}]
          /\ Send(p, "loop", "ack_read", {i})
    /\ loop' = Goto(loop, p, "waiting")
    /\ UNCHANGED <<queueVars, poller, inbox, guard, stop>>

IterationEnds(p) ==
    /\ loop[p] = "apply" /\ batch[p] = {}
    /\ loop' = Goto(loop, p, "sleep")
    /\ UNCHANGED <<queueVars, call, poller, inbox, guard, batch, stop>>

\* The process ends and forgets what it held.
Down(p) ==
    /\ loop' = Goto(loop, p, "down")
    /\ poller' = Goto(poller, p, "off")
    /\ inbox' = [inbox EXCEPT ![p] = {}]
    /\ guard' = [guard EXCEPT ![p] = {}]
    /\ batch' = [batch EXCEPT ![p] = {}]
    /\ stop' = [stop EXCEPT ![p] = FALSE]
    /\ call' = [h \in Handlers |->
                  [pc |-> call[h].pc, rows |-> call[h].rows,
                   kill |-> call[h].kill, caller |-> call[h].caller \ {p},
                   task |-> call[h].task]]
    /\ UNCHANGED queueVars

PodExits(p) == loop[p] = "sleep" /\ stop[p] /\ Down(p)

\* Also the end of a loop whose iterations are used up or whose event could
\* not be sent.
PodCrashes(p) == "crash" \in Faults /\ loop[p] # "down" /\ Down(p)

\* The Deployment starts the container again.
PodStart(p) ==
    /\ loop[p] = "down"
    /\ loop' = Goto(loop, p, "sleep")
    /\ poller' = Goto(poller, p, "ready")
    /\ UNCHANGED <<queueVars, call, inbox, guard, batch, stop>>

PollerStep(p) ==
    PollSend(p) \/ HandleHeld(p) \/ HandleNotify(p) \/ PollAgain(p)

LoopStep(p) ==
    \/ PodStart(p) \/ LoopTop(p) \/ Checkpoint(p) \/ ApplyHeld(p)
    \/ IterationEnds(p) \/ PodExits(p)

Next ==
    \/ \E i \in Items : Enqueue(i) \/ TtlPasses(i)
    \/ SendKill
    \/ \E h \in Handlers : HandlerStep(h) \/ CallRaises(h) \/ CallLost(h) \/ CallTimesOut(h)
    \/ \E p \in Pods : PollerStep(p) \/ LoopStep(p) \/ LLMFails(p) \/ PodCrashes(p)

Spec == Init /\ [][Next]_vars

\* The database and the pods make progress, and a pod that is down is started
\* again.  A coroutine that is ready infinitely often finds a free handler.
\* Failures come again and again but do not take over: of the polls that are
\* sent some reach the backend, of those that do some commit, and the provider
\* answers now and then.
Fairness ==
    /\ \A h \in Handlers : WF_vars(HandlerStep(h))
    /\ SF_vars(\E h \in Handlers : PollRead(h))
    /\ SF_vars(\E h \in Handlers : PollCommit(h))
    /\ \A p \in Pods :
          SF_vars(PollerStep(p)) /\ SF_vars(LoopStep(p)) /\ SF_vars(Checkpoint(p))

FairSpec == Spec /\ Fairness

----------------------------------------------------------------------------
TypeOK ==
    /\ row \in [Items -> InjectStatus]
    /\ born \in [Items -> Nat]
    /\ overdue \subseteq Items
    /\ kill \in BOOLEAN
    /\ applied \in [Items -> Nat]
    /\ lostAck \subseteq Items
    /\ call \in [Handlers -> Call]
    /\ poller \in [Pods -> PollerPC]
    /\ loop \in [Pods -> LoopPC]
    /\ inbox \in [Pods -> SUBSET Items]
    /\ guard \in [Pods -> SUBSET Items]
    /\ batch \in [Pods -> SUBSET Items]
    /\ stop \in [Pods -> BOOLEAN]

\* "Rows that are not in the delivered state are skipped, so acking is
\* idempotent" (internal_control_ack): one inject yields at most one
\* harness.inject_applied event.  True while the Instance has one pod, with
\* lost responses, late commits, kills and restarts.
AppliedAtMostOnce == \A i \in Items : applied[i] <= 1

\* A row does not stay pending: it is polled or it expires, although pods
\* are killed, calls time out and a poll takes Limit rows at a time.
PendingDrains == \A i \in Items : (row[i] = "pending") ~> (row[i] # "pending")

\* What has reached a pod is acked, unless the pod goes down first or an ack
\* fails or never reaches the backend, which the pod forgets: neither the guard
\* nor the hand-over between its two tasks loses a row, a provider that fails
\* for a while only delays it, and an ack that the pod gave up on is carried
\* out by the backend.
ReceivedIsAcked ==
    \A p \in Pods, i \in Items :
        (i \in inbox[p] \cup guard[p] \cup batch[p])
            ~> (row[i] = "acked" \/ loop[p] = "down" \/ i \in lostAck)
============================================================================
