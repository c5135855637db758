-------------------------- MODULE TaskQueueProofs --------------------------
(***************************************************************************)
(* The safety of the task queue for every set of names, every delay and    *)
(* every bound: no task is lost, duplicated, run early or run out of       *)
(* order, and no wake-up is lost.                                          *)
(***************************************************************************)
EXTENDS TaskQueue, TLAPS

Popped == worker \in {"sleeping", "timedout"}

\* Sequence numbers identify the queued tasks.
QueueIdentity ==
    /\ \A t \in queue : t.seq <= seq
    /\ \A t, u \in queue : t.seq = u.seq => t = u

\* A dispatched number has been given out and is not queued any more.
RanApart ==
    \A p \in ran : p[1].seq <= seq /\ \A t \in queue : p[1].seq # t.seq

\* The task in the worker's local variables is nowhere else.
HeldTask ==
    Popped =>
        /\ held \in Task
        /\ held.seq <= seq
        /\ \A t \in queue : t.seq # held.seq
        /\ \A p \in ran : p[1].seq # held.seq

\* Nothing is lost: each number given out is in one of the three places.
Present ==
    \A s \in 1..seq :
        \/ \E t \in queue : t.seq = s
        \/ \E p \in ran : p[1].seq = s
        \/ Popped /\ held.seq = s

\* When the timer has fired, the held task is due and still the least.
TimerRight ==
    worker = "timedout" =>
        held.run_at <= now /\ \A u \in queue : Before(held, u)

IInv ==
    /\ TypeOK
    /\ QueueIdentity
    /\ RanApart
    /\ HeldTask
    /\ Present
    /\ TimerRight
    /\ NoLostWakeup
    /\ NeverEarly

LEMMA InitInv == Init => IInv
  <1> SUFFICES ASSUME Init PROVE IInv
    OBVIOUS
  <1> USE DEF Init
  <1>1. TypeOK
    BY DEF TypeOK, WorkerState
  <1>2. QueueIdentity /\ RanApart
    BY DEF QueueIdentity, RanApart
  <1>3. HeldTask
    BY DEF HeldTask, Popped
  <1>4. Present
    BY DEF Present
  <1>5. TimerRight /\ NoLostWakeup /\ NeverEarly
    BY DEF TimerRight, NoLostWakeup, NeverEarly
  <1> QED
    BY <1>1, <1>2, <1>3, <1>4, <1>5 DEF IInv

----------------------------------------------------------------------------
\* Actions that move no task between the three places.
LEMMA QuietStep ==
    ASSUME IInv,
           UNCHANGED <<seq, queue, held, ran>>,
           handlers' \subseteq Names,
           now' \in Nat, now' >= now,
           wakeup' \in BOOLEAN, stopping' \in BOOLEAN,
           worker' \in WorkerState,
           Popped' <=> Popped,
           TimerRight', NoLostWakeup'
    PROVE  IInv'
  <1> USE DEF IInv
  <1>1. TypeOK'
    BY DEF TypeOK
  <1>2. QueueIdentity' /\ RanApart'
    BY DEF QueueIdentity, RanApart
  <1>3. HeldTask'
    BY DEF HeldTask, Popped
  <1>4. Present'
    BY DEF Present, Popped
  <1>5. NeverEarly'
    BY DEF NeverEarly
  <1> QED
    BY <1>1, <1>2, <1>3, <1>4, <1>5

\* enqueue adds the next number, due no earlier than now, and sets _wakeup.
LEMMA EnqueueStep ==
    ASSUME IInv, NEW n \in Names, NEW d \in Delays, Enqueue(n, d)
    PROVE  IInv'
  <1> DEFINE new == [run_at |-> now + d, seq |-> seq + 1, name |-> n]
  <1>0. /\ new \in Task
        /\ new.seq = seq + 1
        /\ new.run_at >= now
        /\ seq \in Nat /\ now \in Nat
    BY DelaysAssumption DEF Task, IInv, TypeOK
  <1>a. /\ queue' = queue \cup {new}
        /\ seq' = seq + 1
        /\ wakeup' = TRUE
        /\ UNCHANGED <<now, handlers, stopping, worker, held, ran>>
    BY DEF Enqueue
  <1>b. \A t \in queue : t \in Task /\ t.seq \in Nat /\ t.run_at \in Nat
    BY DEF IInv, TypeOK, Task
  <1>c. \A p \in ran : p[1] \in Task /\ p[1].seq \in Nat
    BY DEF IInv, TypeOK, Task
  <1>d. Popped => held.seq \in Nat /\ held.run_at \in Nat
    BY DEF IInv, HeldTask, Task
  <1> HIDE DEF new
  <1>1. TypeOK'
    BY <1>0, <1>a DEF IInv, TypeOK
  <1>2. QueueIdentity'
    BY <1>0, <1>a, <1>b DEF IInv, QueueIdentity
  <1>3. RanApart'
    BY <1>0, <1>a, <1>c DEF IInv, RanApart
  <1>4. HeldTask'
    BY <1>0, <1>a, <1>d DEF IInv, HeldTask, Popped
  <1>5. Present'
    <2> SUFFICES ASSUME NEW s \in 1..(seq + 1)
                 PROVE  \/ \E t \in queue' : t.seq = s
                        \/ \E p \in ran' : p[1].seq = s
                        \/ Popped' /\ held'.seq = s
      BY <1>a DEF Present
    <2>1. CASE s = seq + 1
      BY <2>1, <1>0, <1>a
    <2>2. CASE s # seq + 1
      <3>1. s \in 1..seq
        BY <2>2, <1>0
      <3> QED
        BY <3>1, <1>a DEF IInv, Present, Popped
    <2> QED BY <2>1, <2>2
  <1>6. TimerRight'
    <2> SUFFICES ASSUME worker = "timedout", NEW u \in queue'
                 PROVE  held.run_at <= now /\ Before(held, u)
      BY <1>0, <1>a, <1>d DEF IInv, TimerRight, Before
    <2>1. held.run_at <= now /\ held.seq <= seq /\ held.run_at \in Nat
          /\ held.seq \in Nat
      BY <1>d DEF IInv, TimerRight, HeldTask, Popped
    <2>2. CASE u \in queue
      BY <2>1, <2>2 DEF IInv, TimerRight
    <2>3. CASE u = new
      BY <2>1, <2>3, <1>0 DEF Before, Task
    <2> QED BY <2>2, <2>3, <1>a
  <1>7. NoLostWakeup' /\ NeverEarly'
    BY <1>a DEF IInv, NoLostWakeup, NeverEarly
  <1> QED
    BY <1>1, <1>2, <1>3, <1>4, <1>5, <1>6, <1>7 DEF IInv

\* The two pops of the worker take one task t out of the queue.
LEMMA RunDueStep ==
    ASSUME IInv, WorkerRunDue
    PROVE  IInv'
  <1>1. PICK t \in queue :
           /\ IsHead(t)
           /\ t.run_at <= now
           /\ queue' = queue \ {t}
           /\ held' = t
           /\ ran' = ran \cup {<<t, now>>}
    BY DEF WorkerRunDue
  <1>2. /\ worker = "top" /\ worker' = "executing"
        /\ UNCHANGED <<now, handlers, seq, wakeup, stopping>>
    BY DEF WorkerRunDue
  <1>3. t \in Task /\ now \in Nat
    BY DEF IInv, TypeOK
  <1>4. TypeOK'
    BY <1>1, <1>2, <1>3 DEF IInv, TypeOK, WorkerState
  <1>5. QueueIdentity'
    BY <1>1, <1>2 DEF IInv, QueueIdentity
  <1>6. RanApart'
    BY <1>1, <1>2 DEF IInv, QueueIdentity, RanApart
  <1>7. HeldTask' /\ TimerRight' /\ NoLostWakeup'
    BY <1>2 DEF HeldTask, TimerRight, NoLostWakeup, Popped
  <1>8. Present'
    <2> SUFFICES ASSUME NEW s \in 1..seq
                 PROVE  \/ \E u \in queue' : u.seq = s
                        \/ \E p \in ran' : p[1].seq = s
      BY <1>2 DEF Present
    <2>1. CASE t.seq = s
      <3>1. <<t, now>> \in ran' /\ <<t, now>>[1].seq = s
        BY <2>1, <1>1
      <3> QED BY <3>1
    <2>2. CASE t.seq # s
      BY <2>2, <1>1, <1>2 DEF IInv, Present, Popped
    <2> QED BY <2>1, <2>2
  <1>9. NeverEarly'
    BY <1>1, <1>2 DEF IInv, NeverEarly
  <1> QED
    BY <1>4, <1>5, <1>6, <1>7, <1>8, <1>9 DEF IInv

LEMMA SleepStep ==
    ASSUME IInv, WorkerSleep
    PROVE  IInv'
  <1>1. PICK t \in queue :
           /\ IsHead(t)
           /\ t.run_at > now
           /\ queue' = queue \ {t}
           /\ held' = t
    BY DEF WorkerSleep
  <1>2. /\ worker = "top" /\ worker' = "sleeping"
        /\ ~stopping /\ wakeup' = FALSE
        /\ UNCHANGED <<now, handlers, seq, stopping, ran>>
    BY DEF WorkerSleep
  <1>3. t \in Task
    BY DEF IInv, TypeOK
  <1>4. TypeOK'
    BY <1>1, <1>2, <1>3 DEF IInv, TypeOK, WorkerState
  <1>5. QueueIdentity' /\ RanApart'
    BY <1>1, <1>2 DEF IInv, QueueIdentity, RanApart
  <1>6. HeldTask'
    BY <1>1, <1>2, <1>3 DEF IInv, QueueIdentity, RanApart, HeldTask
  <1>7. Present'
    <2> SUFFICES ASSUME NEW s \in 1..seq
                 PROVE  \/ \E u \in queue' : u.seq = s
                        \/ \E p \in ran' : p[1].seq = s
                        \/ held'.seq = s
      BY <1>2 DEF Present, Popped
    <2> QED
      BY <1>1, <1>2 DEF IInv, Present, Popped
  <1>8. TimerRight' /\ NeverEarly'
    BY <1>2 DEF IInv, TimerRight, NeverEarly
  <1>9. NoLostWakeup'
    BY <1>1, <1>2 DEF NoLostWakeup, IsHead
  <1> QED
    BY <1>4, <1>5, <1>6, <1>7, <1>8, <1>9 DEF IInv

\* The woken worker puts the popped task back.
LEMMA ReinsertStep ==
    ASSUME IInv, WorkerReinsert
    PROVE  IInv'
  <1>1. /\ worker = "sleeping" /\ worker' = "top"
        /\ queue' = queue \cup {held} /\ held' = NoTask
        /\ UNCHANGED <<now, handlers, seq, wakeup, stopping, ran>>
    BY DEF WorkerReinsert
  <1>2. /\ held \in Task
        /\ held.seq <= seq
        /\ \A t \in queue : t.seq # held.seq
        /\ \A p \in ran : p[1].seq # held.seq
    BY <1>1 DEF IInv, HeldTask, Popped
  <1>3. TypeOK'
    BY <1>1, <1>2 DEF IInv, TypeOK, WorkerState
  <1>4. QueueIdentity' /\ RanApart'
    BY <1>1, <1>2 DEF IInv, QueueIdentity, RanApart
  <1>5. HeldTask' /\ TimerRight' /\ NoLostWakeup'
    BY <1>1 DEF HeldTask, TimerRight, NoLostWakeup, Popped
  <1>6. Present'
    <2> SUFFICES ASSUME NEW s \in 1..seq
                 PROVE  \/ \E u \in queue' : u.seq = s
                        \/ \E p \in ran' : p[1].seq = s
      BY <1>1 DEF Present
    <2> QED
      BY <1>1 DEF IInv, Present
  <1>7. NeverEarly'
    BY <1>1 DEF IInv, NeverEarly
  <1> QED
    BY <1>3, <1>4, <1>5, <1>6, <1>7 DEF IInv

\* After the timeout the popped task is dispatched.
LEMMA RunTimedOutStep ==
    ASSUME IInv, WorkerRunTimedOut
    PROVE  IInv'
  <1>1. /\ worker = "timedout" /\ worker' = "executing"
        /\ ran' = ran \cup {<<held, now>>}
        /\ UNCHANGED <<now, handlers, seq, queue, wakeup, stopping, held>>
    BY DEF WorkerRunTimedOut
  <1>2. /\ held \in Task
        /\ held.seq <= seq
        /\ held.run_at <= now
        /\ \A t \in queue : t.seq # held.seq
    BY <1>1 DEF IInv, HeldTask, TimerRight, Popped
  <1>3. TypeOK'
    BY <1>1, <1>2 DEF IInv, TypeOK, WorkerState
  <1>4. QueueIdentity' /\ RanApart'
    BY <1>1, <1>2 DEF IInv, QueueIdentity, RanApart
  <1>5. HeldTask' /\ TimerRight' /\ NoLostWakeup'
    BY <1>1 DEF HeldTask, TimerRight, NoLostWakeup, Popped
  <1>6. Present'
    <2> SUFFICES ASSUME NEW s \in 1..seq
                 PROVE  \/ \E u \in queue' : u.seq = s
                        \/ \E p \in ran' : p[1].seq = s
      BY <1>1 DEF Present
    <2>1. CASE held.seq = s
      <3>1. <<held, now>> \in ran' /\ <<held, now>>[1].seq = s
        BY <2>1, <1>1
      <3> QED BY <3>1
    <2>2. CASE held.seq # s
      BY <2>2, <1>1 DEF IInv, Present
    <2> QED BY <2>1, <2>2
  <1>7. NeverEarly'
    BY <1>1, <1>2 DEF IInv, NeverEarly
  <1> QED
    BY <1>3, <1>4, <1>5, <1>6, <1>7 DEF IInv

\* The handler's return clears a local that no part of IInv looks at.
LEMMA HandlerDoneStep ==
    ASSUME IInv, WorkerHandlerDone
    PROVE  IInv'
  <1>1. /\ worker = "executing" /\ worker' = "top" /\ held' = NoTask
        /\ UNCHANGED <<now, handlers, seq, queue, wakeup, stopping, ran>>
    BY DEF WorkerHandlerDone
  <1>2. TypeOK'
    BY <1>1 DEF IInv, TypeOK, WorkerState
  <1>3. QueueIdentity' /\ RanApart' /\ NeverEarly'
    BY <1>1 DEF IInv, QueueIdentity, RanApart, NeverEarly
  <1>4. HeldTask' /\ TimerRight' /\ NoLostWakeup'
    BY <1>1 DEF HeldTask, TimerRight, NoLostWakeup, Popped
  <1>5. Present'
    BY <1>1 DEF IInv, Present, Popped
  <1> QED
    BY <1>2, <1>3, <1>4, <1>5 DEF IInv

----------------------------------------------------------------------------
\* Every step of the queue preserves the inductive invariant.
LEMMA InvStep == IInv /\ [Next]_vars => IInv'
  <1> SUFFICES ASSUME IInv, [Next]_vars PROVE IInv'
    OBVIOUS
  <1>0. /\ now \in Nat /\ handlers \subseteq Names
        /\ wakeup \in BOOLEAN /\ stopping \in BOOLEAN
        /\ worker \in WorkerState
        /\ TimerRight /\ NoLostWakeup
    BY DEF IInv, TypeOK
  <1>1. ASSUME NEW n \in Names, RegisterTask(n) PROVE IInv'
    BY <1>0, <1>1, QuietStep
       DEF RegisterTask, Popped, TimerRight, NoLostWakeup
  <1>2. ASSUME NEW n \in Names, NEW d \in Delays, Enqueue(n, d) PROVE IInv'
    BY <1>2, EnqueueStep
  <1>3. CASE Start
    <2>1. /\ UNCHANGED <<now, handlers, seq, queue, wakeup, held, ran>>
          /\ stopping' \in BOOLEAN
          /\ worker = "none" /\ worker' = "top"
      BY <1>3 DEF Start
    <2>2. TimerRight' /\ NoLostWakeup' /\ (Popped' <=> Popped)
      BY <2>1 DEF TimerRight, NoLostWakeup, Popped
    <2> QED
      BY <1>0, <2>1, <2>2, QuietStep DEF WorkerState
  <1>4. CASE StopRequest
    BY <1>0, <1>4, QuietStep
       DEF StopRequest, Popped, TimerRight, NoLostWakeup
  <1>5. CASE StopReturn
    BY <1>0, <1>5, QuietStep
       DEF StopReturn, Popped, TimerRight, NoLostWakeup, WorkerState
  <1>6. CASE WorkerExit
    BY <1>0, <1>6, QuietStep
       DEF WorkerExit, Popped, TimerRight, NoLostWakeup, WorkerState
  <1>7. CASE WorkerIdle
    <2>1. /\ UNCHANGED <<now, handlers, seq, queue, stopping, held, ran>>
          /\ wakeup' \in BOOLEAN /\ ~stopping /\ queue = {}
          /\ worker = "top" /\ worker' = "idle"
      BY <1>7 DEF WorkerIdle
    <2>2. TimerRight' /\ NoLostWakeup' /\ (Popped' <=> Popped)
      BY <2>1 DEF TimerRight, NoLostWakeup, Popped
    <2> QED
      BY <1>0, <2>1, <2>2, QuietStep DEF WorkerState
  <1>8. CASE WorkerRunDue
    BY <1>8, RunDueStep
  <1>9. CASE WorkerSleep
    BY <1>9, SleepStep
  <1>10. CASE WorkerResume
    BY <1>0, <1>10, QuietStep
       DEF WorkerResume, Popped, TimerRight, NoLostWakeup, WorkerState
  <1>11. CASE WorkerReinsert
    BY <1>11, ReinsertStep
  <1>12. CASE TimerFires
    BY <1>0, <1>12, QuietStep
       DEF TimerFires, Popped, TimerRight, NoLostWakeup, WorkerState
  <1>13. CASE WorkerRunTimedOut
    BY <1>13, RunTimedOutStep
  <1>14. CASE WorkerHandlerDone
    BY <1>14, HandlerDoneStep
  <1>15. CASE Tick
    <2>1. TimerRight'
      <3>1. worker = "timedout" => held.run_at \in Nat
        BY DEF IInv, HeldTask, Popped, Task
      <3> QED
        BY <1>0, <1>15, <3>1 DEF Tick, TimerRight
    <2> QED
      BY <1>0, <1>15, <2>1, QuietStep
         DEF Tick, Popped, NoLostWakeup, WorkerState
  <1>16. CASE UNCHANGED vars
    BY <1>0, <1>16, QuietStep
       DEF vars, Popped, TimerRight, NoLostWakeup
  <1> QED
    BY <1>1, <1>2, <1>3, <1>4, <1>5, <1>6, <1>7, <1>8, <1>9, <1>10, <1>11,
       <1>12, <1>13, <1>14, <1>15, <1>16 DEF Next, Client, Worker

LEMMA Invariance == Spec => []IInv
  BY InitInv, InvStep, PTL DEF Spec

\* The invariant says that each number is in exactly one of the places.
LEMMA OnePlace == IInv => EachTaskInOnePlace
  <1> SUFFICES ASSUME IInv, NEW s \in 1..seq
               PROVE  EachTaskInOnePlace!(s)
    BY DEF EachTaskInOnePlace
  <1> USE DEF IInv, Dispatched, Popped
  <1>1. CASE \E t \in queue : t.seq = s
    BY <1>1 DEF RanApart, HeldTask
  <1>2. CASE \E p \in ran : p[1].seq = s
    BY <1>2 DEF RanApart, HeldTask
  <1>3. CASE Popped /\ held.seq = s
    BY <1>3 DEF HeldTask
  <1> QED
    BY <1>1, <1>2, <1>3 DEF Present

\* A step that dispatches takes the least task of those that are waiting.
LEMMA DispatchStep ==
    IInv /\ [Next]_vars
        => [\A p \in ran' \ ran : \A u \in queue' : Before(p[1], u)]_vars
  <1> SUFFICES ASSUME IInv, Next,
                      NEW p \in ran' \ ran, NEW u \in queue'
               PROVE  Before(p[1], u)
    OBVIOUS
  <1>1. CASE WorkerRunDue
    BY <1>1 DEF WorkerRunDue, IsHead
  <1>2. CASE WorkerRunTimedOut
    BY <1>2 DEF WorkerRunTimedOut, IInv, TimerRight
  <1>3. CASE ran' = ran
    BY <1>3
  <1> QED
    BY <1>1, <1>2, <1>3
       DEF Next, Client, Worker, RegisterTask, Enqueue, Start, StopRequest,
           StopReturn, WorkerExit, WorkerIdle, WorkerSleep, WorkerResume,
           WorkerReinsert, TimerFires, WorkerHandlerDone, Tick

----------------------------------------------------------------------------
\* The variables of InMemoryTaskQueue keep their types, and what the woken
\* worker puts back (queue.py, the else of wait_for) is always a real task.
THEOREM TypeCorrect == Spec => []TypeOK
  BY Invariance, PTL DEF IInv

\* No task is lost or duplicated, whatever wakes the worker that has popped
\* it: the pop, the timed wait and the re-insert of _worker_loop together
\* keep every enqueued task in exactly one place.
THEOREM NoLossNoDuplicate == Spec => []EachTaskInOnePlace
  BY Invariance, OnePlace, PTL

\* _worker_loop never dispatches a task before its run_at.
THEOREM DispatchNotEarly == Spec => []NeverEarly
  BY Invariance, PTL DEF IInv

\* The event of enqueue and stop is never lost between the worker's
\* _wakeup.clear() and its wait.
THEOREM WakeupKept == Spec => []NoLostWakeup
  BY Invariance, PTL DEF IInv

\* Dispatch follows the (run_at, seq) order of the PriorityQueue, although
\* a task may arrive while the worker sleeps on another one.
THEOREM OrderKept == Spec => DispatchInOrder
  BY Invariance, DispatchStep, PTL DEF Spec, DispatchInOrder

----------------------------------------------------------------------------
\* The abstract queue's variables, as the mapping of Promise gives them.
Mapped == <<now, Waiting, ran>>

\* A new task is accepted by the abstract queue, the popped head included.
LEMMA AcceptStep ==
    ASSUME IInv, NEW n \in Names, NEW d \in Delays, Enqueue(n, d)
    PROVE  Promise!Accept
  <1> DEFINE t == [run_at |-> now + d, seq |-> seq + 1, name |-> n]
  <1>1. queue' = queue \cup {t} /\ UNCHANGED <<now, worker, held, ran>>
    BY DEF Enqueue
  <1>2. Waiting' = Waiting \cup {t}
    BY <1>1 DEF Waiting
  <1>3. t.run_at >= now /\ t.seq = seq + 1
    BY DelaysAssumption DEF IInv, TypeOK
  <1>4. \A u \in Waiting \cup {p[1] : p \in ran} : u.seq \in Nat /\ u.seq <= seq
    BY DEF IInv, TypeOK, Task, QueueIdentity, RanApart, HeldTask, Popped, Waiting
  <1>5. \A u \in Waiting \cup {p[1] : p \in ran} : u.seq # t.seq
    BY <1>3, <1>4 DEF IInv, TypeOK
  <1>6. t \in Waiting' \ Waiting
    BY <1>2, <1>5
  <1> HIDE DEF t
  <1> QED
    BY <1>1, <1>2, <1>3, <1>5, <1>6 DEF Promise!Accept

\* Both ways of dispatching hand out the least of all waiting tasks.
LEMMA FireStep ==
    ASSUME IInv, WorkerRunDue \/ WorkerRunTimedOut
    PROVE  Promise!Fire
  <1>1. CASE WorkerRunDue
    <2>1. PICK t \in queue : /\ IsHead(t) /\ t.run_at <= now
                             /\ queue' = queue \ {t} /\ ran' = ran \cup {<<t, now>>}
      BY <1>1 DEF WorkerRunDue
    <2>2. Waiting = queue /\ Waiting' = queue' /\ now' = now
      BY <1>1 DEF WorkerRunDue, Waiting
    <2> QED
      BY <2>1, <2>2 DEF Promise!Fire, Promise!Precedes, IsHead, Before
  <1>2. CASE WorkerRunTimedOut
    <2>1. held.run_at <= now /\ \A u \in queue : Before(held, u)
      BY <1>2 DEF WorkerRunTimedOut, IInv, TimerRight
    <2>2. held \notin queue
      BY <1>2 DEF WorkerRunTimedOut, IInv, HeldTask, Popped
    <2>3. Waiting = queue \cup {held} /\ Waiting' = queue /\ now' = now
      BY <1>2 DEF WorkerRunTimedOut, Waiting
    <2>4. ran' = ran \cup {<<held, now>>}
      BY <1>2 DEF WorkerRunTimedOut
    <2> QED
      BY <2>1, <2>2, <2>3, <2>4 DEF Promise!Fire, Promise!Precedes, Before
  <1> QED
    BY <1>1, <1>2

\* Every other step of the worker and of its clients is invisible: the pop before
\* the sleep and the re-insert only move a task inside Waiting.
LEMMA RefineStep == IInv /\ [Next]_vars => [Promise!DelayNext]_Mapped
  <1> SUFFICES ASSUME IInv, [Next]_vars PROVE [Promise!DelayNext]_Mapped
    OBVIOUS
  <1> USE DEF Mapped
  <1>1. CASE \E n \in Names, d \in Delays : Enqueue(n, d)
    BY <1>1, AcceptStep DEF Promise!DelayNext
  <1>2. CASE WorkerRunDue \/ WorkerRunTimedOut
    BY <1>2, FireStep DEF Promise!DelayNext
  <1>3. CASE Tick
    BY <1>3 DEF Tick, Waiting, Promise!DelayNext, Promise!Pass
  <1>4. CASE WorkerSleep
    <2>1. PICK t \in queue : queue' = queue \ {t} /\ held' = t
      BY <1>4 DEF WorkerSleep
    <2>2. Waiting = queue /\ Waiting' = queue' \cup {t} /\ UNCHANGED <<now, ran>>
      BY <1>4, <2>1 DEF WorkerSleep, Waiting
    <2> QED
      BY <2>1, <2>2
  <1>5. CASE WorkerReinsert
    BY <1>5 DEF WorkerReinsert, Waiting
  <1>6. CASE UNCHANGED <<now, queue, held, ran>> /\ (Popped <=> Popped')
    BY <1>6 DEF Waiting, Popped
  <1>7. CASE WorkerHandlerDone
    BY <1>7 DEF WorkerHandlerDone, Waiting
  <1> QED
    BY <1>1, <1>2, <1>3, <1>4, <1>5, <1>6, <1>7
       DEF Next, Client, Worker, vars, Popped, RegisterTask, Start, StopRequest, StopReturn,
           WorkerExit, WorkerIdle, WorkerResume, TimerFires

\* InMemoryTaskQueue implements DelayQueue, for any names, delays and bounds: its
\* worker, its event and the head it pops are invisible to the callers.
THEOREM Refinement == Spec => ImplementsDelayQueue
  <1>1. Init => Promise!DelayInit
    BY DEF Init, Promise!DelayInit, Waiting
  <1>2. IInv /\ [Next]_vars => [Promise!DelayNext]_(Promise!delayVars)
    BY RefineStep DEF Mapped, Promise!delayVars
  <1> QED
    BY <1>1, <1>2, Invariance, PTL DEF Spec, ImplementsDelayQueue, Promise!DelaySpec
============================================================================
