------------------------- MODULE InjectQueueProofs -------------------------
(***************************************************************************)
(* Proofs about InjectQueue, for any number of rows and of concurrent      *)
(* calls and any combination of failures.  An Instance with one pod        *)
(* applies an inject at most once, although a flush can take a row back    *)
(* from acked to delivered.                                                *)
(***************************************************************************)
EXTENDS InjectQueue, FiniteSetTheorems, TLAPS

OnePod == \A p, q \in Pods : p = q

\* Where a row can be after the pod has received it.
Acking(h, i) == call[h].pc \in {"ack_read", "ack_commit"} /\ i \in call[h].rows
InPod(p, i) == i \in inbox[p] \/ i \in guard[p] \/ i \in batch[p]
Apart(p, i) ==
    /\ i \in inbox[p] => i \notin guard[p] \cup batch[p]
    /\ i \in guard[p] => i \notin batch[p]
Taken(i) ==
    \/ applied[i] # 0
    \/ \E p \in Pods : InPod(p, i)
    \/ \E h \in Handlers : Acking(h, i)

\* A row that the pod has received can not be polled any more ...
TakenNotPending ==
    \A i \in Items : Taken(i) => row[i] \notin {"absent", "pending"}

\* ... so that the poll the pod waits for returns only rows that are new to
\* it.  (A poll it no longer waits for may return anything.)
ResponseIsNew ==
    \A h \in Handlers : call[h].pc = "poll_commit" /\ call[h].caller # {}
        => \A i \in call[h].rows : ~Taken(i)

\* A received row is in one place, and in none once it has been applied.
OnePlace ==
    /\ \A p \in Pods, i \in Items : Apart(p, i)
    /\ \A h \in Handlers, p \in Pods, i \in Items :
          Acking(h, i) => ~InPod(p, i)
    /\ \A h, g \in Handlers, i \in Items :
          Acking(h, i) /\ Acking(g, i) => h = g
    /\ \A i \in Items : applied[i] # 0 =>
          /\ \A p \in Pods : ~InPod(p, i)
          /\ \A h \in Handlers : ~Acking(h, i)

\* The control task of the pod waits for at most one call.
Waiting(h) == call[h].task = "poller" /\ call[h].caller # {}
OneCall ==
    /\ \A h, g \in Handlers : Waiting(h) /\ Waiting(g) => h = g
    /\ \A h \in Handlers, p \in Pods :
          call[h].task = "poller" /\ p \in call[h].caller
             => poller[p] = "waiting"
    /\ \A h \in Handlers :
          /\ call[h].pc = "free" => call[h].caller = {}
          /\ call[h].pc \in {"poll_read", "poll_commit"} => call[h].task = "poller"
    /\ \A p \in Pods : loop[p] = "down" =>
          poller[p] = "off" /\ \A h \in Handlers : p \notin call[h].caller

IInv ==
    /\ TypeOK
    /\ AppliedAtMostOnce
    /\ TakenNotPending
    /\ ResponseIsNew
    /\ OnePlace
    /\ OneCall

\* The program starts in a state of the invariant.
LEMMA InitIInv == Init => IInv
<1> SUFFICES ASSUME Init PROVE IInv
  OBVIOUS
<1>1. TypeOK
  BY DEF Init, TypeOK, InjectStatus, Call, CallPC, PollerPC, LoopPC, Free
<1>2. \A h \in Handlers : call[h].pc = "free" /\ call[h].caller = {}
  BY DEF Init, Free
<1>3. \A i \in Items : ~Taken(i) /\ applied[i] = 0
  BY <1>2 DEF Init, Taken, InPod, Acking
<1> QED
  BY <1>1, <1>2, <1>3
     DEF Init, IInv, AppliedAtMostOnce, TakenNotPending, ResponseIsNew,
         OnePlace, Apart, OneCall, Acking, InPod, Waiting

\* Every step keeps the types.
LEMMA TypeStep == TypeOK /\ [Next]_vars => TypeOK'
<1> SUFFICES ASSUME TypeOK, [Next]_vars PROVE TypeOK'
  OBVIOUS
<1> USE DEF TypeOK, InjectStatus, Call, CallPC, PollerPC, LoopPC, Free,
            queueVars, podVars, Goto
<1>1. CASE UNCHANGED vars
  BY <1>1 DEF vars
<1>2. ASSUME NEW i \in Items, Enqueue(i) PROVE TypeOK'
  <2>1. Cardinality({j \in Items : row[j] # "absent"}) \in Nat
    BY ItemsAssumption, FS_Subset, FS_CardinalityType
  <2> QED
    BY <1>2, <2>1 DEF Enqueue
<1>3. ASSUME NEW i \in Items, TtlPasses(i) PROVE TypeOK'
  BY <1>3 DEF TtlPasses
<1>4. CASE SendKill
  BY <1>4 DEF SendKill
<1>5. ASSUME NEW h \in Handlers,
             HandlerStep(h) \/ CallRaises(h) \/ CallLost(h) \/ CallTimesOut(h)
      PROVE  TypeOK'
  <2>1. CASE PollRead(h)
    BY <1>5, <2>1 DEF PollRead, Expire, Oldest, Due, Pending
  <2>2. CASE PollCommit(h)
    BY <1>5, <2>2 DEF PollCommit
  <2>3. CASE AckRead(h)
    <3>1. PICK i \in call[h].rows :
             IF row[i] = "delivered"
               THEN /\ call' = [call EXCEPT ![h] =
                                  [pc |-> "ack_commit", rows |-> {i},
                                   kill |-> FALSE, caller |-> call[h].caller,
                                   task |-> call[h].task]]
                    /\ UNCHANGED podVars
               ELSE call' = [call EXCEPT ![h] = Free] /\ Resume(h)
      BY <2>3 DEF AckRead
    <3>2. UNCHANGED queueVars
      BY <2>3 DEF AckRead
    <3>3. i \in Items /\ call[h] \in Call
      OBVIOUS
    <3>4. call' \in [Handlers -> Call]
      <4>1. [pc |-> "ack_commit", rows |-> {i}, kill |-> FALSE,
             caller |-> call[h].caller, task |-> call[h].task] \in Call
        BY <3>3
      <4>2. Free \in Call
        OBVIOUS
      <4>3. \E c \in Call : call' = [call EXCEPT ![h] = c]
        BY <3>1, <4>1, <4>2 DEF Resume
      <4> QED
        BY <4>3
    <3>5. UNCHANGED podVars \/ Resume(h)
      BY <3>1
    <3>6. poller' \in [Pods -> PollerPC] /\ loop' \in [Pods -> LoopPC]
      BY <3>5 DEF Resume
    <3>7. UNCHANGED <<inbox, guard, batch, stop>>
      BY <3>5 DEF Resume
    <3> QED
      BY <3>2, <3>4, <3>6, <3>7
  <2>4. CASE AckCommit(h)
    BY <1>5, <2>4 DEF AckCommit, Resume
  <2>5. CASE Fail(h)
    BY <1>5, <2>5 DEF Fail, Resume
  <2>6. CASE CallTimesOut(h)
    BY <1>5, <2>6 DEF CallTimesOut, Resume
  <2> QED
    BY <1>5, <2>1, <2>2, <2>3, <2>4, <2>5, <2>6 DEF HandlerStep, CallRaises, CallLost
<1>6. ASSUME NEW p \in Pods, PollerStep(p) PROVE TypeOK'
  <2>1. CASE PollSend(p)
    <3>1. (CHOOSE h \in Idle : TRUE) \in Handlers
      BY <2>1 DEF PollSend, Send, Idle
    <3> QED
      BY <2>1, <3>1 DEF PollSend, Send
  <2>2. CASE HandleHeld(p)
    BY <2>2 DEF HandleHeld
  <2>3. CASE HandleNotify(p)
    <3>1. (CHOOSE h \in Idle : TRUE) \in Handlers
      BY <2>3 DEF HandleNotify, Send, Idle
    <3> QED
      BY <2>3, <3>1 DEF HandleNotify, Send
  <2>4. CASE PollAgain(p)
    BY <2>4 DEF PollAgain
  <2> QED
    BY <1>6, <2>1, <2>2, <2>3, <2>4 DEF PollerStep
<1>7. ASSUME NEW p \in Pods, LoopStep(p) \/ LLMFails(p) \/ PodCrashes(p)
      PROVE  TypeOK'
  <2>1. CASE Down(p)
    BY <2>1 DEF Down
  <2>2. CASE PodStart(p) \/ LoopTop(p) \/ LLMFails(p) \/ IterationEnds(p)
    <3>1. /\ loop' \in [Pods -> LoopPC]
          /\ poller' \in [Pods -> PollerPC]
          /\ UNCHANGED <<queueVars, call, inbox, guard, batch, stop>>
      BY <2>2 DEF PodStart, LoopTop, LLMFails, IterationEnds
    <3> QED
      BY <3>1
  <2>3. CASE Checkpoint(p)
    BY <2>3 DEF Checkpoint
  <2>4. CASE ApplyHeld(p)
    <3>1. (CHOOSE h \in Idle : TRUE) \in Handlers
      BY <2>4 DEF ApplyHeld, Send, Idle
    <3> QED
      BY <2>4, <3>1 DEF ApplyHeld, Send
  <2> QED
    BY <1>7, <2>1, <2>2, <2>3, <2>4 DEF LoopStep, PodCrashes, PodExits
<1> QED
  BY <1>1, <1>2, <1>3, <1>4, <1>5, <1>6, <1>7 DEF Next

\* The backend's steps that no pod notices.
LEMMA QueueStep ==
    ASSUME IInv, TypeOK',
           \/ \E i \in Items : Enqueue(i) \/ TtlPasses(i)
           \/ SendKill
           \/ UNCHANGED vars
    PROVE  IInv'
<1>1. UNCHANGED <<applied, call, podVars>>
  BY DEF Enqueue, TtlPasses, SendKill, vars, queueVars
<1>2. \A i \in Items : row[i] = "absent" \/ row'[i] = row[i]
  BY DEF Enqueue, TtlPasses, SendKill, vars, queueVars, IInv, TypeOK
<1>3. \A i \in Items : Taken(i)' <=> Taken(i)
  BY <1>1 DEF Taken, InPod, Acking, podVars
<1>4. TakenNotPending'
  BY <1>2, <1>3 DEF IInv, TakenNotPending
<1>5. ResponseIsNew'
  BY <1>1, <1>3 DEF IInv, ResponseIsNew, TypeOK, Call
<1>6. OnePlace' /\ OneCall' /\ AppliedAtMostOnce'
  BY <1>1 DEF IInv, OnePlace, OneCall, AppliedAtMostOnce, Apart, InPod, Acking,
              Waiting, podVars
<1> QED
  BY <1>4, <1>5, <1>6 DEF IInv

\* A poll selects pending rows, which nobody has received.
LEMMA PollReadStep ==
    ASSUME IInv, TypeOK', NEW h \in Handlers, PollRead(h)
    PROVE  IInv'
<1> USE DEF IInv, TypeOK, PollRead, podVars, Call
<1>1. /\ call'[h] = [pc |-> "poll_commit", kill |-> kill, rows |-> Oldest(Due),
                     caller |-> call[h].caller, task |-> "poller"]
      /\ \A g \in Handlers : g # h => call'[g] = call[g]
      /\ call[h].pc = "poll_read"
  OBVIOUS
<1>2. \A i \in Items : Taken(i)' <=> Taken(i)
  BY <1>1 DEF Taken, InPod, Acking
<1>3. \A i \in Items : row[i] \notin {"absent", "pending"} => row'[i] = row[i]
  BY DEF Expire, Pending
<1>4. TakenNotPending'
  BY <1>2, <1>3 DEF TakenNotPending
<1>5. \A i \in Oldest(Due) : i \in Items /\ row[i] = "pending"
  BY DEF Oldest, Due, Pending
<1>6. ResponseIsNew'
  BY <1>1, <1>2, <1>5 DEF ResponseIsNew, TakenNotPending
<1>7. OnePlace' /\ AppliedAtMostOnce'
  BY <1>1 DEF OnePlace, AppliedAtMostOnce, Apart, InPod, Acking
<1>8. OneCall'
  BY <1>1 DEF OneCall, Waiting
<1> QED
  BY <1>4, <1>6, <1>7, <1>8

\* The response of a poll brings rows that are nowhere else, into an inbox
\* whose task was waiting for them; a poll that nobody waits for only writes
\* the rows.
LEMMA PollCommitStep ==
    ASSUME OnePod, IInv, TypeOK', NEW h \in Handlers, PollCommit(h)
    PROVE  IInv'
<1> USE DEF IInv, TypeOK, PollCommit, podVars, Call, Free
<1>1. /\ call'[h] = Free
      /\ \A g \in Handlers : g # h => call'[g] = call[g]
      /\ call[h].pc = "poll_commit" /\ call[h].task = "poller"
      /\ call[h].rows \subseteq Items
  BY DEF OneCall
<1>2. /\ \A g \in Handlers, i \in Items : Acking(g, i)' <=> Acking(g, i)
      /\ UNCHANGED <<applied, loop, guard, batch>>
  BY <1>1 DEF Acking
<1>3. \A p \in Pods : inbox'[p] = inbox[p] \/ (inbox'[p] = call[h].rows /\ p \in call[h].caller)
  OBVIOUS
<1>4. \A i \in Items : Taken(i)' => Taken(i) \/ (i \in call[h].rows /\ call[h].caller # {})
  BY <1>2, <1>3 DEF Taken, InPod
<1>5. \A i \in Items : row'[i] = IF i \in call[h].rows THEN "delivered" ELSE row[i]
  OBVIOUS
<1>6. TakenNotPending' /\ AppliedAtMostOnce'
  BY <1>2, <1>4, <1>5 DEF TakenNotPending, AppliedAtMostOnce
<1>7. ResponseIsNew'
  <2> SUFFICES ASSUME NEW g \in Handlers, call'[g].pc = "poll_commit",
                      call'[g].caller # {}, NEW i \in call'[g].rows
               PROVE  ~Taken(i)'
    BY DEF ResponseIsNew
  <2>1. g # h /\ call'[g] = call[g]
    BY <1>1
  <2>2. call[h].caller = {}
    BY <1>1, <2>1 DEF OneCall, Waiting
  <2> QED
    BY <1>4, <2>1, <2>2 DEF ResponseIsNew
<1>8. OnePlace'
  <2>1. \A i \in call[h].rows : call[h].caller # {} =>
            /\ applied[i] = 0
            /\ \A p \in Pods : ~InPod(p, i)
            /\ \A g \in Handlers : ~Acking(g, i)
    BY <1>1 DEF ResponseIsNew, Taken
  <2> QED
    BY <1>1, <1>2, <1>3, <2>1 DEF OnePlace, Apart, InPod
<1>9. OneCall'
  <2>1. \A g \in Handlers : Waiting(g)' => Waiting(g) /\ g # h
    BY <1>1 DEF Waiting
  <2>2. ASSUME NEW g \in Handlers, NEW p \in Pods,
               call'[g].task = "poller", p \in call'[g].caller
        PROVE  poller'[p] = "waiting"
    <3>1. g # h /\ call'[g] = call[g]
      BY <1>1, <2>2
    <3>2. call[h].caller = {}
      BY <1>1, <2>2, <3>1 DEF OneCall, Waiting
    <3> QED
      BY <2>2, <3>1, <3>2 DEF OneCall
  <2>3. \A p \in Pods : loop[p] = "down" => p \notin call[h].caller
    BY DEF OneCall
  <2> QED
    BY <1>1, <1>2, <2>1, <2>2, <2>3 DEF OneCall
<1> QED
  BY <1>6, <1>7, <1>8, <1>9

\* A call moves on, ends or loses its caller; rows leave it, none enter.
Shrinks(h) ==
    /\ \A g \in Handlers : g # h => call'[g] = call[g]
    /\ \A i \in Items : Acking(h, i)' => Acking(h, i)
    /\ call'[h].caller \subseteq call[h].caller
    /\ call'[h].caller # {} =>
          /\ call'[h].task = call[h].task
          /\ poller' = poller
    /\ call'[h].pc = "poll_commit" => call'[h].caller = {}
    /\ call'[h].pc = "free" => call'[h].caller = {}
    /\ call'[h].pc \in {"poll_read", "poll_commit"} => call'[h].task = "poller"
    /\ \A p \in Pods : poller'[p] # poller[p] =>
          p \in call[h].caller /\ call[h].task = "poller"
    /\ \A p \in Pods : loop'[p] # loop[p] =>
          p \in call[h].caller /\ loop'[p] # "down"
    /\ UNCHANGED <<inbox, guard, batch, stop>>

\* Such a step keeps everything but what the row and the event say.
LEMMA ShrinkStep ==
    ASSUME IInv, TypeOK', NEW h \in Handlers, Shrinks(h),
           \A i \in Items : applied'[i] = applied[i]
              \/ (applied'[i] = applied[i] + 1 /\ Acking(h, i) /\ ~Acking(h, i)'),
           \A i \in Items : row'[i] = row[i] \/ row'[i] = "acked"
    PROVE  IInv'
<1> USE DEF IInv, TypeOK, Call
<1>1. \A i \in Items : applied[i] \in Nat /\ (Acking(h, i) => applied[i] = 0)
  BY DEF OnePlace
<1>2. AppliedAtMostOnce'
  <2> SUFFICES ASSUME NEW i \in Items PROVE applied'[i] <= 1
    BY DEF AppliedAtMostOnce
  <2>1. applied[i] \in Nat /\ applied[i] <= 1
    BY DEF AppliedAtMostOnce
  <2>2. CASE applied'[i] = applied[i]
    BY <2>1, <2>2
  <2>3. CASE applied'[i] = applied[i] + 1 /\ Acking(h, i)
    BY <1>1, <2>3
  <2> QED
    BY <2>2, <2>3
<1>3. \A i \in Items : Taken(i)' => Taken(i)
  BY DEF Shrinks, Taken, InPod, Acking
<1>4. TakenNotPending'
  BY <1>3 DEF TakenNotPending
<1>5. ResponseIsNew'
  BY <1>3 DEF Shrinks, ResponseIsNew
<1>6. OnePlace'
  <2>1. \A g \in Handlers, i \in Items : Acking(g, i)' => Acking(g, i)
    BY DEF Shrinks, Acking
  <2>2. \A p \in Pods, i \in Items : InPod(p, i)' <=> InPod(p, i)
    BY DEF Shrinks, InPod
  <2>3. \A i \in Items : applied'[i] # 0 =>
           \/ applied[i] # 0
           \/ Acking(h, i) /\ ~Acking(h, i)'
    BY <1>1
  <2>4. \A p \in Pods : /\ inbox'[p] = inbox[p] /\ guard'[p] = guard[p]
                        /\ batch'[p] = batch[p]
    BY DEF Shrinks
  <2> QED
    BY <2>1, <2>2, <2>3, <2>4 DEF OnePlace, Apart
<1>7. OneCall'
  <2>1. \A g \in Handlers : Waiting(g)' => Waiting(g)
    BY DEF Shrinks, Waiting
  <2>2. ASSUME NEW g \in Handlers, NEW p \in Pods,
               call'[g].task = "poller", p \in call'[g].caller
        PROVE  poller'[p] = "waiting"
    <3>1. CASE g = h
      BY <2>2, <3>1 DEF Shrinks, OneCall
    <3>2. CASE g # h
      <4>1. call'[g] = call[g]
        BY <3>2 DEF Shrinks
      <4>2. ~Waiting(h) /\ poller[p] = "waiting"
        BY <2>2, <3>2, <4>1 DEF OneCall, Waiting
      <4>3. poller'[p] = poller[p]
        BY <4>2 DEF Shrinks, Waiting
      <4> QED
        BY <4>2, <4>3
    <3> QED
      BY <3>1, <3>2
  <2>3. ASSUME NEW p \in Pods, loop'[p] = "down"
        PROVE  poller'[p] = "off" /\ \A g \in Handlers : p \notin call'[g].caller
    BY <2>3 DEF Shrinks, OneCall
  <2>4. \A g \in Handlers :
           /\ call'[g].pc = "free" => call'[g].caller = {}
           /\ call'[g].pc \in {"poll_read", "poll_commit"} => call'[g].task = "poller"
    <3> TAKE g \in Handlers
    <3>1. CASE g = h
      BY <3>1 DEF Shrinks
    <3>2. CASE g # h
      <4>1. call'[g] = call[g]
        BY <3>2 DEF Shrinks
      <4> QED
        BY <4>1 DEF OneCall
    <3> QED
      BY <3>1, <3>2
  <2>5. \A g, k \in Handlers : Waiting(g)' /\ Waiting(k)' => g = k
    BY <2>1 DEF OneCall
  <2> QED
    BY <2>2, <2>3, <2>4, <2>5 DEF OneCall
<1> QED
  BY <1>2, <1>4, <1>5, <1>6, <1>7

\* The end of a call for the pod, whatever it was.
LEMMA ReleaseStep ==
    ASSUME IInv, TypeOK', NEW h \in Handlers, Resume(h),
           \/ call' = [call EXCEPT ![h] = Free]
           \/ call' = [call EXCEPT ![h] =
                          [pc |-> call[h].pc, rows |-> call[h].rows,
                           kill |-> call[h].kill, caller |-> {},
                           task |-> call[h].task]]
    PROVE  Shrinks(h)
BY DEF IInv, TypeOK, Resume, Shrinks, Acking, Call, Free, OneCall

\* Acking an inject, a failing call and a timeout.
LEMMA CallStep ==
    ASSUME IInv, TypeOK', NEW h \in Handlers,
           \/ AckRead(h) \/ AckCommit(h)
           \/ CallRaises(h) \/ CallLost(h) \/ CallTimesOut(h)
    PROVE  IInv'
<1>1. CASE AckRead(h)
  <2>1. PICK i \in call[h].rows :
          IF row[i] = "delivered"
            THEN /\ call' = [call EXCEPT ![h] =
                               [pc |-> "ack_commit", rows |-> {i},
                                kill |-> FALSE, caller |-> call[h].caller,
                                task |-> call[h].task]]
                 /\ UNCHANGED podVars
            ELSE call' = [call EXCEPT ![h] = Free] /\ Resume(h)
    BY <1>1 DEF AckRead
  <2>2. UNCHANGED <<row, applied>> /\ call[h].pc = "ack_read"
    BY <1>1 DEF AckRead, queueVars
  <2>3. CASE row[i] = "delivered"
    <3>1. Shrinks(h)
      BY <2>1, <2>2, <2>3 DEF IInv, TypeOK, Shrinks, Acking, Call, podVars
    <3> QED
      BY <2>2, <3>1, ShrinkStep
  <2>4. CASE row[i] # "delivered"
    BY <2>1, <2>2, <2>4, ReleaseStep, ShrinkStep
  <2> QED
    BY <2>3, <2>4
<1>2. CASE AckCommit(h)
  <2>1. Shrinks(h)
    BY <1>2, ReleaseStep DEF AckCommit
  <2>2. \A i \in Items : applied'[i] = applied[i]
              \/ (applied'[i] = applied[i] + 1 /\ Acking(h, i) /\ ~Acking(h, i)')
    BY <1>2 DEF AckCommit, Acking, Free, IInv, TypeOK
  <2>3. \A i \in Items : row'[i] = row[i] \/ row'[i] = "acked"
    BY <1>2 DEF AckCommit
  <2> QED
    BY <2>1, <2>2, <2>3, ShrinkStep
<1>3. CASE CallRaises(h) \/ CallLost(h) \/ CallTimesOut(h)
  <2>1. Shrinks(h)
    BY <1>3, ReleaseStep DEF CallRaises, CallLost, Fail, CallTimesOut
  <2>2. UNCHANGED <<row, applied>>
    BY <1>3 DEF CallRaises, CallLost, Fail, CallTimesOut, queueVars
  <2> QED
    BY <2>1, <2>2, ShrinkStep
<1> QED
  BY <1>1, <1>2, <1>3

\* A task of the pod that is not waiting sends a call.  The row it asks to
\* ack comes out of its own hands.
LEMMA SendStep ==
    ASSUME OnePod, IInv, TypeOK', NEW p \in Pods, NEW t \in {"poller", "loop"},
           NEW pc \in {"poll_read", "ack_read"}, NEW S \in SUBSET Items,
           Send(p, t, pc, S), loop[p] # "down",
           pc = "poll_read" => t = "poller" /\ S = {},
           t = "poller" => poller[p] # "waiting" /\ poller'[p] = "waiting",
           \A q \in Pods : /\ q # p => poller'[q] = poller[q]
                           /\ loop'[q] # "down" \/ loop'[q] = loop[q]
                           /\ t = "loop" => poller'[q] = poller[q],
           \A q \in Pods : \A i \in Items : /\ InPod(q, i)' => InPod(q, i) /\ i \notin S
                                       /\ Apart(q, i)',
           \A i \in S : InPod(p, i),
           UNCHANGED <<row, applied>>
    PROVE  IInv'
<1> USE DEF IInv, TypeOK, Call
<1> DEFINE H == CHOOSE h \in Idle : TRUE
<1>0. H \in Idle
  BY DEF Send
<1>1. PICK h \in Handlers :
        /\ call[h].pc = "free"
        /\ call' = [call EXCEPT ![h] = [pc |-> pc, rows |-> S, kill |-> FALSE,
                                        caller |-> {p}, task |-> t]]
  BY <1>0 DEF Send, Idle
<1>2. /\ call'[h] = [pc |-> pc, rows |-> S, kill |-> FALSE, caller |-> {p},
                     task |-> t]
      /\ \A g \in Handlers : g # h => call'[g] = call[g]
      /\ call[h].caller = {}
  BY <1>1 DEF OneCall
<1>3. \A g \in Handlers, i \in Items : Acking(g, i)' =>
        IF g = h THEN i \in S ELSE Acking(g, i)
  BY <1>2 DEF Acking
<1>4. \A i \in Items : Taken(i)' => Taken(i)
  BY <1>3 DEF Taken
<1>5. TakenNotPending' /\ AppliedAtMostOnce'
  BY <1>4 DEF TakenNotPending, AppliedAtMostOnce
<1>6. ResponseIsNew'
  <2> SUFFICES ASSUME NEW g \in Handlers, call'[g].pc = "poll_commit",
                      call'[g].caller # {}, NEW i \in call'[g].rows
               PROVE  ~Taken(i)'
    BY DEF ResponseIsNew
  <2>1. call'[g] = call[g]
    BY <1>2
  <2> QED
    BY <1>4, <2>1 DEF ResponseIsNew
<1>7. OnePlace'
  <2>1. ASSUME NEW g \in Handlers, NEW q \in Pods, NEW i \in Items,
               Acking(g, i)', InPod(q, i)'
        PROVE  FALSE
    BY <1>3, <2>1 DEF OnePlace
  <2>2. ASSUME NEW g \in Handlers, NEW k \in Handlers, NEW i \in Items,
               Acking(g, i)', Acking(k, i)'
        PROVE  g = k
    BY <1>3, <2>2 DEF OnePlace
  <2>3. ASSUME NEW i \in Items, applied'[i] # 0
        PROVE  /\ \A q \in Pods : ~InPod(q, i)'
               /\ \A g \in Handlers : ~Acking(g, i)'
    BY <1>3, <2>3 DEF OnePlace
  <2> QED
    BY <2>1, <2>2, <2>3 DEF OnePlace
<1>8. OneCall'
  <2>1. t = "poller" => \A g \in Handlers : ~Waiting(g)
    <3> SUFFICES ASSUME t = "poller", NEW g \in Handlers, Waiting(g) PROVE FALSE
      OBVIOUS
    <3>1. PICK q \in Pods : q \in call[g].caller
      BY DEF Waiting
    <3>2. q = p
      BY DEF OnePod
    <3> QED
      BY <3>1, <3>2 DEF OneCall, Waiting
  <2>2. \A g \in Handlers : Waiting(g)' =>
           IF g = h THEN t = "poller" ELSE Waiting(g)
    BY <1>2 DEF Waiting
  <2>3. \A g, k \in Handlers : Waiting(g)' /\ Waiting(k)' => g = k
    BY <2>1, <2>2 DEF OneCall
  <2>4. ASSUME NEW g \in Handlers, NEW q \in Pods,
               call'[g].task = "poller", q \in call'[g].caller
        PROVE  poller'[q] = "waiting"
    <3>1. CASE g = h
      BY <1>2, <2>4, <3>1
    <3>2. CASE g # h
      BY <1>2, <2>1, <2>4, <3>2 DEF OneCall, Waiting
    <3> QED
      BY <3>1, <3>2
  <2>5. \A g \in Handlers :
           /\ call'[g].pc = "free" => call'[g].caller = {}
           /\ call'[g].pc \in {"poll_read", "poll_commit"} => call'[g].task = "poller"
    <3> TAKE g \in Handlers
    <3>1. CASE g = h
      BY <1>2, <3>1
    <3>2. CASE g # h
      <4>1. call'[g] = call[g]
        BY <1>2, <3>2
      <4> QED
        BY <4>1 DEF OneCall
    <3> QED
      BY <3>1, <3>2
  <2>6. ASSUME NEW q \in Pods, loop'[q] = "down" PROVE FALSE
    BY <2>6 DEF OnePod
  <2> QED
    BY <2>3, <2>4, <2>5, <2>6 DEF OneCall
<1> QED
  BY <1>5, <1>6, <1>7, <1>8

\* Rows move within the pod, or are forgotten, and no call is sent.
LEMMA MoveStep ==
    ASSUME IInv, TypeOK',
           \A h \in Handlers :
              /\ call'[h].pc = call[h].pc /\ call'[h].rows = call[h].rows
              /\ call'[h].task = call[h].task
              /\ call'[h].caller \subseteq call[h].caller,
           \A p \in Pods :
              /\ poller[p] = "waiting" =>
                    \/ poller'[p] = "waiting"
                    \/ \A h \in Handlers : p \notin call'[h].caller
              /\ loop'[p] = "down" =>
                    poller'[p] = "off" /\ \A h \in Handlers : p \notin call'[h].caller,
           \A p \in Pods : \A i \in Items : /\ InPod(p, i)' => InPod(p, i)
                                       /\ Apart(p, i)',
           UNCHANGED <<row, applied>>
    PROVE  IInv'
<1> USE DEF IInv, TypeOK, Call
<1>1. \A h \in Handlers, i \in Items : Acking(h, i)' <=> Acking(h, i)
  BY DEF Acking
<1>2. \A i \in Items : Taken(i)' => Taken(i)
  BY <1>1 DEF Taken
<1>3. TakenNotPending' /\ AppliedAtMostOnce'
  BY <1>2 DEF TakenNotPending, AppliedAtMostOnce
<1>4. ResponseIsNew'
  <2> SUFFICES ASSUME NEW h \in Handlers, call'[h].pc = "poll_commit",
                      call'[h].caller # {}, NEW i \in call'[h].rows
               PROVE  ~Taken(i)'
    BY DEF ResponseIsNew
  <2>1. ~Taken(i) /\ i \in Items
    BY DEF ResponseIsNew
  <2> QED
    BY <1>2, <2>1
<1>5. OnePlace'
  <2>1. \A h \in Handlers, p \in Pods, i \in Items : Acking(h, i)' => ~InPod(p, i)'
    BY <1>1 DEF OnePlace
  <2>2. \A h, g \in Handlers, i \in Items : Acking(h, i)' /\ Acking(g, i)' => h = g
    BY <1>1 DEF OnePlace
  <2>3. \A i \in Items : applied'[i] # 0 =>
           /\ \A p \in Pods : ~InPod(p, i)'
           /\ \A h \in Handlers : ~Acking(h, i)'
    BY <1>1 DEF OnePlace
  <2> QED
    BY <2>1, <2>2, <2>3 DEF OnePlace
<1>6. OneCall'
  <2>1. \A h \in Handlers : Waiting(h)' => Waiting(h)
    BY DEF Waiting
  <2>2. \A h, g \in Handlers : Waiting(h)' /\ Waiting(g)' => h = g
    BY <2>1 DEF OneCall
  <2>3. \A h \in Handlers, p \in Pods :
          call'[h].task = "poller" /\ p \in call'[h].caller => poller'[p] = "waiting"
    BY DEF OneCall
  <2>4. \A h \in Handlers :
          /\ call'[h].pc = "free" => call'[h].caller = {}
          /\ call'[h].pc \in {"poll_read", "poll_commit"} => call'[h].task = "poller"
    BY DEF OneCall
  <2> QED
    BY <2>2, <2>3, <2>4 DEF OneCall
<1> QED
  BY <1>3, <1>4, <1>5, <1>6

\* The steps of a pod.
LEMMA PodStep ==
    ASSUME OnePod, IInv, TypeOK', NEW p \in Pods,
           PollerStep(p) \/ LoopStep(p) \/ LLMFails(p) \/ PodCrashes(p)
    PROVE  IInv'
<1> USE DEF queueVars, Goto
<1>0. /\ poller \in [Pods -> PollerPC] /\ loop \in [Pods -> LoopPC]
      /\ inbox \in [Pods -> SUBSET Items] /\ guard \in [Pods -> SUBSET Items]
      /\ batch \in [Pods -> SUBSET Items] /\ stop \in [Pods -> BOOLEAN]
  BY DEF IInv, TypeOK
<1>a. \A q \in Pods : loop[q] = "down" => poller[q] = "off"
  BY DEF IInv, OneCall
<1>b. \A q \in Pods : loop[q] = "down" => \A h \in Handlers : q \notin call[h].caller
  BY DEF IInv, OneCall
<1>c. \A q \in Pods : \A i \in Items : Apart(q, i)
  BY DEF IInv, OnePlace
<1>1. CASE PollSend(p)
  <2>1. Send(p, "poller", "poll_read", {})
    BY <1>1 DEF PollSend
  <2>2. /\ poller' = [poller EXCEPT ![p] = "waiting"] /\ loop' = loop
        /\ UNCHANGED <<row, applied, inbox, guard, batch>>
        /\ poller[p] # "waiting" /\ loop[p] # "down"
    BY <1>0, <1>a, <1>b, <1>c, <1>1 DEF PollSend
  <2>3. \A q \in Pods : \A j \in Items : /\ InPod(q, j)' => InPod(q, j) /\ j \notin {}
                                       /\ Apart(q, j)'
    BY <1>0, <1>a, <1>b, <1>c, <2>1, <2>2 DEF InPod, Apart, OnePod
  <2>4. \A j \in {} : j \in Items /\ InPod(p, j)
    BY <1>0 DEF InPod
  <2>5. \A q \in Pods : /\ q # p => poller'[q] = poller[q]
                        /\ loop'[q] # "down" \/ loop'[q] = loop[q]
    BY <1>0, <1>a, <1>b, <1>c, <2>2
  <2>6. {} \in SUBSET Items
    BY <2>4
  <2> QED
    BY <1>0, <1>a, <1>b, <1>c, <2>1, <2>2, <2>3, <2>4, <2>5, <2>6, SendStep
<1>2. CASE HandleHeld(p)
  <2>1. UNCHANGED <<row, applied, call>>
    BY <1>2 DEF HandleHeld
  <2>2. \A q \in Pods :
          /\ poller[q] = "waiting" => poller'[q] = "waiting"
          /\ loop'[q] = "down" => loop[q] = "down" /\ poller'[q] = poller[q]
    BY <1>0, <1>a, <1>b, <1>c, <1>2 DEF HandleHeld
  <2>3. \A q \in Pods : \A i \in Items : /\ InPod(q, i)' => InPod(q, i)
                                       /\ Apart(q, i)'
    BY <1>0, <1>a, <1>b, <1>c, <1>2 DEF HandleHeld, InPod, Apart
  <2> QED
    BY <1>0, <1>a, <1>b, <1>c, <2>1, <2>2, <2>3, MoveStep
<1>3. CASE HandleNotify(p)
  <2>1. PICK i \in inbox[p] \ Held :
          /\ inbox' = [inbox EXCEPT ![p] = inbox[p] \ {i}]
          /\ Send(p, "poller", "ack_read", {i})
    BY <1>3 DEF HandleNotify
  <2>2. /\ poller' = [poller EXCEPT ![p] = "waiting"] /\ loop' = loop
        /\ UNCHANGED <<row, applied, guard, batch>>
        /\ poller[p] # "waiting" /\ loop[p] # "down"
    BY <1>0, <1>a, <1>b, <1>c, <1>3 DEF HandleNotify
  <2>3. \A q \in Pods : \A j \in Items : /\ InPod(q, j)' => InPod(q, j) /\ j \notin {i}
                                       /\ Apart(q, j)'
    BY <1>0, <1>a, <1>b, <1>c, <2>1, <2>2 DEF InPod, Apart, OnePod
  <2>4. \A j \in {i} : j \in Items /\ InPod(p, j)
    BY <1>0 DEF InPod
  <2>5. \A q \in Pods : /\ q # p => poller'[q] = poller[q]
                        /\ loop'[q] # "down" \/ loop'[q] = loop[q]
    BY <1>0, <1>a, <1>b, <1>c, <2>2
  <2>6. {i} \in SUBSET Items
    BY <2>4
  <2> QED
    BY <1>0, <1>a, <1>b, <1>c, <2>1, <2>2, <2>3, <2>4, <2>5, <2>6, SendStep
<1>4. CASE PollAgain(p)
  <2>1. UNCHANGED <<row, applied, call>>
    BY <1>4 DEF PollAgain
  <2>2. \A q \in Pods :
          /\ poller[q] = "waiting" => poller'[q] = "waiting"
          /\ loop'[q] = "down" => loop[q] = "down" /\ poller'[q] = poller[q]
    BY <1>0, <1>a, <1>b, <1>c, <1>4 DEF PollAgain
  <2>3. \A q \in Pods : \A i \in Items : /\ InPod(q, i)' => InPod(q, i)
                                       /\ Apart(q, i)'
    BY <1>0, <1>a, <1>b, <1>c, <1>4 DEF PollAgain, InPod, Apart
  <2> QED
    BY <1>0, <1>a, <1>b, <1>c, <2>1, <2>2, <2>3, MoveStep
<1>5. CASE LoopTop(p) \/ LLMFails(p) \/ IterationEnds(p) \/ PodStart(p)
  <2>1. UNCHANGED <<row, applied, call>>
    BY <1>5 DEF LoopTop, LLMFails, IterationEnds, PodStart
  <2>2. \A q \in Pods :
          /\ poller[q] = "waiting" => poller'[q] = "waiting"
          /\ loop'[q] = "down" => loop[q] = "down" /\ poller'[q] = poller[q]
    BY <1>0, <1>a, <1>b, <1>c, <1>5 DEF LoopTop, LLMFails, IterationEnds, PodStart
  <2>3. \A q \in Pods : \A i \in Items : /\ InPod(q, i)' => InPod(q, i)
                                       /\ Apart(q, i)'
    BY <1>0, <1>a, <1>b, <1>c, <1>5 DEF LoopTop, LLMFails, IterationEnds, PodStart, InPod, Apart
  <2> QED
    BY <1>0, <1>a, <1>b, <1>c, <2>1, <2>2, <2>3, MoveStep
<1>6. CASE Checkpoint(p)
  <2>1. UNCHANGED <<row, applied, call>>
    BY <1>6 DEF Checkpoint
  <2>2. \A q \in Pods :
          /\ poller[q] = "waiting" => poller'[q] = "waiting"
          /\ loop'[q] = "down" => loop[q] = "down" /\ poller'[q] = poller[q]
    BY <1>0, <1>a, <1>b, <1>c, <1>6 DEF Checkpoint
  <2>3. \A q \in Pods : \A i \in Items : /\ InPod(q, i)' => InPod(q, i)
                                       /\ Apart(q, i)'
    BY <1>0, <1>a, <1>b, <1>c, <1>6 DEF Checkpoint, InPod, Apart
  <2> QED
    BY <1>0, <1>a, <1>b, <1>c, <2>1, <2>2, <2>3, MoveStep
<1>7. CASE ApplyHeld(p)
  <2>1. PICK i \in batch[p] :
          /\ batch' = [batch EXCEPT ![p] = batch[p] \ {i}]
          /\ Send(p, "loop", "ack_read", {i})
    BY <1>7 DEF ApplyHeld
  <2>2. /\ loop' = [loop EXCEPT ![p] = "waiting"] /\ poller' = poller
        /\ UNCHANGED <<row, applied, inbox, guard>>
        /\ loop[p] # "waiting" /\ loop[p] # "down"
    BY <1>0, <1>a, <1>b, <1>c, <1>7 DEF ApplyHeld
  <2>3. \A q \in Pods : \A j \in Items : /\ InPod(q, j)' => InPod(q, j) /\ j \notin {i}
                                       /\ Apart(q, j)'
    BY <1>0, <1>a, <1>b, <1>c, <2>1, <2>2 DEF InPod, Apart, OnePod
  <2>4. \A j \in {i} : j \in Items /\ InPod(p, j)
    BY <1>0 DEF InPod
  <2>5. \A q \in Pods : /\ q # p => poller'[q] = poller[q]
                        /\ loop'[q] # "down" \/ loop'[q] = loop[q]
    BY <1>0, <1>a, <1>b, <1>c, <2>2
  <2>6. {i} \in SUBSET Items
    BY <2>4
  <2> QED
    BY <1>0, <1>a, <1>b, <1>c, <2>1, <2>2, <2>3, <2>4, <2>5, <2>6, SendStep
<1>8. CASE Down(p)
  <2>1. \A h \in Handlers :
          /\ call'[h].pc = call[h].pc /\ call'[h].rows = call[h].rows
          /\ call'[h].task = call[h].task
          /\ call'[h].caller = call[h].caller \ {p}
    BY <1>8 DEF Down
  <2>2. \A q \in Pods :
          IF q = p
            THEN /\ loop'[q] = "down" /\ poller'[q] = "off"
                 /\ inbox'[q] = {} /\ guard'[q] = {} /\ batch'[q] = {}
            ELSE /\ loop'[q] = loop[q] /\ poller'[q] = poller[q]
                 /\ inbox'[q] = inbox[q] /\ guard'[q] = guard[q]
                 /\ batch'[q] = batch[q]
    BY <1>0, <1>a, <1>b, <1>c, <1>8 DEF Down
  <2>3. UNCHANGED <<row, applied>>
    BY <1>8 DEF Down
  <2>4. \A q \in Pods :
          /\ poller[q] = "waiting" =>
                \/ poller'[q] = "waiting"
                \/ \A h \in Handlers : q \notin call'[h].caller
          /\ loop'[q] = "down" =>
                poller'[q] = "off" /\ \A h \in Handlers : q \notin call'[h].caller
    BY <1>0, <1>a, <1>b, <1>c, <2>1, <2>2
  <2>5. \A q \in Pods : \A i \in Items : /\ InPod(q, i)' => InPod(q, i)
                                       /\ Apart(q, i)'
    BY <1>0, <1>a, <1>b, <1>c, <2>2 DEF InPod, Apart
  <2> QED
    BY <2>1, <2>3, <2>4, <2>5, MoveStep
<1> QED
  BY <1>1, <1>2, <1>3, <1>4, <1>5, <1>6, <1>7, <1>8
     DEF PollerStep, LoopStep, PodCrashes, PodExits

\* Every step keeps the invariant.
LEMMA NextIInv ==
    ASSUME OnePod
    PROVE  IInv /\ [Next]_vars => IInv'
<1> SUFFICES ASSUME IInv, [Next]_vars PROVE IInv'
  OBVIOUS
<1>1. TypeOK'
  BY TypeStep DEF IInv
<1>2. CASE UNCHANGED vars \/ SendKill
  BY <1>1, <1>2, QueueStep
<1>3. ASSUME NEW i \in Items, Enqueue(i) \/ TtlPasses(i) PROVE IInv'
  BY <1>1, <1>3, QueueStep
<1>4. ASSUME NEW h \in Handlers,
             HandlerStep(h) \/ CallRaises(h) \/ CallLost(h) \/ CallTimesOut(h)
      PROVE  IInv'
  BY <1>1, <1>4, PollReadStep, PollCommitStep, CallStep DEF HandlerStep
<1>5. ASSUME NEW p \in Pods,
             PollerStep(p) \/ LoopStep(p) \/ LLMFails(p) \/ PodCrashes(p)
      PROVE  IInv'
  BY <1>1, <1>5, PodStep
<1> QED
  BY <1>2, <1>3, <1>4, <1>5 DEF Next

\* Every variable keeps its type, with any number of pods: in particular a
\* row never leaves the statuses of InjectStatus.
THEOREM TypeCorrect == Spec => []TypeOK
<1>1. Init => TypeOK
  BY InitIInv DEF IInv
<1> QED
  BY <1>1, TypeStep, PTL DEF Spec

\* An Instance with one pod emits harness.inject_applied at most once for an
\* inject, whatever polls and acks time out, commit late or fail, and however
\* often the pod is killed, crashes and starts again.
THEOREM AppliedOnce == ASSUME OnePod PROVE Spec => []AppliedAtMostOnce
<1>1. IInv /\ [Next]_vars => IInv'
  BY NextIInv
<1>2. IInv => AppliedAtMostOnce
  BY DEF IInv
<1> QED
  BY InitIInv, <1>1, <1>2, PTL DEF Spec
============================================================================
