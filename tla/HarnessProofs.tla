--------------------------- MODULE HarnessProofs ---------------------------
(***************************************************************************)
(* The loop discipline of the harness, for any number of coroutines and    *)
(* requests, any limits and any combination of failures.                   *)
(***************************************************************************)
EXTENDS MCHarness, TLAPS

LoopRecord == [pc : LoopPC, stop : BOOLEAN, i : Nat, late : Nat, unread : Nat]

\* A coroutine that wrote a checkpoint after it was told to stop is past the
\* point where it could write another, and still flagged.
PastCheckpoint ==
    {"ckpt_read", "ckpt_over", "trip_stop", "trip_kill", "trip_commit",
     "ckpt_commit", "top", "stopping", "stopped"}

LateOnce ==
    \A g \in Slots :
        loop[g].late = 0 \/ ( /\ loop[g].late = 1
                              /\ loop[g].stop
                              /\ loop[g].pc \in PastCheckpoint )

\* Between LOOP_STOPPED and the end of the coroutine nobody brings metrics
\* back: only a live loop does, and there is no other.
StoppedClean == \A g \in Slots : loop[g].pc = "stopped" => reg = NoMetrics

IInv ==
    /\ TypeOK
    /\ AtMostOneLoop
    /\ LateOnce
    /\ StoppedClean

LEMMA InitInv == Init => IInv
  <1> SUFFICES ASSUME Init PROVE IInv
    OBVIOUS
  <1>1. TypeOK
    BY DEF Init, TypeOK, LoopStatus, NoOp, FreeSlot, RequestPC, Ops, LoopPC,
           IdlePC
  <1>2. AtMostOneLoop /\ LateOnce /\ StoppedClean
    BY DEF Init, AtMostOneLoop, Live, LateOnce, StoppedClean, FreeSlot
  <1> QED
    BY <1>1, <1>2 DEF IInv

\* Killing changes nothing but the flags of coroutines that listen.
LEMMA KillType ==
    ASSUME NEW lp \in [Slots -> LoopRecord]
    PROVE  /\ Kill(lp) \in [Slots -> LoopRecord]
           /\ \A g \in Slots : /\ Kill(lp)[g].pc = lp[g].pc
                               /\ Kill(lp)[g].late = lp[g].late
                               /\ lp[g].stop => Kill(lp)[g].stop
  BY DEF Kill, LoopRecord

\* A step that leaves each coroutine's place, late count and metrics alone
\* and raises flags at most.
LEMMA FlagStep ==
    ASSUME IInv,
           loop' \in [Slots -> LoopRecord],
           \A g \in Slots : /\ loop'[g].pc = loop[g].pc
                            /\ loop'[g].late = loop[g].late
                            /\ loop[g].stop => loop'[g].stop,
           task' = task,
           reg' \in {reg, NoMetrics}
    PROVE  AtMostOneLoop' /\ LateOnce' /\ StoppedClean'
  BY DEF IInv, AtMostOneLoop, Live, LateOnce, StoppedClean

\* One live coroutine g moves to another place, its late count unchanged.
LEMMA MoveStep ==
    ASSUME IInv, NEW g \in Slots, NEW pc \in LoopPC \ {"free"},
           Live(g),
           Goto(g, pc),
           loop[g].late = 0 \/ pc \in PastCheckpoint,
           task' = task,
           pc = "stopped" => reg' = NoMetrics
    PROVE  /\ loop' \in [Slots -> LoopRecord]
           /\ AtMostOneLoop' /\ LateOnce' /\ StoppedClean'
  <1>1. loop \in [Slots -> LoopRecord] /\ task = g
    BY DEF IInv, TypeOK, LoopRecord, AtMostOneLoop
  <1>2. /\ loop' \in [Slots -> LoopRecord]
        /\ loop'[g].pc = pc /\ loop'[g].late = loop[g].late
        /\ loop'[g].stop = loop[g].stop
        /\ \A h \in Slots \ {g} : loop'[h] = loop[h]
    BY <1>1 DEF Goto, LoopRecord
  <1>3. \A h \in Slots \ {g} : ~Live(h)
    BY <1>1 DEF IInv, AtMostOneLoop
  <1>4. AtMostOneLoop'
    BY <1>1, <1>2, <1>3 DEF AtMostOneLoop, Live
  <1>5. LateOnce'
    BY <1>2 DEF IInv, LateOnce
  <1>6. StoppedClean'
    BY <1>2, <1>3 DEF StoppedClean, Live
  <1> QED
    BY <1>2, <1>4, <1>5, <1>6

\* The finally block of coroutine g.
LEMMA FinallyStep ==
    ASSUME IInv, NEW g \in Slots, Live(g), Finally(g)
    PROVE  /\ loop' \in [Slots -> LoopRecord]
           /\ task' \in Slots \cup {NoSlot}
           /\ AtMostOneLoop' /\ LateOnce' /\ StoppedClean'
  <1>1. loop \in [Slots -> LoopRecord] /\ task = g
    BY DEF IInv, TypeOK, LoopRecord, AtMostOneLoop
  <1>2. /\ loop' \in [Slots -> LoopRecord]
        /\ loop'[g].pc = "free" /\ loop'[g].late = 0
        /\ \A h \in Slots \ {g} : loop'[h] = loop[h]
    BY <1>1 DEF Finally, LoopRecord, FreeSlot, LoopPC
  <1>3. \A h \in Slots \ {g} : ~Live(h)
    BY <1>1 DEF IInv, AtMostOneLoop
  <1>4. AtMostOneLoop' /\ StoppedClean'
    BY <1>2, <1>3 DEF AtMostOneLoop, StoppedClean, Live
  <1>5. LateOnce'
    BY <1>2 DEF IInv, LateOnce
  <1> QED
    BY <1>2, <1>4, <1>5 DEF Finally

\* start_runtime_for.
LEMMA StartStep ==
    ASSUME IInv, StartRuntime, reg' = reg
    PROVE  /\ loop' \in [Slots -> LoopRecord]
           /\ task' \in Slots \cup {NoSlot}
           /\ AtMostOneLoop' /\ LateOnce' /\ StoppedClean'
  <1>0. loop \in [Slots -> LoopRecord]
    BY DEF IInv, TypeOK, LoopRecord
  <1>1. CASE task # NoSlot /\ UNCHANGED <<task, loop>>
    BY <1>0, <1>1 DEF IInv, TypeOK, AtMostOneLoop, LateOnce, StoppedClean, Live
  <1>2. ASSUME task = NoSlot, NEW g \in Slots, At(g, "free"), task' = g,
               loop' = [loop EXCEPT ![g] = [FreeSlot EXCEPT !.pc = "boot"]]
        PROVE  /\ loop' \in [Slots -> LoopRecord]
               /\ task' \in Slots \cup {NoSlot}
               /\ AtMostOneLoop' /\ LateOnce' /\ StoppedClean'
    <2>1. /\ loop' \in [Slots -> LoopRecord]
          /\ loop'[g].pc = "boot" /\ loop'[g].late = 0
          /\ \A h \in Slots \ {g} : loop'[h] = loop[h]
      BY <1>0, <1>2 DEF LoopRecord, FreeSlot, LoopPC
    <2>2. \A h \in Slots : ~Live(h)
      BY <1>2, SlotsAssumption DEF IInv, AtMostOneLoop
    <2> QED
      BY <1>2, <2>1, <2>2
         DEF IInv, AtMostOneLoop, LateOnce, StoppedClean, Live
  <1> QED
    BY <1>1, <1>2 DEF StartRuntime

----------------------------------------------------------------------------
\* What a step of coroutine g that is not its end does to the type.
LEMMA LoopMoveInv ==
    ASSUME IInv, NEW g \in Slots, NEW pc \in LoopPC \ {"free"},
           Live(g),
           Goto(g, pc),
           loop[g].late = 0 \/ pc \in PastCheckpoint,
           UNCHANGED <<db, lock, req, task, idle>>,
           reg' \in Metrics \cup {NoMetrics},
           pc = "stopped" => reg' = NoMetrics
    PROVE  IInv'
  <1>1. /\ loop' \in [Slots -> LoopRecord]
        /\ AtMostOneLoop' /\ LateOnce' /\ StoppedClean'
    BY MoveStep
  <1>2. TypeOK'
    BY <1>1 DEF IInv, TypeOK, LoopRecord
  <1> QED
    BY <1>1, <1>2 DEF IInv

LEMMA LoopStepInv ==
    ASSUME IInv, NEW g \in Slots,
           LoopStep(g) \/ BreakerReadFails(g) \/ LoopTripFails(g) \/ LoopRaises(g)
    PROVE  IInv'
  <1> USE DEF At
  <1>0. /\ reg \in Metrics \cup {NoMetrics}
        /\ NoMetrics \in Metrics \cup {NoMetrics}
        /\ loop[g].late = 0 \/ loop[g].pc \in PastCheckpoint
        /\ loop \in [Slots -> LoopRecord]
    BY DEF IInv, TypeOK, LateOnce, LoopRecord
  <1>1. CASE Boot(g)
    <2>1. Live(g) /\ loop[g].late = 0
      BY <1>0, <1>1 DEF Boot, Live, PastCheckpoint
    <2>2. CASE Goto(g, "starting")
      BY <1>0, <1>1, <2>1, <2>2, LoopMoveInv DEF Boot, LoopPC
    <2>3. CASE Goto(g, "wedged")
      BY <1>0, <1>1, <2>1, <2>3, LoopMoveInv DEF Boot, LoopPC
    <2> QED BY <1>1, <2>2, <2>3 DEF Boot
  <1>2. CASE EmitStarted(g)
    <2>1. Live(g) /\ loop[g].late = 0
      BY <1>0, <1>2 DEF EmitStarted, Live, PastCheckpoint
    <2>2. reg' \in Metrics
      BY <1>2 DEF EmitStarted, Metrics, Clock
    <2> QED
      BY <1>2, <2>1, <2>2, LoopMoveInv DEF EmitStarted, LoopPC
  <1>3. CASE CommitStarted(g)
    <2>1. Live(g)
      BY <1>3 DEF CommitStarted, Live
    <2> QED
      BY <1>0, <1>3, <2>1, LoopMoveInv DEF CommitStarted, LoopPC, PastCheckpoint
  <1>4. CASE LoopTop(g)
    <2>1. Live(g)
      BY <1>4 DEF LoopTop, Live
    <2>2. CASE Goto(g, "stopping")
      BY <1>0, <1>4, <2>1, <2>2, LoopMoveInv DEF LoopTop, LoopPC, PastCheckpoint
    <2>3. CASE Goto(g, "dbcheck") /\ ~loop[g].stop
      <3>1. loop[g].late = 0
        BY <2>3 DEF IInv, LateOnce
      <3> QED
        BY <1>0, <1>4, <2>1, <2>3, <3>1, LoopMoveInv DEF LoopTop, LoopPC
    <2> QED BY <1>4, <2>2, <2>3 DEF LoopTop
  <1>5. CASE DbCheck(g)
    <2>1. Live(g) /\ loop[g].late = 0
      BY <1>0, <1>5 DEF DbCheck, Live, PastCheckpoint
    <2>2. CASE Goto(g, "stopping")
      BY <1>0, <1>5, <2>1, <2>2, LoopMoveInv DEF DbCheck, LoopPC
    <2>3. CASE Goto(g, "llm")
      BY <1>0, <1>5, <2>1, <2>3, LoopMoveInv DEF DbCheck, LoopPC
    <2> QED BY <1>5, <2>2, <2>3 DEF DbCheck
  <1>6. CASE CallLLM(g)
    <2>1. Live(g) /\ loop[g].late = 0
      BY <1>0, <1>6 DEF CallLLM, Live, PastCheckpoint
    <2>2. CASE Goto(g, "ckpt")
      BY <1>0, <1>6, <2>1, <2>2, LoopMoveInv DEF CallLLM, LoopPC
    <2>3. CASE Goto(g, "top")
      BY <1>0, <1>6, <2>1, <2>3, LoopMoveInv DEF CallLLM, LoopPC
    <2> QED BY <1>6, <2>2, <2>3 DEF CallLLM
  <1>7. CASE Checkpoint(g)
    <2>1. Live(g) /\ loop[g].late = 0 /\ task = g
      BY <1>0, <1>7 DEF Checkpoint, Live, PastCheckpoint, IInv, AtMostOneLoop
    <2>2. \A h \in Slots \ {g} : ~Live(h)
      BY <2>1 DEF IInv, AtMostOneLoop
    <2>3. PICK k \in TokenSteps :
             /\ reg' = Counted(k)
             /\ loop' = [loop EXCEPT
                   ![g].pc = IF Exceeded(reg') THEN "ckpt_over" ELSE "ckpt_read",
                   ![g].late = IF loop[g].stop THEN @ + 1 ELSE @]
      BY <1>7 DEF Checkpoint
    <2>4. reg' \in Metrics
      <3>1. k \in Nat
        BY LimitsAssumption
      <3> QED
        BY <1>0, <2>3, <3>1 DEF Counted, Metrics, Clock
    <2>5. /\ loop' \in [Slots -> LoopRecord]
          /\ loop'[g].pc \in {"ckpt_over", "ckpt_read"}
          /\ loop'[g].stop = loop[g].stop
          /\ loop'[g].late = IF loop[g].stop THEN 1 ELSE 0
          /\ \A h \in Slots \ {g} : loop'[h] = loop[h]
      <3> DEFINE np == IF Exceeded(reg') THEN "ckpt_over" ELSE "ckpt_read"
                 nl == IF loop[g].stop THEN loop[g].late + 1 ELSE loop[g].late
      <3>1. np \in {"ckpt_over", "ckpt_read"} /\ np \in LoopPC
        BY DEF LoopPC, Trip
      <3>2. nl = IF loop[g].stop THEN 1 ELSE 0
        BY <2>1
      <3>3. nl \in Nat
        BY <3>2
      <3>4. loop' = [loop EXCEPT ![g].pc = np, ![g].late = nl]
        BY <2>3
      <3> HIDE DEF np, nl
      <3>5. /\ loop' \in [Slots -> LoopRecord]
            /\ loop'[g].pc = np
            /\ loop'[g].stop = loop[g].stop
            /\ loop'[g].late = nl
            /\ \A h \in Slots \ {g} : loop'[h] = loop[h]
        BY <1>0, <3>1, <3>3, <3>4 DEF LoopRecord
      <3> QED
        BY <3>1, <3>2, <3>5
    <2>6. TypeOK'
      BY <1>7, <2>4, <2>5 DEF Checkpoint, IInv, TypeOK, LoopRecord
    <2>7. AtMostOneLoop'
      BY <1>7, <2>1, <2>2, <2>5 DEF Checkpoint, AtMostOneLoop, Live
    <2>8. LateOnce'
      BY <2>5 DEF IInv, LateOnce, PastCheckpoint
    <2>9. StoppedClean'
      BY <2>2, <2>5 DEF StoppedClean, Live
    <2> QED
      BY <2>6, <2>7, <2>8, <2>9 DEF IInv
  <1>8. CASE LoopTrips(g)
    <2>1. Live(g)
      BY <1>8 DEF LoopTrips, Live
    <2>2. CASE At(g, "trip_stop")
      BY <1>0, <1>8, <2>1, <2>2, LoopMoveInv
         DEF LoopTrips, LoopPC, Trip, PastCheckpoint
    <2>3. CASE At(g, "trip_kill")
      <3> DEFINE lp == [loop EXCEPT ![g].pc = "trip_commit"]
      <3>1. /\ loop' = Kill(lp)
            /\ UNCHANGED <<db, lock, req, reg, task, idle>>
        BY <1>8, <2>3 DEF LoopTrips
      <3>2. /\ lp \in [Slots -> LoopRecord]
            /\ lp[g].pc = "trip_commit"
            /\ lp[g].late = loop[g].late /\ lp[g].stop = loop[g].stop
            /\ \A h \in Slots \ {g} : lp[h] = loop[h]
        BY <1>0 DEF LoopRecord, LoopPC, Trip
      <3> HIDE DEF lp
      <3>3. /\ loop' \in [Slots -> LoopRecord]
            /\ \A h \in Slots : /\ loop'[h].pc = lp[h].pc
                                /\ loop'[h].late = lp[h].late
                                /\ lp[h].stop => loop'[h].stop
        BY <3>1, <3>2, KillType
      <3>4. TypeOK'
        BY <3>1, <3>3 DEF IInv, TypeOK, LoopRecord
      <3>5. AtMostOneLoop' /\ StoppedClean'
        BY <2>1, <3>1, <3>2, <3>3
           DEF IInv, AtMostOneLoop, StoppedClean, Live
      <3>6. LateOnce'
        BY <1>0, <2>3, <3>2, <3>3 DEF IInv, LateOnce, PastCheckpoint
      <3> QED
        BY <3>4, <3>5, <3>6 DEF IInv
    <2>4. CASE At(g, "trip_commit")
      BY <1>0, <1>8, <2>1, <2>4, LoopMoveInv
         DEF LoopTrips, LoopPC, PastCheckpoint
    <2> QED BY <1>8, <2>2, <2>3, <2>4 DEF LoopTrips
  <1>9. CASE CommitCheckpoint(g)
    <2>1. Live(g) /\ task = g
      BY <1>9 DEF CommitCheckpoint, Live, IInv, AtMostOneLoop
    <2>2. /\ loop' \in [Slots -> LoopRecord]
          /\ loop'[g].pc = "top" /\ loop'[g].late = loop[g].late
          /\ loop'[g].stop = loop[g].stop
          /\ \A h \in Slots \ {g} : loop'[h] = loop[h]
      BY <1>0, <1>9 DEF CommitCheckpoint, LoopRecord, LoopPC
    <2>3. TypeOK'
      BY <1>9, <2>2 DEF CommitCheckpoint, IInv, TypeOK, LoopRecord
    <2>4. AtMostOneLoop' /\ StoppedClean'
      BY <1>9, <2>1, <2>2
         DEF CommitCheckpoint, IInv, AtMostOneLoop, StoppedClean, Live
    <2>5. LateOnce'
      BY <2>2 DEF IInv, LateOnce, PastCheckpoint
    <2> QED
      BY <2>3, <2>4, <2>5 DEF IInv
  <1>10. CASE EmitStopped(g)
    <2>1. Live(g)
      BY <1>10 DEF EmitStopped, Live
    <2> QED
      BY <1>0, <1>10, <2>1, LoopMoveInv DEF EmitStopped, LoopPC, PastCheckpoint
  <1>11. CASE LoopExit(g) \/ LoopRaises(g)
    <2>1. Live(g) /\ Finally(g) /\ UNCHANGED <<db, lock, req, reg, idle>>
      BY <1>11 DEF LoopExit, LoopRaises, Live
    <2>2. /\ loop' \in [Slots -> LoopRecord]
          /\ task' \in Slots \cup {NoSlot}
          /\ AtMostOneLoop' /\ LateOnce' /\ StoppedClean'
      BY <2>1, FinallyStep
    <2>3. TypeOK'
      BY <2>1, <2>2 DEF IInv, TypeOK, LoopRecord
    <2> QED
      BY <2>2, <2>3 DEF IInv
  <1>12. CASE LoopTripFails(g)
    <2>1. Live(g)
      BY <1>12 DEF LoopTripFails, Live
    <2> QED
      BY <1>0, <1>12, <2>1, LoopMoveInv
         DEF LoopTripFails, LoopPC, PastCheckpoint
  <1>13. CASE CheckBreakers(g)
    <2>1. Live(g)
      BY <1>13 DEF CheckBreakers, Live
    <2>2. PICK pc \in {"trip_stop", "ckpt_commit"} : Goto(g, pc)
      BY <1>13 DEF CheckBreakers
    <2> QED
      BY <1>0, <1>13, <2>1, <2>2, LoopMoveInv
         DEF CheckBreakers, LoopPC, Trip, PastCheckpoint
  <1>14. CASE BreakerReadFails(g)
    <2>1. Live(g) /\ task = g
      BY <1>14 DEF BreakerReadFails, Live, IInv, AtMostOneLoop
    <2>2. /\ loop' \in [Slots -> LoopRecord]
          /\ loop'[g].pc = "ckpt_commit" /\ loop'[g].late = loop[g].late
          /\ loop'[g].stop = loop[g].stop
          /\ \A h \in Slots \ {g} : loop'[h] = loop[h]
      BY <1>0, <1>14 DEF BreakerReadFails, LoopRecord, LoopPC
    <2>3. TypeOK'
      BY <1>14, <2>2 DEF BreakerReadFails, IInv, TypeOK, LoopRecord
    <2>4. AtMostOneLoop' /\ StoppedClean'
      BY <1>14, <2>1, <2>2
         DEF BreakerReadFails, IInv, AtMostOneLoop, StoppedClean, Live
    <2>5. LateOnce'
      BY <2>2 DEF IInv, LateOnce, PastCheckpoint
    <2> QED
      BY <2>3, <2>4, <2>5 DEF IInv
  <1> QED
    BY <1>1, <1>2, <1>3, <1>4, <1>5, <1>6, <1>7, <1>8, <1>9, <1>10, <1>11,
       <1>12, <1>13, <1>14 DEF LoopStep

----------------------------------------------------------------------------
\* The idle check and the clocks only raise flags and change the metrics.
LEMMA IdleStepInv ==
    ASSUME IInv, IdleStep \/ IdleRaises
    PROVE  IInv'
  <1>0. loop \in [Slots -> LoopRecord]
    BY DEF IInv, TypeOK, LoopRecord
  <1>1. /\ UNCHANGED <<db, lock, req, task>>
        /\ reg' \in {reg, NoMetrics}
        /\ idle' \in IdlePC
    BY DEF IdleStep, IdleRaises, IdleScan, IdleEvaluate, IdleTrips, IdlePC, Trip
  <1>2. loop' = loop \/ loop' = Kill(loop)
    BY DEF IdleStep, IdleRaises, IdleScan, IdleEvaluate, IdleTrips
  <1>3. /\ loop' \in [Slots -> LoopRecord]
        /\ \A g \in Slots : /\ loop'[g].pc = loop[g].pc
                            /\ loop'[g].late = loop[g].late
                            /\ loop[g].stop => loop'[g].stop
    BY <1>0, <1>2, KillType
  <1>4. AtMostOneLoop' /\ LateOnce' /\ StoppedClean'
    BY <1>1, <1>3, FlagStep
  <1>5. TypeOK'
    BY <1>1, <1>3 DEF IInv, TypeOK, LoopRecord
  <1> QED
    BY <1>4, <1>5 DEF IInv

LEMMA TimeInv ==
    ASSUME IInv, WallClockPasses \/ IdleTimeoutPasses
    PROVE  IInv'
  <1>1. /\ UNCHANGED <<db, lock, req, task, loop, idle>>
        /\ reg # NoMetrics
        /\ reg' \in Metrics
    BY DEF WallClockPasses, IdleTimeoutPasses, IInv, TypeOK, Metrics, Clock
  <1>2. TypeOK'
    BY <1>1 DEF IInv, TypeOK
  <1>3. AtMostOneLoop' /\ LateOnce' /\ StoppedClean'
    BY <1>1 DEF IInv, AtMostOneLoop, Live, LateOnce, StoppedClean
  <1> QED
    BY <1>2, <1>3 DEF IInv

----------------------------------------------------------------------------
RequestRecord == [pc : RequestPC, op : Ops, dirty : BOOLEAN]

\* A request's own bookkeeping keeps its type.
LEMMA RequestType ==
    ASSUME IInv, NEW r \in Requests,
           ReadState(r) \/ RequestStep(r) \/ RollbackRequest(r)
    PROVE  /\ req' \in [Requests -> RequestRecord]
           /\ lock' \in Requests \cup {NoRequest}
           /\ db' \in LoopStatus
  <1>0. /\ req \in [Requests -> RequestRecord]
        /\ lock \in Requests \cup {NoRequest}
        /\ db \in LoopStatus
    BY DEF IInv, TypeOK, RequestRecord
  <1>a. NoOp \in RequestRecord
    BY DEF NoOp, RequestRecord, RequestPC, Ops
  <1>1. CASE ReadState(r)
    <2>1. PICK op \in Ops :
             req' = [req EXCEPT ![r] =
                [NoOp EXCEPT !.pc = "read", !.op = op,
                             !.dirty = Target(op) # db]]
      BY <1>1 DEF ReadState
    <2>2. [NoOp EXCEPT !.pc = "read", !.op = op, !.dirty = Target(op) # db]
             \in RequestRecord
      BY <1>a DEF RequestRecord, RequestPC
    <2> QED
      BY <1>0, <1>1, <2>1, <2>2 DEF ReadState
  <1>2. CASE SetLoopStatus(r)
    <2>1. req' = [req EXCEPT ![r].pc = "flushed"] /\ db' = db
      BY <1>2 DEF SetLoopStatus
    <2>2. req' \in [Requests -> RequestRecord]
      BY <1>0, <2>1 DEF RequestRecord, RequestPC
    <2>3. lock' \in Requests \cup {NoRequest}
      BY <1>0, <1>2 DEF SetLoopStatus
    <2> QED BY <1>0, <2>1, <2>2, <2>3
  <1>3. CASE InterruptKill(r)
    <2>1. /\ req' = [req EXCEPT ![r].pc = "killed"]
          /\ UNCHANGED <<db, lock>>
      BY <1>3 DEF InterruptKill
    <2>2. req' \in [Requests -> RequestRecord]
      BY <1>0, <2>1 DEF RequestRecord, RequestPC
    <2> QED BY <1>0, <2>1, <2>2
  <1>4. CASE WakeStart(r)
    <2>1. req' = [req EXCEPT ![r].pc = "woken"] /\ UNCHANGED <<db, lock>>
      BY <1>4 DEF WakeStart
    <2> QED
      BY <1>0, <2>1 DEF RequestRecord, RequestPC
  <1>5. CASE CommitRequest(r)
    <2>1. req' = [req EXCEPT ![r] = [@ EXCEPT !.pc = "start"]]
          \/ req' = [req EXCEPT ![r] = NoOp]
      BY <1>5 DEF CommitRequest
    <2>2. req' \in [Requests -> RequestRecord]
      BY <1>0, <1>a, <2>1 DEF RequestRecord, RequestPC
    <2>3. db' \in LoopStatus
      BY <1>0, <1>5 DEF CommitRequest, Target, LoopStatus
    <2>4. lock' \in Requests \cup {NoRequest}
      BY <1>0, <1>5 DEF CommitRequest, EndOfTransaction
    <2> QED BY <2>2, <2>3, <2>4
  <1>6. CASE ResumeStart(r) \/ RollbackRequest(r)
    <2>1. req' = [req EXCEPT ![r] = NoOp] /\ db' = db
      BY <1>6 DEF ResumeStart, RollbackRequest
    <2>2. lock' \in Requests \cup {NoRequest}
      BY <1>0, <1>6 DEF ResumeStart, RollbackRequest, EndOfTransaction
    <2> QED BY <1>0, <1>a, <2>1, <2>2
  <1> QED
    BY <1>1, <1>2, <1>3, <1>4, <1>5, <1>6 DEF RequestStep

LEMMA RequestInv ==
    ASSUME IInv, NEW r \in Requests,
           ReadState(r) \/ RequestStep(r) \/ RollbackRequest(r)
    PROVE  IInv'
  <1>0. loop \in [Slots -> LoopRecord] /\ task \in Slots \cup {NoSlot}
    BY DEF IInv, TypeOK, LoopRecord
  <1>1. idle' = idle /\ reg' \in {reg, NoMetrics}
    BY DEF ReadState, RequestStep, RollbackRequest, SetLoopStatus,
           InterruptKill, WakeStart, CommitRequest, ResumeStart
  <1>2. /\ loop' \in [Slots -> LoopRecord]
        /\ task' \in Slots \cup {NoSlot}
        /\ AtMostOneLoop' /\ LateOnce' /\ StoppedClean'
    <2>1. CASE WakeStart(r) \/ ResumeStart(r)
      BY <2>1, StartStep DEF WakeStart, ResumeStart
    <2>2. CASE InterruptKill(r)
      <3>1. loop' = Kill(loop) /\ task' = task
        BY <2>2 DEF InterruptKill
      <3>2. /\ loop' \in [Slots -> LoopRecord]
            /\ \A g \in Slots : /\ loop'[g].pc = loop[g].pc
                                /\ loop'[g].late = loop[g].late
                                /\ loop[g].stop => loop'[g].stop
        BY <1>0, <3>1, KillType
      <3> QED
        BY <1>0, <1>1, <3>1, <3>2, FlagStep
    <2>3. CASE ReadState(r) \/ SetLoopStatus(r) \/ CommitRequest(r)
               \/ RollbackRequest(r)
      <3>1. UNCHANGED <<loop, task>>
        BY <2>3 DEF ReadState, SetLoopStatus, CommitRequest, RollbackRequest
      <3> QED
        BY <1>0, <1>1, <3>1, FlagStep
    <2> QED BY <2>1, <2>2, <2>3 DEF RequestStep
  <1>3. TypeOK'
    BY <1>1, <1>2, RequestType DEF IInv, TypeOK, LoopRecord, RequestRecord
  <1> QED
    BY <1>2, <1>3 DEF IInv

LEMMA RestartInv ==
    ASSUME IInv, Restart
    PROVE  IInv'
  <1>1. TypeOK'
    BY DEF Restart, IInv, TypeOK, NoOp, FreeSlot, RequestPC, Ops, LoopPC,
           IdlePC, Metrics, Clock
  <1>2. AtMostOneLoop' /\ LateOnce' /\ StoppedClean'
    BY DEF Restart, AtMostOneLoop, Live, LateOnce, StoppedClean, FreeSlot
  <1> QED
    BY <1>1, <1>2 DEF IInv

LEMMA InvStep == IInv /\ [Next]_vars => IInv'
  <1> SUFFICES ASSUME IInv, [Next]_vars PROVE IInv'
    OBVIOUS
  <1>1. CASE \E g \in Slots : LoopStep(g) \/ BreakerReadFails(g)
                                \/ LoopTripFails(g) \/ LoopRaises(g)
    BY <1>1, LoopStepInv
  <1>2. CASE IdleStep \/ IdleRaises
    BY <1>2, IdleStepInv
  <1>3. CASE WallClockPasses \/ IdleTimeoutPasses
    BY <1>3, TimeInv
  <1>4. CASE \E r \in Requests :
                ReadState(r) \/ RequestStep(r) \/ RollbackRequest(r)
    BY <1>4, RequestInv
  <1>5. CASE Restart
    BY <1>5, RestartInv
  <1>6. CASE UNCHANGED vars
    BY <1>6 DEF vars, IInv, TypeOK, AtMostOneLoop, Live, LateOnce, StoppedClean
  <1> QED
    BY <1>1, <1>2, <1>3, <1>4, <1>5, <1>6 DEF Next

LEMMA Invariance == Spec => []IInv
  BY InitInv, InvStep, PTL DEF Spec

----------------------------------------------------------------------------
\* The registry, the task table, the coroutines and the requests keep their
\* types in every interleaving, whatever fails.
THEOREM TypeCorrect == Spec => []TypeOK
  BY Invariance, PTL DEF IInv

\* start_runtime_for and the finally block of run_agent_loop together keep
\* at most one loop of an Instance alive.
THEOREM SingleLoop == Spec => []AtMostOneLoop
  BY Invariance, PTL DEF IInv

\* A kill (handle_interrupt or trip_breaker) lets through at most the one
\* checkpoint whose iteration had already begun.
THEOREM KillBounded == Spec => []OneLateCheckpoint
  <1>1. IInv => OneLateCheckpoint
    BY DEF IInv, LateOnce, OneLateCheckpoint
  <1> QED
    BY <1>1, Invariance, PTL

\* A loop that ends through LOOP_STOPPED leaves no metrics in the registry.
THEOREM ExitClean == Spec => CleanExit
  <1>1. IInv /\ [Next]_vars
            => [\A g \in Slots : LoopExit(g) => reg = NoMetrics]_vars
    BY DEF IInv, StoppedClean, LoopExit, At
  <1> QED
    BY <1>1, Invariance, PTL DEF Spec, CleanExit
----------------------------------------------------------------------------
\* The budget of a loop, in behaviours where the writes of a trip succeed.

\* Checkpoints that coroutine g has begun to write.
Begun(g) == loop[g].i + IF loop[g].pc \in Trip \cup {"ckpt_read", "ckpt_over", "ckpt_commit"}
                        THEN 1 ELSE 0

\* Places where the metrics in the registry are those of the loop.
Counting == {"started", "top", "dbcheck", "llm", "ckpt", "ckpt_read", "ckpt_over", "ckpt_commit"}

\* How many checkpoints of a loop that no kill has reached the metrics may have
\* forgotten.  A loop that is not killed when the idle check is about to commit
\* a trip started after its kill, so nothing is forgotten; that commit drops one
\* count, and the next trip, before its kill, another.
Forgotten ==
    CASE idle = "trip_commit" -> 0
      [] idle = "trip_kill" -> 2 * (MaxContinuations - 1)
      [] OTHER -> MaxContinuations - 1

\* Checkpoints that no breaker check held to the limits: those whose check
\* failed, and the one whose check is to trip, or to fail, next.
Excused(g) == loop[g].unread + IF loop[g].pc = "ckpt_over" THEN 1 ELSE 0

\* The metrics count what the loop has begun, but for what they have forgotten,
\* and reach the limit only by checkpoints that were not held to it.
Metered(g) ==
    /\ reg.count <= MaxContinuations - 1 + Excused(g)
    /\ Begun(g) <= reg.count + Forgotten + Excused(g)
    /\ Begun(g) <= MaxContinuations - 1 + Forgotten + Excused(g)

LoopBudget(g) ==
    /\ loop[g].pc \in {"free", "wedged", "boot", "starting"} => loop[g].i = 0
    /\ loop[g].pc = "trip_commit" => loop[g].stop
    /\ Begun(g) <= 3 * MaxContinuations - 2 + loop[g].unread
    /\ loop[g].pc \in {"dbcheck", "llm", "ckpt"} =>
          Begun(g) <= 3 * MaxContinuations - 3 + loop[g].unread
    /\ loop[g].pc \in Counting /\ ~loop[g].stop => Metered(g)

BudgetInv == intact => \A g \in Slots : LoopBudget(g)

\* Where the coroutines stand after one of them moves, or a kill is sent.
LEMMA GotoIs ==
    ASSUME IInv, NEW g \in Slots, NEW pc, Goto(g, pc)
    PROVE  /\ loop'[g].pc = pc /\ loop'[g].i = loop[g].i /\ loop'[g].stop = loop[g].stop
           /\ loop'[g].unread = loop[g].unread
           /\ \A h \in Slots \ {g} : loop'[h] = loop[h]
  BY DEF IInv, TypeOK, Goto

LEMMA KillIs ==
    ASSUME NEW lp \in [Slots -> LoopRecord]
    PROVE  \A g \in Slots : /\ Kill(lp)[g].pc = lp[g].pc /\ Kill(lp)[g].i = lp[g].i
                            /\ Kill(lp)[g].unread = lp[g].unread
                            /\ Kill(lp)[g].stop = (lp[g].stop \/ Listening(g))
  <1> SUFFICES ASSUME NEW g \in Slots
               PROVE  /\ Kill(lp)[g].pc = lp[g].pc /\ Kill(lp)[g].i = lp[g].i
                      /\ Kill(lp)[g].unread = lp[g].unread
                      /\ Kill(lp)[g].stop = (lp[g].stop \/ Listening(g))
    OBVIOUS
  <1>0. lp[g] \in LoopRecord
    OBVIOUS
  <1>1. CASE Listening(g)
    <2>1. Kill(lp)[g] = [lp[g] EXCEPT !.stop = TRUE]
      BY <1>1 DEF Kill
    <2> QED
      BY <1>0, <1>1, <2>1 DEF LoopRecord
  <1>2. CASE ~Listening(g)
    <2>1. Kill(lp)[g] = lp[g]
      BY <1>2 DEF Kill
    <2> QED
      BY <1>0, <1>2, <2>1 DEF LoopRecord
  <1> QED
    BY <1>1, <1>2

\* Where no other coroutine is alive, the others have written nothing.
LEMMA OthersBudget ==
    ASSUME IInv, NEW g \in Slots, Live(g), NEW h \in Slots \ {g}, loop'[h] = loop[h], LoopBudget(h)
    PROVE  LoopBudget(h)'
  <1>1. loop[h].pc \in {"free", "wedged"}
    BY DEF IInv, AtMostOneLoop, Live
  <1>2. loop'[h].i = 0 /\ loop'[h].pc \in {"free", "wedged"} /\ loop'[h].unread \in Nat
    BY <1>1 DEF LoopBudget, IInv, TypeOK
  <1> QED
    BY <1>2, LimitsAssumption DEF LoopBudget, Begun, Counting, Trip

LEMMA BudgetLoopStep ==
    ASSUME IInv, \A h \in Slots : LoopBudget(h), NEW g \in Slots,
           LoopStep(g) \/ BreakerReadFails(g) \/ LoopTripFails(g) \/ LoopRaises(g),
           ~(loop[g].pc \in {"trip_stop", "trip_kill"} /\ LoopTripFails(g))
    PROVE  \A h \in Slots : LoopBudget(h)'
  <1> USE DEF At
  <1>0. /\ loop \in [Slots -> LoopRecord] /\ loop[g].i \in Nat /\ MaxContinuations \in Nat \ {0}
        /\ loop[g].unread \in Nat
        /\ LoopBudget(g) /\ reg \in Metrics \cup {NoMetrics} /\ reg.count \in Nat
        /\ idle' = idle
    <2>1. reg \in Metrics \cup {NoMetrics}
      BY DEF IInv, TypeOK
    <2>2. reg.count \in Nat
      BY <2>1 DEF Metrics, NoMetrics
    <2>3. loop \in [Slots -> LoopRecord]
      BY DEF IInv, TypeOK, LoopRecord
    <2>4. loop[g].i \in Nat /\ loop[g].unread \in Nat
      BY <2>3 DEF LoopRecord
    <2> QED
      BY <2>1, <2>2, <2>3, <2>4, LimitsAssumption
         DEF LoopStep, Boot, EmitStarted, CommitStarted, LoopTop, DbCheck, CallLLM, Checkpoint, LoopTrips,
             CommitCheckpoint, EmitStopped, LoopExit, LoopTripFails, LoopRaises, CheckBreakers,
             BreakerReadFails
  <1>1. Live(g)
    BY DEF LoopStep, Boot, EmitStarted, CommitStarted, LoopTop, DbCheck, CallLLM, Checkpoint, LoopTrips,
           CommitCheckpoint, EmitStopped, LoopExit, LoopTripFails, LoopRaises, CheckBreakers,
           BreakerReadFails, Live
  <1>2. ASSUME \A h \in Slots \ {g} : loop'[h] = loop[h], LoopBudget(g)'
        PROVE  \A h \in Slots : LoopBudget(h)'
    BY <1>1, <1>2, OthersBudget
  <1>3. Forgotten' = Forgotten /\ Forgotten \in Nat /\ Forgotten <= 2 * (MaxContinuations - 1)
    BY <1>0 DEF Forgotten
  <1> USE DEF LoopBudget, Metered, Excused, Begun, Counting, Trip
  <1>4. CASE Boot(g)
    <2>1. loop[g].i = 0
      BY <1>0, <1>4 DEF Boot
    <2>2. CASE Goto(g, "starting")
      BY <1>0, <1>2, <2>1, <2>2, GotoIs
    <2>3. CASE Goto(g, "wedged")
      BY <1>0, <1>2, <2>1, <2>3, GotoIs
    <2> QED BY <1>4, <2>2, <2>3 DEF Boot
  <1>5. CASE EmitStarted(g)
    <2>1. loop[g].i = 0 /\ reg'.count = 0 /\ Goto(g, "started")
      BY <1>0, <1>5 DEF EmitStarted
    <2> QED
      BY <1>0, <1>2, <1>3, <2>1, GotoIs
  <1>6. CASE CommitStarted(g)
    <2>1. Goto(g, "top") /\ reg' = reg /\ loop[g].pc = "started"
      BY <1>6 DEF CommitStarted
    <2> QED
      BY <1>0, <1>2, <1>3, <2>1, GotoIs
  <1>7. CASE LoopTop(g)
    <2>1. loop[g].pc = "top" /\ reg' = reg
      BY <1>7 DEF LoopTop
    <2>2. CASE Goto(g, "stopping")
      BY <1>0, <1>2, <2>1, <2>2, GotoIs
    <2>3. CASE Goto(g, "dbcheck") /\ ~loop[g].stop
      BY <1>0, <1>2, <1>3, <2>1, <2>3, GotoIs
    <2> QED BY <1>7, <2>2, <2>3 DEF LoopTop
  <1>8. CASE DbCheck(g)
    <2>1. loop[g].pc = "dbcheck" /\ reg' = reg
      BY <1>8 DEF DbCheck
    <2>2. CASE Goto(g, "stopping")
      BY <1>0, <1>2, <2>1, <2>2, GotoIs
    <2>3. CASE Goto(g, "llm")
      BY <1>0, <1>2, <1>3, <2>1, <2>3, GotoIs
    <2> QED BY <1>8, <2>2, <2>3 DEF DbCheck
  <1>9. CASE CallLLM(g)
    <2>1. loop[g].pc = "llm" /\ reg' = reg
      BY <1>9 DEF CallLLM
    <2>2. CASE Goto(g, "ckpt")
      BY <1>0, <1>2, <1>3, <2>1, <2>2, GotoIs
    <2>3. CASE Goto(g, "top")
      BY <1>0, <1>2, <1>3, <2>1, <2>3, GotoIs
    <2> QED BY <1>9, <2>2, <2>3 DEF CallLLM
  <1>10. CASE Checkpoint(g)
    <2>1. PICK k \in TokenSteps :
             /\ reg' = Counted(k)
             /\ loop' = [loop EXCEPT
                   ![g].pc = IF Exceeded(reg') THEN "ckpt_over" ELSE "ckpt_read",
                   ![g].late = IF loop[g].stop THEN @ + 1 ELSE @]
      BY <1>10 DEF Checkpoint
    <2>2. reg'.count = reg.count + 1
      BY <1>0, <2>1 DEF Counted, NoMetrics
    <2> DEFINE np == IF Exceeded(reg') THEN "ckpt_over" ELSE "ckpt_read"
               nl == IF loop[g].stop THEN loop[g].late + 1 ELSE loop[g].late
    <2>3. loop' = [loop EXCEPT ![g].pc = np, ![g].late = nl]
      BY <2>1
    <2>4. /\ np \in {"ckpt_over", "ckpt_read"}
          /\ np = "ckpt_read" => reg.count + 1 < MaxContinuations
      BY <1>0, <2>2 DEF Exceeded
    <2> HIDE DEF np, nl
    <2>5. /\ loop'[g].pc = np /\ loop'[g].i = loop[g].i /\ loop'[g].stop = loop[g].stop
          /\ loop'[g].unread = loop[g].unread
          /\ \A h \in Slots \ {g} : loop'[h] = loop[h]
      BY <1>0, <2>3 DEF LoopRecord
    <2>6. loop[g].pc = "ckpt"
      BY <1>10 DEF Checkpoint
    <2>7. CASE np = "ckpt_over"
      BY <1>0, <1>2, <1>3, <2>2, <2>5, <2>6, <2>7
    <2>8. CASE np = "ckpt_read"
      BY <1>0, <1>2, <1>3, <2>2, <2>4, <2>5, <2>6, <2>8
    <2> QED BY <2>4, <2>7, <2>8
  <1>11. CASE LoopTrips(g)
    <2>1. CASE loop[g].pc = "trip_stop"
      <3>1. Goto(g, "trip_kill")
        BY <1>11, <2>1 DEF LoopTrips
      <3> QED
        BY <1>0, <1>2, <2>1, <3>1, GotoIs
    <2>2. CASE loop[g].pc = "trip_kill"
      <3> DEFINE lp == [loop EXCEPT ![g].pc = "trip_commit"]
      <3>1. loop' = Kill(lp)
        BY <1>11, <2>2 DEF LoopTrips
      <3>2. /\ lp \in [Slots -> LoopRecord] /\ lp[g].pc = "trip_commit" /\ lp[g].i = loop[g].i
            /\ lp[g].unread = loop[g].unread
            /\ \A h \in Slots \ {g} : lp[h] = loop[h]
        BY <1>0 DEF LoopRecord, LoopPC
      <3> HIDE DEF lp
      <3>3. /\ loop'[g].pc = "trip_commit" /\ loop'[g].i = loop[g].i /\ loop'[g].stop
            /\ loop'[g].unread = loop[g].unread
        BY <1>1, <2>2, <3>1, <3>2, KillIs DEF Listening
      <3>4. \A h \in Slots \ {g} : loop'[h] = loop[h]
        <4>1. \A h \in Slots \ {g} : ~Listening(h)
          BY <1>1 DEF Listening, IInv, AtMostOneLoop
        <4> QED
          BY <3>1, <3>2, <4>1 DEF Kill
      <3> QED
        BY <1>0, <1>2, <2>2, <3>3, <3>4
    <2>3. CASE loop[g].pc = "trip_commit"
      <3>1. Goto(g, "ckpt_commit") /\ loop[g].stop
        BY <1>0, <1>11, <2>3 DEF LoopTrips
      <3> QED
        BY <1>0, <1>2, <2>3, <3>1, GotoIs
    <2> QED BY <1>11, <2>1, <2>2, <2>3 DEF LoopTrips
  <1>12. CASE LoopTripFails(g)
    <2>1. Goto(g, "ckpt_commit") /\ loop[g].pc = "trip_commit" /\ loop[g].stop
      BY <1>0, <1>12 DEF LoopTripFails
    <2> QED
      BY <1>0, <1>2, <2>1, GotoIs
  <1>13. CASE CommitCheckpoint(g)
    <2>1. /\ loop'[g].pc = "top" /\ loop'[g].i = loop[g].i + 1 /\ loop'[g].stop = loop[g].stop
          /\ loop'[g].unread = loop[g].unread
          /\ \A h \in Slots \ {g} : loop'[h] = loop[h]
          /\ loop[g].pc = "ckpt_commit" /\ reg' = reg
      BY <1>0, <1>13 DEF CommitCheckpoint, LoopRecord
    <2> QED
      BY <1>0, <1>2, <1>3, <2>1
  <1>14. CASE EmitStopped(g)
    <2>1. Goto(g, "stopped") /\ loop[g].pc = "stopping"
      BY <1>14 DEF EmitStopped
    <2> QED
      BY <1>0, <1>2, <2>1, GotoIs
  <1>15. CASE LoopExit(g) \/ LoopRaises(g)
    <2>1. loop' = [loop EXCEPT ![g] = FreeSlot]
      BY <1>15 DEF LoopExit, LoopRaises, Finally
    <2>2. /\ loop'[g].pc = "free" /\ loop'[g].i = 0 /\ loop'[g].unread = 0
          /\ \A h \in Slots \ {g} : loop'[h] = loop[h]
      BY <1>0, <2>1 DEF FreeSlot
    <2> QED
      BY <1>0, <1>2, <2>2
  <1>16. CASE CheckBreakers(g)
    <2>1. /\ loop[g].pc \in {"ckpt_read", "ckpt_over"} /\ reg' = reg
          /\ \/ Goto(g, "trip_stop")
             \/ loop[g].pc = "ckpt_read" /\ Goto(g, "ckpt_commit")
      BY <1>16 DEF CheckBreakers
    <2>2. CASE Goto(g, "trip_stop")
      BY <1>0, <1>2, <2>1, <2>2, GotoIs
    <2>3. CASE loop[g].pc = "ckpt_read" /\ Goto(g, "ckpt_commit")
      BY <1>0, <1>2, <1>3, <2>1, <2>3, GotoIs
    <2> QED BY <2>1, <2>2, <2>3
  <1>17. CASE BreakerReadFails(g)
    <2>1. /\ loop'[g].pc = "ckpt_commit" /\ loop'[g].i = loop[g].i /\ loop'[g].stop = loop[g].stop
          /\ loop'[g].unread = loop[g].unread + 1
          /\ \A h \in Slots \ {g} : loop'[h] = loop[h]
          /\ loop[g].pc \in {"ckpt_read", "ckpt_over"} /\ reg' = reg
      BY <1>0, <1>17 DEF BreakerReadFails, LoopRecord
    <2> QED
      BY <1>0, <1>2, <1>3, <2>1
  <1> QED
    BY <1>4, <1>5, <1>6, <1>7, <1>8, <1>9, <1>10, <1>11, <1>12, <1>13, <1>14, <1>15, <1>16, <1>17
       DEF LoopStep

\* A kill reaches every loop whose metrics count.
LEMMA BudgetKill ==
    ASSUME IInv, \A h \in Slots : LoopBudget(h), loop' = Kill(loop)
    PROVE  \A h \in Slots : LoopBudget(h)'
  <1>1. loop \in [Slots -> LoopRecord]
    BY DEF IInv, TypeOK, LoopRecord
  <1>2. \A h \in Slots : /\ loop'[h].pc = loop[h].pc /\ loop'[h].i = loop[h].i
                         /\ loop'[h].unread = loop[h].unread
                         /\ loop'[h].stop = (loop[h].stop \/ Listening(h))
    BY <1>1, KillIs
  <1>3. \A h \in Slots : loop[h].pc \in Counting => Listening(h)
    BY DEF Counting, Listening, Live
  <1> QED
    BY <1>2, <1>3 DEF LoopBudget, Begun

\* The loops stand where they are and their metrics are dropped, aged or kept.
LEMMA BudgetMetrics ==
    ASSUME \A h \in Slots : LoopBudget(h), loop' = loop,
           \A h \in Slots : loop[h].pc \in Counting /\ ~loop[h].stop => Metered(h)'
    PROVE  \A h \in Slots : LoopBudget(h)'
  BY DEF LoopBudget, Begun

LEMMA BudgetIdleStep ==
    ASSUME IInv, \A h \in Slots : LoopBudget(h), IdleStep \/ IdleRaises,
           ~(idle \in {"trip_stop", "trip_kill"} /\ IdleRaises)
    PROVE  \A h \in Slots : LoopBudget(h)'
  <1>0. /\ MaxContinuations \in Nat \ {0} /\ reg.count \in Nat /\ NoMetrics.count = 0
        /\ \A h \in Slots : Begun(h) \in Nat /\ Excused(h) \in Nat
        /\ \A h \in Slots : loop[h].pc \in Counting /\ ~loop[h].stop => Metered(h)
    <2>1. reg.count \in Nat /\ NoMetrics.count = 0
      BY DEF IInv, TypeOK, Metrics, NoMetrics
    <2>2. \A h \in Slots : loop[h].i \in Nat /\ loop[h].unread \in Nat
      BY DEF IInv, TypeOK
    <2> QED
      BY <2>1, <2>2, LimitsAssumption DEF LoopBudget, Begun, Excused
  <1>1. CASE IdleScan \/ IdleEvaluate
    <2>1. loop' = loop /\ reg' = reg /\ Forgotten' = Forgotten
      BY <1>1 DEF IdleScan, IdleEvaluate, Forgotten
    <2> QED
      BY <1>0, <2>1, BudgetMetrics DEF Metered, Excused, Begun
  <1>2. CASE IdleTrips /\ idle = "trip_stop"
    <2>1. loop' = loop /\ reg' = NoMetrics /\ idle' = "trip_kill"
      BY <1>2 DEF IdleTrips
    <2>2. Forgotten = MaxContinuations - 1 /\ Forgotten' = 2 * (MaxContinuations - 1)
      BY <1>2, <2>1 DEF Forgotten
    <2> QED
      BY <1>0, <2>1, <2>2, BudgetMetrics DEF Metered, Excused, Begun
  <1>3. CASE IdleTrips /\ idle = "trip_kill"
    BY <1>3, BudgetKill DEF IdleTrips
  <1>4. CASE idle = "trip_commit" /\ (IdleTrips \/ IdleRaises)
    <2>1. loop' = loop /\ reg' \in {reg, NoMetrics} /\ idle' \in {"waiting", "dead"}
      BY <1>4 DEF IdleTrips, IdleRaises
    <2>2. Forgotten = 0 /\ Forgotten' = MaxContinuations - 1
      BY <1>4, <2>1 DEF Forgotten
    <2> QED
      BY <1>0, <2>1, <2>2, BudgetMetrics DEF Metered, Excused, Begun
  <1>5. CASE IdleRaises /\ idle \in {"waiting", "scanned", "over"}
    <2>1. loop' = loop /\ reg' = reg /\ Forgotten' = Forgotten
      BY <1>5 DEF IdleRaises, Forgotten
    <2> QED
      BY <1>0, <2>1, BudgetMetrics DEF Metered, Excused, Begun
  <1> QED
    BY <1>1, <1>2, <1>3, <1>4, <1>5 DEF IdleStep, IdleTrips, IdleRaises

LEMMA BudgetElsewhere ==
    ASSUME IInv, \A h \in Slots : LoopBudget(h),
           \/ WallClockPasses \/ IdleTimeoutPasses \/ Restart
           \/ \E r \in Requests : ReadState(r) \/ RequestStep(r) \/ RollbackRequest(r)
    PROVE  \A h \in Slots : LoopBudget(h)'
  <1>0. \A h \in Slots : loop[h].pc \in Counting /\ ~loop[h].stop => Metered(h)
    BY DEF LoopBudget
  <1>1. CASE WallClockPasses \/ IdleTimeoutPasses
    <2>1. loop' = loop /\ Forgotten' = Forgotten /\ reg'.count = reg.count
      BY <1>1 DEF WallClockPasses, IdleTimeoutPasses, Forgotten, IInv, TypeOK, Metrics
    <2> QED
      BY <1>0, <2>1, BudgetMetrics DEF Metered, Excused, Begun
  <1>2. CASE Restart
    BY <1>2, LimitsAssumption DEF Restart, LoopBudget, Begun, Counting, Trip, FreeSlot
  <1>3. ASSUME NEW r \in Requests, ReadState(r) \/ RequestStep(r) \/ RollbackRequest(r)
        PROVE  \A h \in Slots : LoopBudget(h)'
    <2>1. CASE InterruptKill(r)
      BY <2>1, BudgetKill DEF InterruptKill
    <2>2. CASE WakeStart(r) \/ ResumeStart(r)
      <3>1. StartRuntime /\ reg' = reg /\ Forgotten' = Forgotten
        BY <2>2 DEF WakeStart, ResumeStart, Forgotten
      <3>2. CASE loop' = loop
        BY <1>0, <3>1, <3>2, BudgetMetrics DEF Metered, Excused, Begun
      <3>3. ASSUME NEW g \in Slots, loop' = [loop EXCEPT ![g] = [FreeSlot EXCEPT !.pc = "boot"]]
            PROVE  \A h \in Slots : LoopBudget(h)'
        <4>1. /\ loop'[g].pc = "boot" /\ loop'[g].i = 0 /\ loop'[g].unread = 0
              /\ \A h \in Slots \ {g} : loop'[h] = loop[h]
          BY <3>3 DEF IInv, TypeOK, FreeSlot
        <4>2. LoopBudget(g)'
          BY <4>1, LimitsAssumption DEF LoopBudget, Begun, Counting, Trip
        <4>3. \A h \in Slots \ {g} : LoopBudget(h)'
          BY <4>1, <3>1 DEF LoopBudget, Metered, Excused, Begun
        <4> QED BY <4>2, <4>3
      <3> QED
        BY <3>1, <3>2, <3>3 DEF StartRuntime
    <2>3. CASE ReadState(r) \/ SetLoopStatus(r) \/ CommitRequest(r) \/ RollbackRequest(r)
      <3>1. loop' = loop /\ reg' = reg /\ Forgotten' = Forgotten
        BY <2>3 DEF ReadState, SetLoopStatus, CommitRequest, RollbackRequest, Forgotten
      <3> QED
        BY <1>0, <3>1, BudgetMetrics DEF Metered, Excused, Begun
    <2> QED BY <1>3, <2>1, <2>2, <2>3 DEF RequestStep
  <1> QED
    BY <1>1, <1>2, <1>3

\* As long as the writes of breaker trips succeed, a loop writes at most
\* 3 * max_continuations - 2 checkpoints, and one more for each whose limits
\* could not be read, whatever else fails or interleaves.
THEOREM BudgetKept == MCSpec => []BudgetRespectedWhenIntact
  <1>1. MCInit => IInv /\ BudgetInv
    <2> SUFFICES ASSUME MCInit PROVE IInv /\ BudgetInv
      OBVIOUS
    <2>1. \A g \in Slots : loop[g].pc = "free" /\ loop[g].i = 0 /\ loop[g].unread = 0
      BY DEF MCInit, Init, FreeSlot
    <2>2. \A g \in Slots : LoopBudget(g)
      BY <2>1, LimitsAssumption DEF LoopBudget, Begun, Counting, Trip
    <2> QED
      BY <2>2, InitInv DEF MCInit, BudgetInv
  <1>2. IInv /\ [MCNext]_<<vars, intact>> => IInv'
    BY InvStep DEF MCNext, vars
  <1>3. IInv /\ BudgetInv /\ [MCNext]_<<vars, intact>> => BudgetInv'
    <2> SUFFICES ASSUME IInv, BudgetInv, [MCNext]_<<vars, intact>>, intact'
                 PROVE  \A h \in Slots : LoopBudget(h)'
      BY DEF BudgetInv
    <2>1. intact /\ \A h \in Slots : LoopBudget(h)
      BY DEF MCNext, BudgetInv
    <2>2. CASE UNCHANGED <<vars, intact>>
      BY <2>1, <2>2 DEF vars, LoopBudget, Metered, Excused, Begun, Forgotten
    <2>3. CASE Next /\ ~TripWriteFails
      <3>1. ASSUME NEW g \in Slots,
                   LoopStep(g) \/ BreakerReadFails(g) \/ LoopTripFails(g) \/ LoopRaises(g)
            PROVE  \A h \in Slots : LoopBudget(h)'
        BY <2>1, <2>3, <3>1, BudgetLoopStep DEF TripWriteFails
      <3>2. CASE IdleStep \/ IdleRaises
        BY <2>1, <2>3, <3>2, BudgetIdleStep DEF TripWriteFails
      <3> QED
        BY <2>1, <2>3, <3>1, <3>2, BudgetElsewhere DEF Next
    <2> QED
      BY <2>1, <2>2, <2>3 DEF MCNext
  <1>4. IInv /\ BudgetInv => BudgetRespectedWhenIntact
    <2> SUFFICES ASSUME IInv, intact, \A h \in Slots : LoopBudget(h), NEW g \in Slots
                 PROVE  loop[g].i <= 3 * MaxContinuations - 2 + loop[g].unread
      BY DEF BudgetInv, BudgetRespectedWhenIntact, BudgetRespected
    <2>1. loop[g].i \in Nat /\ loop[g].unread \in Nat
      BY DEF IInv, TypeOK
    <2> QED
      BY <2>1, LimitsAssumption DEF LoopBudget, Begun
  <1> QED
    BY <1>1, <1>2, <1>3, <1>4, PTL DEF MCSpec
============================================================================
