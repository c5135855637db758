--------------------------- MODULE ComposerProofs ---------------------------
(***************************************************************************)
(* A chat turn for any number of turns, sockets, browsers and faults: the  *)
(* registration of a socket is not lost, a turn is ended once by each      *)
(* producer, and a browser that reads alone misses no frame.               *)
(***************************************************************************)
EXTENDS Composer, TLAPS

TurnRecords == [status : {"absent", "responding", "completed", "failed"},
                history : Seq(Frame), queue : Seq(Nat),
                req : {"idle", "sending", "returned", "over"},
                sock : Sockets \cup {NoSocket}]
SocketStates == {"free", "auth", "open", "superseded", "lost", "closing", "gone"}
Messages == [turn : Turns, frame : Frame]
Finishing == [turn : Turns, status : {"completed", "failed"}]
HostRecords == [sock : Sockets \cup {NoSocket}, active : Turns \cup {NoTurn}, said : Nat]
ReaderRecords == [saw : SUBSET Nat, state : {"idle", "live", "ended"}, shared : BOOLEAN]

-----------------------------------------------------------------------------
(* Types, one group of variables at a time                                 *)

TurnTyped ==
    /\ turn \in [Turns -> TurnRecords]
    /\ \A t \in Turns : turn[t].req = "sending" => turn[t].sock \in Sockets
RowTyped == row \in [Turns -> {"none", "pending", "responding", "completed", "failed"}]
TaskTyped == task \in [Turns -> {"off", "run", "completed", "failed"}]
HubTyped ==
    /\ conn \in Sockets \cup {NoSocket} /\ lock \in Sockets \cup {NoSocket}
    /\ ws \in [Sockets -> SocketStates]
WireTyped ==
    /\ out \in [Sockets -> Seq(Turns)]
    /\ in \in [Sockets -> Seq(Messages)]
    /\ busy \in [Sockets -> Finishing \cup {Idle}]
HostTyped == host \in HostRecords /\ pi \in Seq(Turns)
ReaderTyped == reader \in [Readers -> ReaderRecords]
FaultTyped == faults \in 0..MaxFaults

Typed ==
    /\ TurnTyped /\ RowTyped /\ TaskTyped /\ HubTyped /\ WireTyped /\ HostTyped /\ ReaderTyped /\ FaultTyped

LEMMA InitTyped == Init => Typed
  <1> SUFFICES ASSUME Init PROVE Typed
    OBVIOUS
  <1>1. TurnTyped
    BY DEF Init, TurnTyped, TurnRecords
  <1>2. WireTyped
    BY DEF Init, WireTyped
  <1>3. HostTyped
    BY DEF Init, HostTyped, HostRecords
  <1>4. RowTyped /\ TaskTyped /\ HubTyped
    BY DEF Init, RowTyped, TaskTyped, HubTyped, SocketStates
  <1>5. ReaderTyped /\ FaultTyped
    BY ComposerConstants DEF Init, ReaderTyped, ReaderRecords, FaultTyped
  <1> QED
    BY <1>1, <1>2, <1>3, <1>4, <1>5 DEF Typed

\* _emit_frame: the frame is the last of the history and its position the last of the
\* queue.
LEMMA EmitIs ==
    ASSUME TurnTyped, NEW t \in Turns, NEW f \in Frame, Emit(t, f)
    PROVE  /\ TurnTyped'
           /\ turn'[t].history = Append(turn[t].history, f)
           /\ turn'[t].queue = Append(turn[t].queue, Len(turn[t].history) + 1)
           /\ turn'[t].status = IF IsTerminal(f) THEN StatusAfter(f) ELSE turn[t].status
           /\ turn'[t].req = turn[t].req /\ turn'[t].sock = turn[t].sock
           /\ \A u \in Turns \ {t} : turn'[u] = turn[u]
  <1> DEFINE h == Append(turn[t].history, f)
             q == Append(turn[t].queue, Len(turn[t].history) + 1)
             st == IF IsTerminal(f) THEN StatusAfter(f) ELSE turn[t].status
             x == [turn[t] EXCEPT !.history = h, !.queue = q, !.status = st]
  <1>1. turn[t] \in TurnRecords
    BY DEF TurnTyped
  <1>2. h \in Seq(Frame) /\ q \in Seq(Nat) /\ st \in {"absent", "responding", "completed", "failed"}
    BY <1>1 DEF TurnRecords, StatusAfter
  <1>3. turn' = [turn EXCEPT ![t] = x]
    BY <1>1 DEF Emit, TurnTyped, TurnRecords
  <1> HIDE DEF h, q, st
  <1>4. /\ x \in TurnRecords /\ x.history = h /\ x.queue = q /\ x.status = st
        /\ x.req = turn[t].req /\ x.sock = turn[t].sock
    BY <1>1, <1>2 DEF TurnRecords
  <1> HIDE DEF x
  <1>5. turn'[t] = x /\ turn' \in [Turns -> TurnRecords] /\ \A u \in Turns \ {t} : turn'[u] = turn[u]
    BY <1>3, <1>4 DEF TurnTyped
  <1>6. TurnTyped'
    BY <1>4, <1>5 DEF TurnTyped
  <1> QED
    BY <1>4, <1>5, <1>6 DEF h, q, st

\* _finalize_assistant_message and the end marker.
LEMMA FinaliseIs ==
    ASSUME TurnTyped, RowTyped, NEW t \in Turns, NEW status \in {"completed", "failed"}, Finalise(t, status)
    PROVE  /\ TurnTyped' /\ RowTyped'
           /\ turn'[t].queue = Append(turn[t].queue, EndOfStream)
           /\ turn'[t].history = turn[t].history /\ turn'[t].status = turn[t].status
           /\ turn'[t].req = turn[t].req /\ turn'[t].sock = turn[t].sock
           /\ \A u \in Turns \ {t} : turn'[u] = turn[u]
  <1> DEFINE q == Append(turn[t].queue, EndOfStream)
             x == [turn[t] EXCEPT !.queue = q]
  <1>1. turn[t] \in TurnRecords
    BY DEF TurnTyped
  <1>2. q \in Seq(Nat)
    BY <1>1 DEF TurnRecords, EndOfStream
  <1>3. turn' = [turn EXCEPT ![t] = x]
    BY DEF Finalise, TurnTyped
  <1> HIDE DEF q
  <1>4. /\ x \in TurnRecords /\ x.history = turn[t].history /\ x.queue = q /\ x.status = turn[t].status
        /\ x.req = turn[t].req /\ x.sock = turn[t].sock
    BY <1>1, <1>2 DEF TurnRecords
  <1> HIDE DEF x
  <1>5. turn'[t] = x /\ turn' \in [Turns -> TurnRecords] /\ \A u \in Turns \ {t} : turn'[u] = turn[u]
    BY <1>3, <1>4 DEF TurnTyped
  <1>6. TurnTyped'
    BY <1>4, <1>5 DEF TurnTyped
  <1>7. RowTyped'
    BY DEF Finalise, RowTyped
  <1> QED
    BY <1>4, <1>5, <1>6, <1>7 DEF q

\* What the request writes into the record of its turn; the frames are left alone.
LEMMA RequestWrites ==
    ASSUME TurnTyped, NEW t \in Turns, NEW x,
           turn' = [turn EXCEPT ![t] = x],
           x \in TurnRecords, x.req = "sending" => x.sock \in Sockets
    PROVE  TurnTyped' /\ turn'[t] = x /\ \A u \in Turns \ {t} : turn'[u] = turn[u]
  BY DEF TurnTyped

LEMMA ScheduleIs ==
    ASSUME Typed, NEW t \in Turns, ScheduleTurn(t)
    PROVE  /\ Typed'
           /\ turn[t].status = "absent"
           /\ turn'[t].status = "responding" /\ turn'[t].req \in {"sending", "returned"}
           /\ turn'[t].history = turn[t].history /\ turn'[t].queue = turn[t].queue
           /\ \A u \in Turns \ {t} : turn'[u] = turn[u] /\ task'[u] = task[u]
           /\ task'[t] = IF turn'[t].req = "sending" THEN task[t] ELSE "run"
           /\ UNCHANGED <<hubVars, out, in, hostVars, reader, faults>>
  <1> DEFINE rq == IF is_connected THEN "sending" ELSE "returned"
             s == IF is_connected THEN conn ELSE NoSocket
             x == [turn[t] EXCEPT !.status = "responding", !.req = rq, !.sock = s]
  <1>0. /\ TurnTyped /\ turn[t] \in TurnRecords /\ turn[t].status = "absent"
        /\ task \in [Turns -> {"off", "run", "completed", "failed"}]
    BY DEF Typed, TurnTyped, TaskTyped, ScheduleTurn
  <1>1. /\ UNCHANGED <<hubVars, out, in, hostVars, reader, faults>> /\ row' = [row EXCEPT ![t] = "pending"]
        /\ task' = IF rq = "sending" THEN task ELSE [task EXCEPT ![t] = "run"]
    BY DEF ScheduleTurn
  <1>2. turn' = [turn EXCEPT ![t] = x]
    <2>1. CASE is_connected
      BY <2>1, <1>0 DEF ScheduleTurn, TurnTyped
    <2>2. CASE ~is_connected
      BY <2>2, <1>0 DEF ScheduleTurn, TurnTyped
    <2> QED BY <2>1, <2>2
  <1>3. rq \in {"sending", "returned"} /\ s \in Sockets \cup {NoSocket} /\ (rq = "sending" => s \in Sockets)
    BY DEF is_connected, Typed, HubTyped
  <1> HIDE DEF rq, s
  <1>4. /\ x \in TurnRecords /\ x.status = "responding" /\ x.req = rq /\ x.sock = s
        /\ x.history = turn[t].history /\ x.queue = turn[t].queue
    BY <1>0, <1>3 DEF TurnRecords
  <1> HIDE DEF x
  <1>5. TurnTyped' /\ turn'[t] = x /\ \A u \in Turns \ {t} : turn'[u] = turn[u]
    BY <1>0, <1>2, <1>3, <1>4, RequestWrites
  <1>6. TaskTyped' /\ RowTyped'
    BY <1>1 DEF Typed, RowTyped, TaskTyped
  <1>7. Typed'
    BY <1>1, <1>5, <1>6 DEF Typed, HubTyped, WireTyped, HostTyped, ReaderTyped, FaultTyped, hubVars, hostVars
  <1> QED
    BY <1>0, <1>1, <1>3, <1>4, <1>5, <1>7

\* A chat request goes to the end of what is in flight on a socket.
LEMMA RequestInFlight ==
    ASSUME WireTyped, NEW t \in Turns,
           out' = out \/ \E s \in Sockets : out' = [out EXCEPT ![s] = Append(@, t)]
    PROVE  out' \in [Sockets -> Seq(Turns)]
  <1>1. CASE out' = out
    BY <1>1 DEF WireTyped
  <1>2. CASE \E s \in Sockets : out' = [out EXCEPT ![s] = Append(@, t)]
    <2>1. PICK s \in Sockets : out' = [out EXCEPT ![s] = Append(@, t)]
      BY <1>2
    <2>2. out[s] \in Seq(Turns) /\ Append(out[s], t) \in Seq(Turns)
      BY DEF WireTyped
    <2> QED
      BY <2>1, <2>2 DEF WireTyped
  <1> QED
    BY <1>1, <1>2

\* ChatSent and Commit move the request on.
LEMMA ReqIs ==
    ASSUME TurnTyped, NEW t \in Turns, NEW rq \in {"returned", "over"}, turn' = [turn EXCEPT ![t].req = rq]
    PROVE  /\ TurnTyped'
           /\ turn'[t].req = rq /\ turn'[t].status = turn[t].status /\ turn'[t].sock = turn[t].sock
           /\ turn'[t].history = turn[t].history /\ turn'[t].queue = turn[t].queue
           /\ \A u \in Turns \ {t} : turn'[u] = turn[u]
  <1> DEFINE x == [turn[t] EXCEPT !.req = rq]
  <1>1. turn[t] \in TurnRecords /\ turn' = [turn EXCEPT ![t] = x]
    BY DEF TurnTyped
  <1>2. /\ x \in TurnRecords /\ x.req = rq /\ x.status = turn[t].status /\ x.sock = turn[t].sock
        /\ x.history = turn[t].history /\ x.queue = turn[t].queue
    BY <1>1 DEF TurnRecords
  <1> HIDE DEF x
  <1> QED
    BY <1>1, <1>2, RequestWrites

LEMMA SentIs ==
    ASSUME Typed, NEW t \in Turns, ChatSent(t)
    PROVE  /\ Typed'
           /\ turn[t].req = "sending" /\ turn'[t].req = "returned" /\ turn'[t].status = turn[t].status
           /\ turn'[t].history = turn[t].history /\ turn'[t].queue = turn[t].queue
           /\ \A u \in Turns \ {t} : turn'[u] = turn[u]
           /\ out' = out \/ \E s \in Sockets : out' = [out EXCEPT ![s] = Append(@, t)]
           /\ UNCHANGED <<row, task, hubVars, in, hostVars, reader, faults>>
  <1>1. TurnTyped /\ turn[t].req = "sending" /\ turn[t].sock \in Sockets
    BY DEF Typed, TurnTyped, ChatSent
  <1>2. turn' = [turn EXCEPT ![t].req = "returned"] /\ UNCHANGED <<row, task, hubVars, in, hostVars, reader, faults>>
    BY DEF ChatSent
  <1>3. out' = out \/ \E s \in Sockets : out' = [out EXCEPT ![s] = Append(@, t)]
    BY <1>1 DEF ChatSent
  <1>4. out' \in [Sockets -> Seq(Turns)]
    BY <1>3, RequestInFlight DEF Typed
  <1>5. Typed'
    BY <1>1, <1>2, <1>4, ReqIs DEF Typed, RowTyped, TaskTyped, HubTyped, WireTyped, HostTyped, ReaderTyped, FaultTyped, hubVars, hostVars
  <1> QED
    BY <1>1, <1>2, <1>3, <1>5, ReqIs

LEMMA SendFailsIs ==
    ASSUME Typed, NEW t \in Turns, ChatSendFails(t)
    PROVE  /\ Typed'
           /\ turn[t].req = "sending" /\ turn'[t].req = "returned" /\ turn'[t].status = turn[t].status
           /\ turn'[t].history = turn[t].history /\ turn'[t].queue = turn[t].queue /\ turn'[t].sock = NoSocket
           /\ \A u \in Turns \ {t} : turn'[u] = turn[u]
           /\ task' = [task EXCEPT ![t] = "run"]
           /\ out' = out \/ \E s \in Sockets : out' = [out EXCEPT ![s] = Append(@, t)]
           /\ conn' = IF conn = turn[t].sock THEN NoSocket ELSE conn
           /\ lock = NoSocket
           /\ UNCHANGED <<row, lock, ws, busy, in, hostVars, reader>>
  <1> DEFINE x == [turn[t] EXCEPT !.req = "returned", !.sock = NoSocket]
  <1>1. TurnTyped /\ turn[t].req = "sending" /\ turn[t].sock \in Sockets /\ turn[t] \in TurnRecords
    BY DEF Typed, TurnTyped, ChatSendFails
  <1>2. /\ turn' = [turn EXCEPT ![t] = x] /\ UNCHANGED <<row, lock, ws, busy, in, hostVars, reader>>
        /\ task' = [task EXCEPT ![t] = "run"] /\ lock = NoSocket
        /\ conn' = IF conn = turn[t].sock THEN NoSocket ELSE conn
    BY <1>1 DEF ChatSendFails, unregister, TurnTyped
  <1>3. out' = out \/ \E s \in Sockets : out' = [out EXCEPT ![s] = Append(@, t)]
    BY <1>1 DEF ChatSendFails
  <1>4. out' \in [Sockets -> Seq(Turns)]
    BY <1>3, RequestInFlight DEF Typed
  <1>5. /\ x \in TurnRecords /\ x.req = "returned" /\ x.status = turn[t].status /\ x.sock = NoSocket
        /\ x.history = turn[t].history /\ x.queue = turn[t].queue
    BY <1>1 DEF TurnRecords
  <1> HIDE DEF x
  <1>6. TurnTyped' /\ turn'[t] = x /\ \A u \in Turns \ {t} : turn'[u] = turn[u]
    BY <1>1, <1>2, <1>5, RequestWrites
  <1>7. faults' \in 0..MaxFaults
    BY ComposerConstants DEF ChatSendFails, Fault, NoFault, Typed, FaultTyped
  <1>8. Typed'
    BY <1>2, <1>4, <1>6, <1>7 DEF Typed, RowTyped, TaskTyped, HubTyped, WireTyped, HostTyped, ReaderTyped, FaultTyped, hostVars
  <1> QED
    BY <1>1, <1>2, <1>3, <1>5, <1>6, <1>8

LEMMA CommitIs ==
    ASSUME Typed, NEW t \in Turns, Commit(t)
    PROVE  /\ Typed'
           /\ turn[t].req = "returned" /\ turn'[t].req = "over" /\ turn'[t].status = turn[t].status
           /\ turn'[t].history = turn[t].history /\ turn'[t].queue = turn[t].queue
           /\ \A u \in Turns \ {t} : turn'[u] = turn[u]
           /\ UNCHANGED <<task, hubVars, out, in, hostVars, reader>>
  <1>1. /\ TurnTyped /\ turn[t].req = "returned" /\ turn' = [turn EXCEPT ![t].req = "over"]
        /\ UNCHANGED <<task, hubVars, out, in, hostVars, reader>>
    BY DEF Typed, Commit
  <1>2. RowTyped' /\ FaultTyped'
    BY ComposerConstants DEF Commit, Typed, RowTyped, FaultTyped, Fault, NoFault
  <1>3. Typed'
    BY <1>1, <1>2, ReqIs DEF Typed, TaskTyped, HubTyped, WireTyped, HostTyped, ReaderTyped, hubVars, hostVars
  <1> QED
    BY <1>1, <1>3, ReqIs

\* The stub: a frame of its own, then the end.
LEMMA StubFrameIs ==
    ASSUME Typed, NEW t \in Turns, StubFrame(t)
    PROVE  /\ Typed'
           /\ task[t] = "run"
           /\ \E f \in Frame : /\ f.of = Stub /\ Emit(t, f)
                               /\ task' = [task EXCEPT ![t] = IF IsTerminal(f) THEN StatusAfter(f) ELSE "run"]
           /\ UNCHANGED <<row, hubVars, out, in, hostVars, reader>>
  <1>1. task[t] = "run" /\ UNCHANGED <<row, hubVars, out, in, hostVars, reader>>
    BY DEF StubFrame
  <1>2. PICK f \in [type : {"chunk", "done", "error"}, of : {Stub}] :
           /\ Emit(t, f) /\ (IF f.type = "error" THEN Fault ELSE NoFault)
           /\ task' = [task EXCEPT ![t] = IF IsTerminal(f) THEN StatusAfter(f) ELSE "run"]
    BY DEF StubFrame
  <1>3. f \in Frame /\ f.of = Stub
    BY DEF Frame, Terminal
  <1>4. FaultTyped' /\ TaskTyped'
    BY <1>2, ComposerConstants DEF Typed, FaultTyped, TaskTyped, Fault, NoFault, StatusAfter
  <1>5. TurnTyped'
    BY <1>2, <1>3, EmitIs DEF Typed
  <1>6. Typed'
    BY <1>1, <1>4, <1>5 DEF Typed, RowTyped, HubTyped, WireTyped, HostTyped, ReaderTyped, hubVars, hostVars
  <1> QED
    BY <1>1, <1>2, <1>3, <1>6

LEMMA StubEndsIs ==
    ASSUME Typed, NEW t \in Turns, StubEnds(t)
    PROVE  /\ Typed'
           /\ task[t] \in {"completed", "failed"} /\ Finalise(t, task[t])
           /\ task' = [task EXCEPT ![t] = "off"]
           /\ UNCHANGED <<hubVars, out, in, hostVars, reader, faults>>
  <1>1. /\ task[t] \in {"completed", "failed"} /\ Finalise(t, task[t]) /\ task' = [task EXCEPT ![t] = "off"]
        /\ UNCHANGED <<hubVars, out, in, hostVars, reader, faults>>
    BY DEF StubEnds
  <1>2. TurnTyped' /\ RowTyped'
    BY <1>1, FinaliseIs DEF Typed
  <1>3. TaskTyped'
    BY <1>1 DEF Typed, TaskTyped
  <1>4. Typed'
    BY <1>1, <1>2, <1>3 DEF Typed, HubTyped, WireTyped, HostTyped, ReaderTyped, FaultTyped, hubVars, hostVars
  <1> QED
    BY <1>1, <1>4

\* What moves a socket or the registration leaves the turns, the wire and the host alone.
LEMMA HubMoves ==
    ASSUME Typed, NEW s \in Sockets,
           Register(s) \/ RegisterDone(s) \/ AuthFails(s) \/ LoseSocket(s) \/ LoopEnds(s)
    PROVE  Typed' /\ UNCHANGED <<turnVars, busy, out, in, hostVars, reader>>
  <1>1. UNCHANGED <<turnVars, busy, out, in, hostVars, reader>>
    BY DEF Register, RegisterDone, AuthFails, LoseSocket, LoopEnds
  <1>2. HubTyped'
    BY DEF Register, RegisterDone, AuthFails, LoseSocket, LoopEnds, unregister, Typed, HubTyped, SocketStates
  <1>3. FaultTyped'
    BY ComposerConstants DEF Register, RegisterDone, AuthFails, LoseSocket, LoopEnds, Fault, Typed, FaultTyped
  <1> QED
    BY <1>1, <1>2, <1>3 DEF Typed, TurnTyped, RowTyped, TaskTyped, WireTyped, HostTyped, ReaderTyped, turnVars, hostVars

LEMMA LoopBreaksIs ==
    ASSUME Typed, NEW s \in Sockets, LoopBreaks(s)
    PROVE  /\ Typed' /\ in' = [in EXCEPT ![s] = <<>>] /\ ws[s] \in {"superseded", "lost"}
           /\ ws' = [ws EXCEPT ![s] = "closing"]
           /\ UNCHANGED <<turnVars, conn, lock, busy, out, hostVars, reader, faults>>
  BY DEF LoopBreaks, Typed, TurnTyped, RowTyped, TaskTyped, HubTyped, SocketStates, WireTyped, HostTyped,
         ReaderTyped, FaultTyped, turnVars, hostVars

\* The frame at the head of what has arrived is emitted to its turn.
LEMMA IngestIs ==
    ASSUME Typed, NEW s \in Sockets, IngestFrame(s)
    PROVE  /\ Typed' /\ in[s] # <<>> /\ in[s] \in Seq(Messages)
           /\ Head(in[s]) \in Messages /\ Emit(Head(in[s]).turn, Head(in[s]).frame)
           /\ in' = [in EXCEPT ![s] = Tail(@)]
           /\ UNCHANGED <<row, task, conn, lock, ws, out, hostVars, reader, faults>>
  <1> DEFINE m == Head(in[s])
             b == IF IsTerminal(m.frame) THEN [turn |-> m.turn, status |-> StatusAfter(m.frame)] ELSE Idle
  <1>1. /\ in[s] # <<>> /\ in' = [in EXCEPT ![s] = Tail(@)] /\ Emit(m.turn, m.frame)
        /\ busy' = [busy EXCEPT ![s] = b]
        /\ UNCHANGED <<row, task, conn, lock, ws, out, hostVars, reader, faults>>
    BY DEF IngestFrame
  <1>2. in[s] \in Seq(Messages)
    BY DEF Typed, WireTyped
  <1>3. m \in Messages /\ Tail(in[s]) \in Seq(Messages)
    BY <1>1, <1>2
  <1>4. m.turn \in Turns /\ m.frame \in Frame
    BY <1>3 DEF Messages
  <1> HIDE DEF m
  <1>5. TurnTyped'
    BY <1>1, <1>4, EmitIs DEF Typed
  <1>6. b \in Finishing \cup {Idle}
    BY <1>4 DEF Finishing, StatusAfter
  <1> HIDE DEF b
  <1>7. WireTyped'
    BY <1>1, <1>3, <1>6 DEF Typed, WireTyped
  <1>8. Typed'
    BY <1>1, <1>5, <1>7 DEF Typed, RowTyped, TaskTyped, HubTyped, HostTyped, ReaderTyped, FaultTyped, hostVars
  <1> QED
    BY <1>1, <1>2, <1>3, <1>8 DEF m

LEMMA FinishIs ==
    ASSUME Typed, NEW s \in Sockets, FinishFrame(s)
    PROVE  /\ Typed'
           /\ \E t \in Turns, status \in {"completed", "failed"} : Finalise(t, status)
           /\ UNCHANGED <<task, conn, lock, ws, out, in, hostVars, reader, faults>>
  <1>1. /\ busy[s] # Idle /\ Finalise(busy[s].turn, busy[s].status)
        /\ busy' = [busy EXCEPT ![s] = Idle]
        /\ UNCHANGED <<task, conn, lock, ws, out, in, hostVars, reader, faults>>
    BY DEF FinishFrame
  <1>2. busy[s].turn \in Turns /\ busy[s].status \in {"completed", "failed"}
    BY <1>1 DEF Typed, WireTyped, Finishing
  <1>3. TurnTyped' /\ RowTyped'
    BY <1>1, <1>2, FinaliseIs DEF Typed
  <1>4. WireTyped'
    BY <1>1 DEF Typed, WireTyped
  <1>5. Typed'
    BY <1>1, <1>3, <1>4 DEF Typed, TaskTyped, HubTyped, HostTyped, ReaderTyped, FaultTyped, hostVars
  <1> QED
    BY <1>1, <1>2, <1>5

\* The host: a frame it sends goes to the end of what is in flight, or nowhere.
LEMMA HostSendsIs ==
    ASSUME Typed, NEW t \in Turns, NEW f \in Frame, HostSends(t, f)
    PROVE  /\ in' \in [Sockets -> Seq(Messages)]
           /\ \/ in' = in
              \/ \E s \in Sockets : in' = [in EXCEPT ![s] = Append(@, [turn |-> t, frame |-> f])]
  <1> DEFINE m == [turn |-> t, frame |-> f]
  <1>1. in' = in \/ (host.sock \in Sockets /\ in' = [in EXCEPT ![host.sock] = Append(@, m)])
    BY DEF HostSends, Typed, HostTyped, HostRecords
  <1>2. m \in Messages
    BY DEF Messages
  <1> HIDE DEF m
  <1>3. in' \in [Sockets -> Seq(Messages)]
    <2>1. CASE in' = in
      BY <2>1 DEF Typed, WireTyped
    <2>2. CASE host.sock \in Sockets /\ in' = [in EXCEPT ![host.sock] = Append(@, m)]
      <3>1. in[host.sock] \in Seq(Messages)
        BY <2>2 DEF Typed, WireTyped
      <3>2. Append(in[host.sock], m) \in Seq(Messages)
        BY <3>1, <1>2
      <3> QED
        BY <2>2, <3>2 DEF Typed, WireTyped
    <2> QED
      BY <1>1, <2>1, <2>2
  <1> QED
    BY <1>1, <1>3 DEF m

LEMMA HostConnectsIs ==
    ASSUME Typed, HostConnects
    PROVE  /\ Typed'
           /\ \E s \in Sockets : ws[s] = "free" /\ ws' = [ws EXCEPT ![s] = "auth"]
           /\ host'.active = host.active
           /\ UNCHANGED <<turnVars, conn, lock, busy, out, in, pi, reader, faults>>
  <1>1. PICK s \in Sockets : s = NewSocket /\ ws[s] = "free"
    BY DEF HostConnects, NewSocket
  <1>2. /\ ws' = [ws EXCEPT ![s] = "auth"] /\ host' = [host EXCEPT !.sock = s]
        /\ UNCHANGED <<turnVars, conn, lock, busy, out, in, pi, reader, faults>>
    BY <1>1 DEF HostConnects
  <1>3. host' \in HostRecords /\ host'.active = host.active
    BY <1>2 DEF Typed, HostTyped, HostRecords
  <1>4. HubTyped'
    BY <1>2 DEF Typed, HubTyped, SocketStates
  <1> QED
    BY <1>1, <1>2, <1>3, <1>4 DEF Typed, TurnTyped, RowTyped, TaskTyped, WireTyped, HostTyped, ReaderTyped, FaultTyped, turnVars

LEMMA HostClosesIs ==
    ASSUME Typed, HostCloses
    PROVE  /\ Typed' /\ host'.active = host.active
           /\ \E s \in Sockets : out' = [out EXCEPT ![s] = <<>>]
           /\ UNCHANGED <<turnVars, hubVars, in, pi, reader, faults>>
  <1>1. /\ host.sock \in Sockets /\ host' = [host EXCEPT !.sock = NoSocket] /\ out' = [out EXCEPT ![host.sock] = <<>>]
        /\ UNCHANGED <<turnVars, hubVars, in, pi, reader, faults>>
    BY DEF HostCloses, Typed, HostTyped, HostRecords
  <1>2. host' \in HostRecords /\ host'.active = host.active
    BY <1>1 DEF Typed, HostTyped, HostRecords
  <1>3. WireTyped'
    BY <1>1 DEF Typed, WireTyped, hubVars
  <1> QED
    BY <1>1, <1>2, <1>3 DEF Typed, TurnTyped, RowTyped, TaskTyped, HubTyped, HostTyped, ReaderTyped, FaultTyped, turnVars, hubVars

\* A frame about turn t, produced for some prompt, may arrive at the backend.
HostFrame(t, kinds) ==
    \/ in' = in
    \/ \E s \in Sockets, f \in Frame :
          /\ f.type \in kinds /\ f.of \in Turns
          /\ in' = [in EXCEPT ![s] = Append(@, [turn |-> t, frame |-> f])]

LEMMA ChatRequestIs ==
    ASSUME Typed, ChatRequest
    PROVE  /\ Typed'
           /\ \E s \in Sockets, t \in Turns :
                 /\ out[s] # <<>> /\ t = Head(out[s]) /\ out' = [out EXCEPT ![s] = Tail(@)]
                 /\ \/ host'.active = t /\ in' = in
                    \/ host'.active \in {host.active, NoTurn} /\ HostFrame(t, {"error"})
           /\ UNCHANGED <<turnVars, hubVars, reader>>
  <1> DEFINE s == host.sock
             t == Head(out[s])
             f == [type |-> "error", of |-> t]
  <1>1. /\ s \in Sockets /\ out[s] # <<>> /\ out' = [out EXCEPT ![s] = Tail(@)]
        /\ UNCHANGED <<turnVars, hubVars, reader>>
    BY DEF ChatRequest, Typed, HostTyped, HostRecords
  <1>2. out[s] \in Seq(Turns)
    BY <1>1 DEF Typed, WireTyped
  <1>3. t \in Turns /\ Tail(out[s]) \in Seq(Turns)
    BY <1>1, <1>2
  <1>4. out' \in [Sockets -> Seq(Turns)]
    BY <1>1, <1>3 DEF Typed, WireTyped
  <1>5. \/ NoFault /\ host' = [host EXCEPT !.active = t] /\ pi' = Append(pi, t) /\ in' = in
        \/ Fault /\ (host' = host \/ host' = [host EXCEPT !.active = NoTurn]) /\ pi' = pi /\ HostSends(t, f)
    BY DEF ChatRequest
  <1>6. FaultTyped'
    BY <1>5, ComposerConstants DEF Fault, NoFault, Typed, FaultTyped
  <1> HIDE DEF t, s
  <1>7. f \in Frame /\ f.type = "error" /\ f.of = t
    BY <1>3 DEF Frame, Terminal
  <1> HIDE DEF f
  <1>8. host' \in HostRecords
    BY <1>3, <1>5 DEF Typed, HostTyped, HostRecords
  <1>9. pi' \in Seq(Turns)
    BY <1>3, <1>5 DEF Typed, HostTyped
  <1>10. /\ in' \in [Sockets -> Seq(Messages)]
         /\ \/ host'.active = t /\ in' = in
            \/ host'.active \in {host.active, NoTurn} /\ HostFrame(t, {"error"})
    <2>1. CASE host' = [host EXCEPT !.active = t] /\ in' = in
      BY <2>1, <1>3 DEF Typed, WireTyped, HostTyped, HostRecords
    <2>2. CASE (host' = host \/ host' = [host EXCEPT !.active = NoTurn]) /\ HostSends(t, f)
      <3>1. host'.active \in {host.active, NoTurn}
        BY <2>2 DEF Typed, HostTyped, HostRecords
      <3>2. /\ in' \in [Sockets -> Seq(Messages)]
            /\ in' = in \/ \E q \in Sockets : in' = [in EXCEPT ![q] = Append(@, [turn |-> t, frame |-> f])]
        BY <2>2, <1>3, <1>7, HostSendsIs
      <3>3. HostFrame(t, {"error"})
        BY <3>2, <1>3, <1>7 DEF HostFrame
      <3> QED
        BY <3>1, <3>2, <3>3
    <2> QED
      BY <1>5, <2>1, <2>2
  <1>11. Typed'
    BY <1>1, <1>4, <1>6, <1>8, <1>9, <1>10
       DEF Typed, TurnTyped, RowTyped, TaskTyped, HubTyped, WireTyped, HostTyped, ReaderTyped, turnVars, hubVars
  <1> QED
    BY <1>1, <1>3, <1>10, <1>11 DEF t

\* Whatever pi says is credited to the active turn.
LEMMA ActiveHears ==
    ASSUME Typed, NEW f \in Frame, f.of \in Turns,
           IF host.active = NoTurn THEN UNCHANGED in ELSE HostSends(host.active, f)
    PROVE  /\ in' \in [Sockets -> Seq(Messages)]
           /\ in' = in \/ (host.active \in Turns /\ HostFrame(host.active, {f.type}))
  <1>1. CASE host.active = NoTurn
    BY <1>1 DEF Typed, WireTyped
  <1>2. CASE host.active # NoTurn
    <2>1. host.active \in Turns /\ HostSends(host.active, f)
      BY <1>2 DEF Typed, HostTyped, HostRecords
    <2>2. /\ in' \in [Sockets -> Seq(Messages)]
          /\ in' = in \/ \E q \in Sockets : in' = [in EXCEPT ![q] = Append(@, [turn |-> host.active, frame |-> f])]
      BY <2>1, HostSendsIs
    <2> QED
      BY <2>1, <2>2 DEF HostFrame
  <1> QED
    BY <1>1, <1>2

LEMMA PiSaysIs ==
    ASSUME Typed, PiSays
    PROVE  /\ Typed' /\ host'.active = host.active
           /\ in' = in \/ (host.active \in Turns /\ HostFrame(host.active, {"chunk"}))
           /\ UNCHANGED <<turnVars, hubVars, out, pi, reader, faults>>
  <1> DEFINE f == [type |-> "chunk", of |-> Head(pi)]
  <1>1. /\ pi # <<>> /\ (IF host.active = NoTurn THEN UNCHANGED in ELSE HostSends(host.active, f))
        /\ host' = [host EXCEPT !.said = @ + 1] /\ UNCHANGED <<turnVars, hubVars, out, pi, reader, faults>>
    BY DEF PiSays
  <1>2. Head(pi) \in Turns
    BY <1>1 DEF Typed, HostTyped
  <1>3. f \in Frame /\ f.of \in Turns /\ f.type = "chunk"
    BY <1>2 DEF Frame
  <1> HIDE DEF f
  <1>4. /\ in' \in [Sockets -> Seq(Messages)]
        /\ in' = in \/ (host.active \in Turns /\ HostFrame(host.active, {"chunk"}))
    BY <1>1, <1>3, ActiveHears
  <1>5. host' \in HostRecords /\ host'.active = host.active
    BY <1>1 DEF Typed, HostTyped, HostRecords
  <1>6. Typed'
    BY <1>1, <1>4, <1>5
       DEF Typed, TurnTyped, RowTyped, TaskTyped, HubTyped, WireTyped, HostTyped, ReaderTyped, FaultTyped, turnVars, hubVars
  <1> QED
    BY <1>1, <1>4, <1>5, <1>6

LEMMA PiEndsIs ==
    ASSUME Typed, PiEnds
    PROVE  /\ Typed' /\ host'.active = NoTurn
           /\ in' = in \/ (host.active \in Turns /\ HostFrame(host.active, Terminal))
           /\ UNCHANGED <<turnVars, hubVars, out, reader>>
  <1>1. pi # <<>> /\ host' = [host EXCEPT !.active = NoTurn, !.said = 0] /\ UNCHANGED <<turnVars, hubVars, out, reader>>
    BY DEF PiEnds
  <1>2. pi \in Seq(Turns) /\ Head(pi) \in Turns /\ Last(pi) \in Turns /\ Tail(pi) \in Seq(Turns) /\ Front(pi) \in Seq(Turns)
    <2>1. pi \in Seq(Turns) /\ Len(pi) \in Nat \ {0}
      BY <1>1 DEF Typed, HostTyped
    <2>2. Head(pi) \in Turns /\ Tail(pi) \in Seq(Turns) /\ pi[Len(pi)] \in Turns
      BY <2>1, <1>1
    <2>3. SubSeq(pi, 1, Len(pi) - 1) \in Seq(Turns)
      BY <2>1
    <2> QED
      BY <2>1, <2>2, <2>3 DEF Last, Front
  <1>3. PICK end \in {"done", "error", "rejected"} :
           LET p == IF end = "rejected" THEN Last(pi) ELSE Head(pi)
               f == [type |-> IF end = "done" THEN "done" ELSE "error", of |-> p]
           IN /\ IF end = "error" THEN Fault ELSE NoFault
              /\ pi' = IF end = "rejected" THEN Front(pi) ELSE Tail(pi)
              /\ IF host.active = NoTurn THEN UNCHANGED in ELSE HostSends(host.active, f)
    BY DEF PiEnds
  <1> DEFINE p == IF end = "rejected" THEN Last(pi) ELSE Head(pi)
             f == [type |-> IF end = "done" THEN "done" ELSE "error", of |-> p]
  <1>4. pi' \in Seq(Turns) /\ FaultTyped'
    BY <1>2, <1>3, ComposerConstants DEF Fault, NoFault, Typed, FaultTyped
  <1>5. f \in Frame /\ f.of \in Turns /\ f.type \in Terminal
    BY <1>2 DEF Frame, Terminal
  <1>6. IF host.active = NoTurn THEN UNCHANGED in ELSE HostSends(host.active, f)
    BY <1>3
  <1> HIDE DEF f
  <1>7. /\ in' \in [Sockets -> Seq(Messages)]
        /\ in' = in \/ (host.active \in Turns /\ HostFrame(host.active, {f.type}))
    BY <1>5, <1>6, ActiveHears
  <1>8. in' = in \/ (host.active \in Turns /\ HostFrame(host.active, Terminal))
    BY <1>5, <1>7 DEF HostFrame
  <1>9. host' \in HostRecords /\ host'.active = NoTurn
    BY <1>1 DEF Typed, HostTyped, HostRecords
  <1>10. Typed'
    BY <1>1, <1>4, <1>7, <1>9
       DEF Typed, TurnTyped, RowTyped, TaskTyped, HubTyped, WireTyped, HostTyped, ReaderTyped, turnVars, hubVars
  <1> QED
    BY <1>1, <1>8, <1>9, <1>10

LEMMA PiExitsIs ==
    ASSUME Typed, PiExits
    PROVE  Typed' /\ host'.active = host.active /\ UNCHANGED <<turnVars, hubVars, out, in, reader>>
  <1>1. host' = [host EXCEPT !.said = 0] /\ pi' = <<>> /\ Fault /\ UNCHANGED <<turnVars, hubVars, out, in, reader>>
    BY DEF PiExits
  <1>2. host' \in HostRecords /\ host'.active = host.active
    BY <1>1 DEF Typed, HostTyped, HostRecords
  <1>3. FaultTyped'
    BY <1>1, ComposerConstants DEF Fault, Typed, FaultTyped
  <1> QED
    BY <1>1, <1>2, <1>3
       DEF Typed, TurnTyped, RowTyped, TaskTyped, HubTyped, WireTyped, HostTyped, ReaderTyped, turnVars, hubVars

\* The browsers.
LEMMA SubscribeIs ==
    ASSUME Typed, NEW r \in Readers, Subscribe(r)
    PROVE  /\ Typed' /\ reader[r].state = "idle" /\ reader' = Opened(r, DOMAIN turn[Watches[r]].history)
           /\ UNCHANGED <<turnVars, hubVars, out, in, hostVars>>
  <1> DEFINE h == turn[Watches[r]].history
  <1>1. /\ reader[r].state = "idle" /\ reader' = Opened(r, DOMAIN h) /\ SecondTab(r)
        /\ UNCHANGED <<turnVars, hubVars, out, in, hostVars>>
    BY DEF Subscribe
  <1>2. DOMAIN h \in SUBSET Nat
    <2>1. turn[Watches[r]] \in TurnRecords
      BY ComposerConstants DEF Typed, TurnTyped
    <2>2. h \in Seq(Frame)
      BY <2>1 DEF TurnRecords
    <2> QED
      BY <2>2
  <1> HIDE DEF h
  <1>3. ReaderTyped'
    BY <1>1, <1>2 DEF Opened, Typed, ReaderTyped, ReaderRecords
  <1>4. FaultTyped'
    BY <1>1, ComposerConstants DEF SecondTab, Fault, Typed, FaultTyped
  <1>5. Typed'
    BY <1>1, <1>3, <1>4
       DEF Typed, TurnTyped, RowTyped, TaskTyped, HubTyped, WireTyped, HostTyped, turnVars, hubVars, hostVars
  <1> QED
    BY <1>1, <1>5 DEF h

LEMMA StreamFrameIs ==
    ASSUME Typed, NEW r \in Readers, NEW t, t = Watches[r], StreamFrame(r)
    PROVE  /\ Typed' /\ t \in Turns
           /\ reader[r].state = "live" /\ turn[t].queue # <<>> /\ turn[t].queue \in Seq(Nat)
           /\ turn'[t].queue = Tail(turn[t].queue) /\ turn'[t].history = turn[t].history
           /\ turn'[t].req = turn[t].req /\ turn'[t].status = turn[t].status /\ turn'[t].sock = turn[t].sock
           /\ \A u \in Turns \ {t} : turn'[u] = turn[u]
           /\ \A q \in Readers \ {r} : reader'[q] = reader[q]
           /\ reader'[r].shared = reader[r].shared
           /\ LET i == Head(turn[t].queue) IN
              /\ reader'[r].saw = IF i = EndOfStream THEN reader[r].saw ELSE reader[r].saw \cup {i}
              /\ reader'[r].state = IF i = EndOfStream \/ IsTerminal(turn[t].history[i]) THEN "ended" ELSE "live"
           /\ UNCHANGED <<row, task, hubVars, out, in, hostVars, faults>>
  <1> DEFINE i == Head(turn[t].queue)
             sw == IF i = EndOfStream THEN reader[r].saw ELSE reader[r].saw \cup {i}
             st == IF i = EndOfStream \/ IsTerminal(turn[t].history[i]) THEN "ended" ELSE "live"
             y == [reader[r] EXCEPT !.saw = sw, !.state = st]
             x == [turn[t] EXCEPT !.queue = Tail(turn[t].queue)]
  <1>1. t \in Turns /\ turn[t] \in TurnRecords /\ TurnTyped /\ reader[r] \in ReaderRecords
    BY ComposerConstants DEF Typed, TurnTyped, ReaderTyped
  <1>2. /\ reader[r].state = "live" /\ turn[t].queue # <<>>
        /\ turn' = [turn EXCEPT ![t] = x]
        /\ UNCHANGED <<row, task, hubVars, out, in, hostVars, faults>>
    BY <1>1 DEF StreamFrame, TurnTyped
  <1>3. reader' = [reader EXCEPT ![r] = y]
    <2>1. reader' = [reader EXCEPT ![r].saw = IF i = EndOfStream THEN @ ELSE @ \cup {i}, ![r].state = st]
      BY DEF StreamFrame
    <2> QED
      BY <1>1, <2>1 DEF Typed, ReaderTyped, ReaderRecords
  <1>4. turn[t].queue \in Seq(Nat)
    BY <1>1 DEF TurnRecords
  <1>5. i \in Nat /\ Tail(turn[t].queue) \in Seq(Nat)
    BY <1>2, <1>4
  <1>6. sw \in SUBSET Nat /\ st \in {"live", "ended"}
    BY <1>1, <1>5 DEF ReaderRecords
  <1> HIDE DEF i, sw, st
  <1>7. y \in ReaderRecords /\ y.saw = sw /\ y.state = st /\ y.shared = reader[r].shared
    BY <1>1, <1>6 DEF ReaderRecords
  <1>8. /\ x \in TurnRecords /\ x.queue = Tail(turn[t].queue) /\ x.history = turn[t].history
        /\ x.req = turn[t].req /\ x.status = turn[t].status /\ x.sock = turn[t].sock
    BY <1>1, <1>5 DEF TurnRecords
  <1> HIDE DEF x, y
  <1>9. TurnTyped' /\ turn'[t] = x /\ \A u \in Turns \ {t} : turn'[u] = turn[u]
    <2>1. x.req = "sending" => x.sock \in Sockets
      BY <1>1, <1>8 DEF TurnTyped
    <2> QED
      BY <1>1, <1>2, <1>8, <2>1, RequestWrites
  <1>10. ReaderTyped' /\ reader'[r] = y /\ \A q \in Readers \ {r} : reader'[q] = reader[q]
    BY <1>3, <1>7 DEF Typed, ReaderTyped
  <1>11. Typed'
    BY <1>2, <1>9, <1>10 DEF Typed, RowTyped, TaskTyped, HubTyped, WireTyped, HostTyped, FaultTyped, hubVars, hostVars
  <1> QED
    BY <1>1, <1>2, <1>4, <1>7, <1>8, <1>9, <1>10, <1>11 DEF i, sw, st

\* A stream that ends without a frame, or whose browser left.
LEMMA StreamStops ==
    ASSUME Typed, NEW r \in Readers, StreamTimeout(r) \/ StreamLeft(r)
    PROVE  /\ Typed' /\ reader[r].state = "live"
           /\ \A q \in Readers \ {r} : reader'[q] = reader[q]
           /\ \/ reader'[r].state = "ended" /\ reader'[r].saw = reader[r].saw
              \/ reader'[r].state = "idle" /\ reader'[r].saw = {}
           /\ UNCHANGED <<turnVars, hubVars, out, in, hostVars>>
  <1>1. reader[r].state = "live" /\ UNCHANGED <<turnVars, hubVars, out, in, hostVars>>
    BY DEF StreamTimeout, StreamLeft
  <1>2. FaultTyped'
    BY ComposerConstants DEF StreamTimeout, StreamLeft, Fault, Typed, FaultTyped
  <1>3. PICK y \in ReaderRecords :
           /\ reader' = [reader EXCEPT ![r] = y]
           /\ \/ y.state = "ended" /\ y.saw = reader[r].saw
              \/ y.state = "idle" /\ y.saw = {}
    <2>0. reader[r] \in ReaderRecords
      BY DEF Typed, ReaderTyped
    <2>1. CASE StreamTimeout(r)
      <3> DEFINE y == [reader[r] EXCEPT !.state = "ended"]
      <3>1. reader' = [reader EXCEPT ![r] = y]
        BY <2>1 DEF StreamTimeout, Typed, ReaderTyped
      <3>2. y \in ReaderRecords /\ y.state = "ended" /\ y.saw = reader[r].saw
        BY <2>0 DEF ReaderRecords
      <3> QED
        BY <3>1, <3>2
    <2>2. CASE StreamLeft(r)
      <3> DEFINE y == [saw |-> {}, state |-> "idle", shared |-> FALSE]
      <3>1. reader' = [reader EXCEPT ![r] = y]
        BY <2>2 DEF StreamLeft
      <3>2. y \in ReaderRecords /\ y.state = "idle" /\ y.saw = {}
        BY DEF ReaderRecords
      <3> QED
        BY <3>1, <3>2
    <2> QED
      BY <2>1, <2>2
  <1>4. ReaderTyped' /\ reader'[r] = y /\ \A q \in Readers \ {r} : reader'[q] = reader[q]
    BY <1>3 DEF Typed, ReaderTyped
  <1>5. Typed'
    BY <1>1, <1>2, <1>4
       DEF Typed, TurnTyped, RowTyped, TaskTyped, HubTyped, WireTyped, HostTyped, turnVars, hubVars, hostVars
  <1> QED
    BY <1>1, <1>3, <1>4, <1>5

LEMMA TypedStep == Typed /\ [Next]_vars => Typed'
  <1> SUFFICES ASSUME Typed, [Next]_vars PROVE Typed'
    OBVIOUS
  <1>1. CASE UNCHANGED vars
    BY <1>1 DEF vars, Typed, TurnTyped, RowTyped, TaskTyped, HubTyped, WireTyped, HostTyped, ReaderTyped, FaultTyped
  <1>2. ASSUME NEW t \in Turns, ScheduleTurn(t) \/ Request(t) \/ StubFrame(t) \/ StubEnds(t) PROVE Typed'
    BY <1>2, ScheduleIs, SentIs, SendFailsIs, CommitIs, StubFrameIs, StubEndsIs DEF Request
  <1>3. ASSUME NEW s \in Sockets, Socket(s) \/ AuthFails(s) \/ LoseSocket(s) PROVE Typed'
    BY <1>3, HubMoves, LoopBreaksIs, IngestIs, FinishIs DEF Socket
  <1>4. CASE Host \/ PiExits
    BY <1>4, HostConnectsIs, HostClosesIs, ChatRequestIs, PiSaysIs, PiEndsIs, PiExitsIs DEF Host
  <1>5. ASSUME NEW r \in Readers, Stream(r) \/ StreamLeft(r) \/ Subscribe(r) PROVE Typed'
    BY <1>5, SubscribeIs, StreamFrameIs, StreamStops DEF Stream
  <1> QED
    BY <1>1, <1>2, <1>3, <1>4, <1>5 DEF Next

-----------------------------------------------------------------------------
(* The hub                                                                 *)

\* A registered socket has authenticated and its loop has not finished; the
\* lock is held by a socket that is about to be registered, and only once the
\* registration it replaces is no longer open.
HubInv ==
    /\ conn # NoSocket => ws[conn] \notin {"free", "auth", "gone"}
    /\ lock # NoSocket => ws[lock] = "auth"
    /\ lock # NoSocket /\ conn # NoSocket => ws[conn] # "open"

LEMMA HubStep == Typed /\ HubInv /\ [Next]_vars => HubInv'
  <1> SUFFICES ASSUME Typed, HubInv, [Next]_vars PROVE HubInv'
    OBVIOUS
  <1>0. HubTyped
    BY DEF Typed
  <1>1. CASE UNCHANGED hubVars
    BY <1>1 DEF HubInv, hubVars
  <1>2. ASSUME NEW t \in Turns, ScheduleTurn(t) \/ Request(t) \/ StubFrame(t) \/ StubEnds(t) PROVE HubInv'
    <2>1. CASE ChatSendFails(t)
      <3>1. (conn' = NoSocket \/ conn' = conn) /\ lock' = lock /\ ws' = ws
        BY <2>1, SendFailsIs
      <3> QED
        BY <3>1 DEF HubInv
    <2> QED
      BY <1>1, <1>2, <2>1, ScheduleIs, SentIs, CommitIs, StubFrameIs, StubEndsIs DEF Request
  <1>3. ASSUME NEW s \in Sockets, Socket(s) \/ AuthFails(s) \/ LoseSocket(s) PROVE HubInv'
    <2>1. CASE Register(s)
      BY <2>1, <1>0 DEF Register, HubInv, HubTyped, SocketStates
    <2>2. CASE RegisterDone(s)
      BY <2>2, <1>0, ComposerConstants DEF RegisterDone, HubInv, HubTyped
    <2>3. CASE AuthFails(s) \/ LoseSocket(s)
      BY <2>3, <1>0 DEF AuthFails, LoseSocket, HubInv, HubTyped
    <2>4. CASE LoopEnds(s) \/ LoopBreaks(s)
      BY <2>4, <1>0 DEF LoopEnds, LoopBreaks, unregister, HubInv, HubTyped
    <2>5. CASE IngestFrame(s) \/ FinishFrame(s)
      BY <2>5, IngestIs, FinishIs DEF HubInv
    <2> QED
      BY <1>3, <2>1, <2>2, <2>3, <2>4, <2>5 DEF Socket
  <1>4. CASE Host \/ PiExits
    <2>1. CASE HostConnects
      BY <2>1, <1>0, HostConnectsIs DEF HubInv, HubTyped
    <2> QED
      BY <1>1, <1>4, <2>1, HostClosesIs, ChatRequestIs, PiSaysIs, PiEndsIs, PiExitsIs DEF Host
  <1>5. ASSUME NEW r \in Readers, Stream(r) \/ StreamLeft(r) \/ Subscribe(r) PROVE HubInv'
    BY <1>1, <1>5, SubscribeIs, StreamFrameIs, StreamStops DEF Stream
  <1> QED
    BY <1>1, <1>2, <1>3, <1>4, <1>5 DEF Next, vars, hubVars

LEMMA TypedAlways == Spec => [](Typed /\ HubInv)
  <1>1. Init => Typed /\ HubInv
    BY InitTyped DEF Init, HubInv
  <1> QED
    BY <1>1, TypedStep, HubStep, PTL DEF Spec

\* TunnelHub: whatever connects, times out or is closed in whatever order, a socket
\* loses its registration only when it is no longer open or a send on it has failed.
\* unregister removes the caller's own registration and nothing else, and register
\* replaces one only after its socket was closed, under the lock.
THEOREM RegistrationAlwaysKept == Spec => RegistrationKept
  <1> DEFINE Kept == \A s \in Sockets : conn = s /\ conn' # s => ws[s] # "open" \/ SendFailedOn(s)
  <1>1. Typed /\ HubInv /\ [Next]_vars => [Kept]_vars
    <2> SUFFICES ASSUME Typed, HubInv, Next, NEW s \in Sockets, conn = s, conn' # s
                 PROVE  ws[s] # "open" \/ SendFailedOn(s)
      OBVIOUS
    <2>0. conn # NoSocket
      BY ComposerConstants
    <2>1. ASSUME NEW t \in Turns, ScheduleTurn(t) \/ Request(t) \/ StubFrame(t) \/ StubEnds(t)
          PROVE  SendFailedOn(s)
      <3>1. CASE ChatSendFails(t)
        BY <3>1, SendFailsIs DEF SendFailedOn
      <3> QED
        BY <2>1, <3>1, ScheduleIs, SentIs, CommitIs, StubFrameIs, StubEndsIs DEF Request, hubVars
    <2>2. ASSUME NEW q \in Sockets, Socket(q) \/ AuthFails(q) \/ LoseSocket(q)
          PROVE  ws[s] # "open"
      <3>1. CASE Register(q)
        BY <3>1, <2>0 DEF Register
      <3>2. CASE RegisterDone(q)
        BY <3>2, <2>0, ComposerConstants DEF RegisterDone, HubInv
      <3>3. CASE LoopEnds(q)
        BY <3>3 DEF LoopEnds, unregister
      <3>4. CASE AuthFails(q) \/ LoseSocket(q)
        BY <3>4 DEF AuthFails, LoseSocket
      <3> QED
        BY <2>2, <3>1, <3>2, <3>3, <3>4, LoopBreaksIs, IngestIs, FinishIs DEF Socket
    <2>3. CASE Host \/ PiExits
      BY <2>3, HostConnectsIs, HostClosesIs, ChatRequestIs, PiSaysIs, PiEndsIs, PiExitsIs DEF Host, hubVars
    <2>4. ASSUME NEW r \in Readers, Stream(r) \/ StreamLeft(r) \/ Subscribe(r) PROVE FALSE
      BY <2>4, SubscribeIs, StreamFrameIs, StreamStops DEF Stream, hubVars
    <2> QED
      BY <2>1, <2>2, <2>3, <2>4 DEF Next
  <1> QED
    BY <1>1, TypedAlways, PTL DEF Spec, RegistrationKept

-----------------------------------------------------------------------------
(* One end from each producer                                              *)

\* Where the right of the host to end a turn is: with the request that has not
\* sent it yet, on the wire to the host, with the bridge, on the wire back, or
\* used up in the history.
Early(t) == turn[t].req \in {"idle", "sending"}
Sent(t) == \E s \in Sockets : \E i \in DOMAIN out[s] : out[s][i] = t
Asked(t) == host.active = t
Ending(t) == \E s \in Sockets : \E i \in DOMAIN in[s] : in[s][i].turn = t /\ IsTerminal(in[s][i].frame)
HostEnded(t) == \E i \in DOMAIN turn[t].history : IsTerminal(turn[t].history[i]) /\ turn[t].history[i].of # Stub
StubEnded(t) == \E i \in DOMAIN turn[t].history : IsTerminal(turn[t].history[i]) /\ turn[t].history[i].of = Stub

\* It is in one of these places at most, and there only once.
TicketsApart ==
    \A t \in Turns :
        /\ Early(t) => ~Sent(t) /\ ~Asked(t) /\ ~Ending(t) /\ ~HostEnded(t)
        /\ Sent(t) => ~Asked(t) /\ ~Ending(t) /\ ~HostEnded(t)
        /\ Asked(t) => ~Ending(t) /\ ~HostEnded(t)
        /\ Ending(t) => ~HostEnded(t)
SentOnce ==
    \A s, q \in Sockets : \A i \in DOMAIN out[s], j \in DOMAIN out[q] :
        out[s][i] = out[q][j] => s = q /\ i = j
EndingOnce ==
    \A s, q \in Sockets : \A i \in DOMAIN in[s], j \in DOMAIN in[q] :
        /\ IsTerminal(in[s][i].frame) /\ IsTerminal(in[q][j].frame) /\ in[s][i].turn = in[q][j].turn
        => s = q /\ i = j
HostMessages == \A s \in Sockets : \A i \in DOMAIN in[s] : in[s][i].frame.of \in Turns

\* The stub is started once, by the request, and has not ended a turn it works on.
StubTickets ==
    \A t \in Turns :
        /\ turn[t].status = "absent" => turn[t].req = "idle"
        /\ Early(t) => task[t] = "off" /\ ~StubEnded(t)
        /\ task[t] = "run" => ~StubEnded(t)

ProducerInv ==
    /\ TicketsApart /\ SentOnce /\ EndingOnce /\ HostMessages
    /\ StubTickets /\ OneEndPerProducer

LEMMA TailAt ==
    ASSUME NEW S, NEW q \in Seq(S), q # <<>>
    PROVE  /\ 1 \in DOMAIN q /\ Head(q) = q[1]
           /\ \A i \in DOMAIN Tail(q) : i \in Nat \ {0} /\ i + 1 \in DOMAIN q /\ Tail(q)[i] = q[i + 1]
           /\ \A i \in DOMAIN q : i = 1 \/ (i - 1 \in DOMAIN Tail(q) /\ Tail(q)[i - 1] = q[i])
  OBVIOUS

LEMMA AppendAt ==
    ASSUME NEW S, NEW q \in Seq(S), NEW e
    PROVE  /\ \A i \in DOMAIN q : i \in DOMAIN Append(q, e) /\ Append(q, e)[i] = q[i] /\ i # Len(q) + 1
           /\ Len(q) + 1 \in DOMAIN Append(q, e) /\ Append(q, e)[Len(q) + 1] = e
           /\ \A i \in DOMAIN Append(q, e) : i \in DOMAIN q \/ i = Len(q) + 1
  OBVIOUS

\* On the wire to the host.
LEMMA SentAppended ==
    ASSUME WireTyped, SentOnce, NEW t \in Turns, ~Sent(t),
           out' = out \/ \E s \in Sockets : out' = [out EXCEPT ![s] = Append(@, t)]
    PROVE  SentOnce' /\ \A u \in Turns : Sent(u)' => Sent(u) \/ u = t
  <1>1. CASE out' = out
    BY <1>1 DEF SentOnce, Sent
  <1>2. ASSUME NEW s \in Sockets, out' = [out EXCEPT ![s] = Append(@, t)]
        PROVE  SentOnce' /\ \A u \in Turns : Sent(u)' => Sent(u) \/ u = t
    <2> DEFINE n == Len(out[s]) + 1
    <2>1. out[s] \in Seq(Turns) /\ out'[s] = Append(out[s], t) /\ \A q \in Sockets \ {s} : out'[q] = out[q]
      BY <1>2 DEF WireTyped
    <2>2. /\ \A i \in DOMAIN out[s] : out'[s][i] = out[s][i]
          /\ out'[s][n] = t
          /\ \A i \in DOMAIN out'[s] : i \in DOMAIN out[s] \/ i = n
      BY <2>1, AppendAt
    <2> HIDE DEF n
    <2>3. \A q \in Sockets : \A i \in DOMAIN out'[q] :
             \/ i \in DOMAIN out[q] /\ out'[q][i] = out[q][i]
             \/ q = s /\ i = n /\ out'[q][i] = t
      BY <2>1, <2>2
    <2>4. \A q \in Sockets : \A i \in DOMAIN out[q] : out[q][i] # t
      BY DEF Sent
    <2> QED
      BY <2>3, <2>4 DEF SentOnce, Sent
  <1> QED
    BY <1>1, <1>2

LEMMA SentTaken ==
    ASSUME WireTyped, SentOnce, NEW s \in Sockets, out[s] # <<>>, NEW t, t = Head(out[s]),
           out' = [out EXCEPT ![s] = Tail(@)]
    PROVE  SentOnce' /\ Sent(t) /\ \A u \in Turns : Sent(u)' => Sent(u) /\ u # t
  <1>1. out[s] \in Seq(Turns) /\ out'[s] = Tail(out[s]) /\ \A q \in Sockets \ {s} : out'[q] = out[q]
    BY DEF WireTyped
  <1>2. 1 \in DOMAIN out[s] /\ out[s][1] = t
    BY <1>1, TailAt
  <1>3. \A i \in DOMAIN out'[s] : i \in Nat \ {0} /\ i + 1 \in DOMAIN out[s] /\ out'[s][i] = out[s][i + 1]
    <2> DEFINE o == out[s]
    <2>1. \A i \in DOMAIN Tail(o) : i \in Nat \ {0} /\ i + 1 \in DOMAIN o /\ Tail(o)[i] = o[i + 1]
      BY <1>1, TailAt
    <2> QED
      BY <1>1, <2>1
  <1>4. \A q \in Sockets : \A i \in DOMAIN out'[q] :
           \E k \in DOMAIN out[q] : out'[q][i] = out[q][k] /\ ~(q = s /\ k = 1)
    <2> SUFFICES ASSUME NEW q \in Sockets, NEW i \in DOMAIN out'[q]
                 PROVE  \E k \in DOMAIN out[q] : out'[q][i] = out[q][k] /\ ~(q = s /\ k = 1)
      OBVIOUS
    <2>1. CASE q = s
      <3>1. i + 1 \in DOMAIN out[q] /\ out'[q][i] = out[q][i + 1] /\ i + 1 # 1
        BY <2>1, <1>3
      <3> QED BY <3>1
    <2>2. CASE q # s
      BY <2>2, <1>1
    <2> QED
      BY <2>1, <2>2
  <1>5. SentOnce'
    <2> SUFFICES ASSUME NEW p \in Sockets, NEW q \in Sockets, NEW i \in DOMAIN out'[p], NEW j \in DOMAIN out'[q],
                        out'[p][i] = out'[q][j]
                 PROVE  p = q /\ i = j
      BY DEF SentOnce
    <2>1. CASE p # s /\ q # s
      BY <2>1, <1>1 DEF SentOnce
    <2>2. CASE p = s /\ q # s
      <3>1. i + 1 \in DOMAIN out[s] /\ out[s][i + 1] = out[q][j] /\ j \in DOMAIN out[q]
        BY <2>2, <1>1, <1>3
      <3> QED BY <3>1, <2>2 DEF SentOnce
    <2>3. CASE p # s /\ q = s
      <3>1. j + 1 \in DOMAIN out[s] /\ out[s][j + 1] = out[p][i] /\ i \in DOMAIN out[p]
        BY <2>3, <1>1, <1>3
      <3> QED BY <3>1, <2>3 DEF SentOnce
    <2>4. CASE p = s /\ q = s
      <3>1. /\ i + 1 \in DOMAIN out[s] /\ j + 1 \in DOMAIN out[s] /\ out[s][i + 1] = out[s][j + 1]
            /\ i \in Nat /\ j \in Nat
        BY <2>4, <1>3
      <3>2. i + 1 = j + 1
        BY <3>1 DEF SentOnce
      <3> QED BY <3>1, <3>2, <2>4
    <2> QED BY <2>1, <2>2, <2>3, <2>4
  <1>6. ASSUME NEW u \in Turns, Sent(u)' PROVE Sent(u) /\ u # t
    <2>1. PICK q \in Sockets : \E i \in DOMAIN out'[q] : out'[q][i] = u
      BY <1>6 DEF Sent
    <2>2. PICK k \in DOMAIN out[q] : out[q][k] = u /\ ~(q = s /\ k = 1)
      BY <2>1, <1>4
    <2> QED
      BY <2>2, <1>2 DEF Sent, SentOnce
  <1> QED
    BY <1>2, <1>5, <1>6 DEF Sent

LEMMA SentDropped ==
    ASSUME WireTyped, SentOnce, NEW s \in Sockets, out' = [out EXCEPT ![s] = <<>>]
    PROVE  SentOnce' /\ \A u \in Turns : Sent(u)' => Sent(u)
  <1>1. \A q \in Sockets : \A i \in DOMAIN out'[q] : i \in DOMAIN out[q] /\ out'[q][i] = out[q][i]
    BY DEF WireTyped
  <1> QED
    BY <1>1 DEF SentOnce, Sent

\* On the wire back.
LEMMA EndingAppended ==
    ASSUME WireTyped, EndingOnce, HostMessages, NEW t \in Turns, NEW kinds, HostFrame(t, kinds),
           Ending(t) => kinds \cap Terminal = {}
    PROVE  /\ EndingOnce' /\ HostMessages'
           /\ \A u \in Turns : Ending(u)' => Ending(u) \/ (u = t /\ kinds \cap Terminal # {})
  <1>1. CASE in' = in
    BY <1>1 DEF EndingOnce, HostMessages, Ending
  <1>2. ASSUME NEW s \in Sockets, NEW f \in Frame, f.type \in kinds, f.of \in Turns,
               in' = [in EXCEPT ![s] = Append(@, [turn |-> t, frame |-> f])]
        PROVE  /\ EndingOnce' /\ HostMessages'
               /\ \A u \in Turns : Ending(u)' => Ending(u) \/ (u = t /\ kinds \cap Terminal # {})
    <2> DEFINE n == Len(in[s]) + 1
               m == [turn |-> t, frame |-> f]
    <2>0. m.turn = t /\ m.frame = f
      OBVIOUS
    <2> HIDE DEF m
    <2>1. in[s] \in Seq(Messages) /\ in'[s] = Append(in[s], m) /\ \A q \in Sockets \ {s} : in'[q] = in[q]
      BY <1>2 DEF WireTyped, m
    <2>2. /\ \A i \in DOMAIN in[s] : in'[s][i] = in[s][i]
          /\ in'[s][n] = m
          /\ \A i \in DOMAIN in'[s] : i \in DOMAIN in[s] \/ i = n
      BY <2>1, AppendAt
    <2> HIDE DEF n
    <2>3. \A q \in Sockets : \A i \in DOMAIN in'[q] :
             \/ i \in DOMAIN in[q] /\ in'[q][i] = in[q][i]
             \/ q = s /\ i = n /\ in'[q][i].turn = t /\ in'[q][i].frame = f
      BY <2>0, <2>1, <2>2
    <2>4. HostMessages'
      BY <1>2, <2>3 DEF HostMessages
    <2>5. \A u \in Turns : Ending(u)' => Ending(u) \/ (u = t /\ IsTerminal(f))
      BY <2>3 DEF Ending
    <2>6. IsTerminal(f) => kinds \cap Terminal # {}
      BY <1>2 DEF IsTerminal
    <2>7. IsTerminal(f) => \A q \in Sockets : \A i \in DOMAIN in[q] : ~(in[q][i].turn = t /\ IsTerminal(in[q][i].frame))
      BY <2>6 DEF Ending
    <2>8. EndingOnce'
      BY <2>3, <2>7 DEF EndingOnce
    <2> QED
      BY <2>4, <2>5, <2>6, <2>8
  <1> QED
    BY <1>1, <1>2 DEF HostFrame

LEMMA EndingTaken ==
    ASSUME WireTyped, EndingOnce, HostMessages, NEW s \in Sockets, in[s] # <<>>, NEW m, m = Head(in[s]),
           m.turn \in Turns, in' = [in EXCEPT ![s] = Tail(@)]
    PROVE  /\ EndingOnce' /\ HostMessages' /\ m.frame.of \in Turns
           /\ IsTerminal(m.frame) => Ending(m.turn)
           /\ \A u \in Turns : Ending(u)' => Ending(u) /\ ~(u = m.turn /\ IsTerminal(m.frame))
  <1>1. in[s] \in Seq(Messages) /\ in'[s] = Tail(in[s]) /\ \A q \in Sockets \ {s} : in'[q] = in[q]
    BY DEF WireTyped
  <1>2. 1 \in DOMAIN in[s] /\ in[s][1] = m
    BY <1>1, TailAt
  <1>3. \A i \in DOMAIN in'[s] : i \in Nat \ {0} /\ i + 1 \in DOMAIN in[s] /\ in'[s][i] = in[s][i + 1]
    <2> DEFINE o == in[s]
    <2>1. \A i \in DOMAIN Tail(o) : i \in Nat \ {0} /\ i + 1 \in DOMAIN o /\ Tail(o)[i] = o[i + 1]
      BY <1>1, TailAt
    <2> QED
      BY <1>1, <2>1
  <1>4. \A q \in Sockets : \A i \in DOMAIN in'[q] :
           \E k \in DOMAIN in[q] : in'[q][i] = in[q][k] /\ ~(q = s /\ k = 1)
    <2> SUFFICES ASSUME NEW q \in Sockets, NEW i \in DOMAIN in'[q]
                 PROVE  \E k \in DOMAIN in[q] : in'[q][i] = in[q][k] /\ ~(q = s /\ k = 1)
      OBVIOUS
    <2>1. CASE q = s
      <3>1. i + 1 \in DOMAIN in[q] /\ in'[q][i] = in[q][i + 1] /\ i + 1 # 1
        BY <2>1, <1>3
      <3> QED BY <3>1
    <2>2. CASE q # s
      BY <2>2, <1>1
    <2> QED
      BY <2>1, <2>2
  <1>5. EndingOnce'
    <2> SUFFICES ASSUME NEW p \in Sockets, NEW q \in Sockets, NEW i \in DOMAIN in'[p], NEW j \in DOMAIN in'[q],
                        IsTerminal(in'[p][i].frame), IsTerminal(in'[q][j].frame), in'[p][i].turn = in'[q][j].turn
                 PROVE  p = q /\ i = j
      BY DEF EndingOnce, IsTerminal
    <2>1. CASE p # s /\ q # s
      BY <2>1, <1>1 DEF EndingOnce
    <2>2. CASE p = s /\ q # s
      <3>1. i + 1 \in DOMAIN in[s] /\ in'[p][i] = in[s][i + 1] /\ in'[q][j] = in[q][j] /\ j \in DOMAIN in[q]
        BY <2>2, <1>1, <1>3
      <3> QED BY <3>1, <2>2 DEF EndingOnce
    <2>3. CASE p # s /\ q = s
      <3>1. j + 1 \in DOMAIN in[s] /\ in'[q][j] = in[s][j + 1] /\ in'[p][i] = in[p][i] /\ i \in DOMAIN in[p]
        BY <2>3, <1>1, <1>3
      <3> QED BY <3>1, <2>3 DEF EndingOnce
    <2>4. CASE p = s /\ q = s
      <3>1. /\ i + 1 \in DOMAIN in[s] /\ j + 1 \in DOMAIN in[s] /\ i \in Nat /\ j \in Nat
            /\ in'[p][i] = in[s][i + 1] /\ in'[q][j] = in[s][j + 1]
        BY <2>4, <1>3
      <3>2. i + 1 = j + 1
        BY <3>1 DEF EndingOnce
      <3> QED BY <3>1, <3>2, <2>4
    <2> QED BY <2>1, <2>2, <2>3, <2>4
  <1>6. HostMessages' /\ m.frame.of \in Turns
    BY <1>2, <1>4 DEF HostMessages
  <1>7. ASSUME NEW u \in Turns, Ending(u)' PROVE Ending(u) /\ ~(u = m.turn /\ IsTerminal(m.frame))
    <2>1. PICK q \in Sockets : \E i \in DOMAIN in'[q] : in'[q][i].turn = u /\ IsTerminal(in'[q][i].frame)
      BY <1>7 DEF Ending
    <2>2. PICK k \in DOMAIN in[q] : in[q][k].turn = u /\ IsTerminal(in[q][k].frame) /\ ~(q = s /\ k = 1)
      BY <2>1, <1>4
    <2> QED
      BY <2>2, <1>2 DEF Ending, EndingOnce
  <1> QED
    BY <1>2, <1>5, <1>6, <1>7 DEF Ending

LEMMA EndingDropped ==
    ASSUME WireTyped, EndingOnce, HostMessages, NEW s \in Sockets, in' = [in EXCEPT ![s] = <<>>]
    PROVE  EndingOnce' /\ HostMessages' /\ \A u \in Turns : Ending(u)' => Ending(u)
  <1>1. \A q \in Sockets : \A i \in DOMAIN in'[q] : i \in DOMAIN in[q] /\ in'[q][i] = in[q][i]
    BY DEF WireTyped
  <1> QED
    BY <1>1 DEF EndingOnce, HostMessages, Ending

\* In the history.
LEMMA EndRecorded ==
    ASSUME TurnTyped, OneEndPerProducer, NEW t \in Turns, NEW f \in Frame, Emit(t, f),
           IsTerminal(f) => IF f.of = Stub THEN ~StubEnded(t) ELSE ~HostEnded(t)
    PROVE  /\ OneEndPerProducer'
           /\ \A u \in Turns : StubEnded(u)' => StubEnded(u) \/ (u = t /\ IsTerminal(f) /\ f.of = Stub)
           /\ \A u \in Turns : HostEnded(u)' => HostEnded(u) \/ (u = t /\ IsTerminal(f) /\ f.of # Stub)
  <1> DEFINE h == turn[t].history
             n == Len(h) + 1
  <1>1. h \in Seq(Frame) /\ turn'[t].history = Append(h, f) /\ \A u \in Turns \ {t} : turn'[u] = turn[u]
    BY EmitIs DEF TurnTyped, TurnRecords
  <1>2. /\ \A i \in DOMAIN h : turn'[t].history[i] = h[i]
        /\ turn'[t].history[n] = f
        /\ \A i \in DOMAIN turn'[t].history : i \in DOMAIN h \/ i = n
    BY <1>1, AppendAt
  <1> HIDE DEF n
  <1>3. \A u \in Turns : \A i \in DOMAIN turn'[u].history :
           \/ i \in DOMAIN turn[u].history /\ turn'[u].history[i] = turn[u].history[i]
           \/ u = t /\ i = n /\ turn'[u].history[i] = f
    BY <1>1, <1>2
  <1>4. \A u \in Turns : \A i, j \in DOMAIN turn[u].history :
           IsTerminal(turn[u].history[i]) /\ IsTerminal(turn[u].history[j]) /\ i # j
           => (turn[u].history[i].of = Stub) # (turn[u].history[j].of = Stub)
    <2> SUFFICES ASSUME NEW u \in Turns, NEW i \in DOMAIN turn[u].history, NEW j \in DOMAIN turn[u].history,
                        IsTerminal(turn[u].history[i]), IsTerminal(turn[u].history[j]), i # j
                 PROVE  (turn[u].history[i].of = Stub) # (turn[u].history[j].of = Stub)
      OBVIOUS
    <2>1. turn[u].history[i] \in Frame /\ turn[u].history[j] \in Frame
      BY DEF TurnTyped, TurnRecords
    <2>2. i \in Ends(u, Turns) \cup Ends(u, {Stub}) /\ j \in Ends(u, Turns) \cup Ends(u, {Stub})
      BY <2>1 DEF Ends, Frame
    <2> QED
      BY <2>2 DEF OneEndPerProducer
  <1>5. IsTerminal(f) => \A i \in DOMAIN h : IsTerminal(h[i]) => (h[i].of = Stub) # (f.of = Stub)
    BY DEF StubEnded, HostEnded
  <1>6. \A u \in Turns : \A i, j \in DOMAIN turn'[u].history :
           IsTerminal(turn'[u].history[i]) /\ IsTerminal(turn'[u].history[j]) /\ i # j
           => (turn'[u].history[i].of = Stub) # (turn'[u].history[j].of = Stub)
    BY <1>3, <1>4, <1>5
  <1>7. OneEndPerProducer'
    BY <1>6 DEF OneEndPerProducer, Ends
  <1> QED
    BY <1>3, <1>7 DEF StubEnded, HostEnded

\* Steps that move no right to end a turn: the hub, the streams, finalisation.
QuietStep ==
    /\ out' = out /\ in' = in /\ host'.active = host.active
    /\ \A t \in Turns :
          /\ turn'[t].history = turn[t].history /\ turn'[t].req = turn[t].req /\ turn'[t].status = turn[t].status
          /\ task'[t] \in {task[t], "off"}

\* With the histories unchanged, what was recorded is what is recorded.
LEMMA SameHistory ==
    ASSUME \A t \in Turns : turn'[t].history = turn[t].history
    PROVE  /\ \A t \in Turns : (HostEnded(t)' <=> HostEnded(t)) /\ (StubEnded(t)' <=> StubEnded(t))
           /\ OneEndPerProducer => OneEndPerProducer'
  BY DEF HostEnded, StubEnded, OneEndPerProducer, Ends

LEMMA QuietKeeps == ProducerInv /\ QuietStep => ProducerInv'
  <1> SUFFICES ASSUME ProducerInv, QuietStep PROVE ProducerInv'
    OBVIOUS
  <1>1. /\ \A t \in Turns : (HostEnded(t)' <=> HostEnded(t)) /\ (StubEnded(t)' <=> StubEnded(t))
        /\ OneEndPerProducer'
    BY SameHistory DEF QuietStep, ProducerInv
  <1>2. \A t \in Turns : /\ Early(t)' <=> Early(t)
                         /\ Sent(t)' <=> Sent(t)
                         /\ Asked(t)' <=> Asked(t)
                         /\ Ending(t)' <=> Ending(t)
    BY DEF QuietStep, Early, Sent, Asked, Ending
  <1>3. TicketsApart' /\ StubTickets'
    BY <1>1, <1>2 DEF ProducerInv, TicketsApart, StubTickets, QuietStep
  <1>4. SentOnce' /\ EndingOnce' /\ HostMessages'
    BY DEF ProducerInv, SentOnce, EndingOnce, HostMessages, QuietStep
  <1> QED
    BY <1>1, <1>3, <1>4 DEF ProducerInv

LEMMA ProducerTurnStep ==
    ASSUME Typed, ProducerInv, NEW t \in Turns,
           ScheduleTurn(t) \/ Request(t) \/ StubFrame(t) \/ StubEnds(t)
    PROVE  ProducerInv'
  <1>0. /\ TicketsApart /\ SentOnce /\ EndingOnce /\ HostMessages /\ StubTickets /\ OneEndPerProducer
        /\ TurnTyped /\ WireTyped /\ task \in [Turns -> {"off", "run", "completed", "failed"}]
    BY DEF ProducerInv, Typed, TaskTyped
  <1>1. CASE ScheduleTurn(t)
    <2>1. /\ turn[t].status = "absent" /\ turn'[t].status = "responding" /\ turn'[t].req \in {"sending", "returned"}
          /\ turn'[t].history = turn[t].history
          /\ \A u \in Turns \ {t} : turn'[u] = turn[u] /\ task'[u] = task[u]
          /\ task'[t] = IF turn'[t].req = "sending" THEN task[t] ELSE "run"
          /\ UNCHANGED <<out, in, hostVars>>
      BY <1>1, ScheduleIs
    <2>2. /\ \A u \in Turns : (HostEnded(u)' <=> HostEnded(u)) /\ (StubEnded(u)' <=> StubEnded(u))
          /\ OneEndPerProducer'
      BY <1>0, <2>1, SameHistory
    <2>3. Early(t) /\ task[t] = "off" /\ ~StubEnded(t)
      BY <1>0, <2>1 DEF StubTickets, Early
    <2>4. \A u \in Turns : /\ Early(u)' => Early(u)
                           /\ Sent(u)' <=> Sent(u)
                           /\ Asked(u)' <=> Asked(u)
                           /\ Ending(u)' <=> Ending(u)
      BY <2>1, <2>3 DEF Early, Sent, Asked, Ending, hostVars
    <2>5. TicketsApart'
      BY <1>0, <2>2, <2>4 DEF TicketsApart
    <2>6. StubTickets'
      BY <1>0, <2>1, <2>2, <2>3 DEF StubTickets, Early
    <2>7. SentOnce' /\ EndingOnce' /\ HostMessages'
      BY <1>0, <2>1 DEF SentOnce, EndingOnce, HostMessages
    <2> QED
      BY <2>2, <2>5, <2>6, <2>7 DEF ProducerInv
  <1>2. CASE ChatSent(t) \/ ChatSendFails(t)
    <2>1. /\ turn[t].req = "sending" /\ turn'[t].req = "returned" /\ turn'[t].status = turn[t].status
          /\ turn'[t].history = turn[t].history
          /\ \A u \in Turns \ {t} : turn'[u] = turn[u] /\ task'[u] = task[u]
          /\ task'[t] \in {task[t], "run"}
          /\ out' = out \/ \E s \in Sockets : out' = [out EXCEPT ![s] = Append(@, t)]
          /\ UNCHANGED <<in, hostVars>>
      <3>1. CASE ChatSent(t)
        BY <3>1, SentIs
      <3>2. CASE ChatSendFails(t)
        BY <3>2, <1>0, SendFailsIs
      <3> QED BY <1>2, <3>1, <3>2
    <2>2. /\ \A u \in Turns : (HostEnded(u)' <=> HostEnded(u)) /\ (StubEnded(u)' <=> StubEnded(u))
          /\ OneEndPerProducer'
      BY <1>0, <2>1, SameHistory
    <2>3. /\ Early(t) /\ task[t] = "off" /\ ~StubEnded(t) /\ turn[t].status # "absent"
          /\ ~Sent(t) /\ ~Asked(t) /\ ~Ending(t) /\ ~HostEnded(t)
      BY <1>0, <2>1 DEF StubTickets, TicketsApart, Early
    <2>4. SentOnce' /\ \A u \in Turns : Sent(u)' => Sent(u) \/ u = t
      BY <1>0, <2>1, <2>3, SentAppended
    <2>5. \A u \in Turns : /\ Early(u)' => Early(u) /\ u # t
                           /\ Asked(u)' <=> Asked(u)
                           /\ Ending(u)' <=> Ending(u)
      BY <2>1 DEF Early, Asked, Ending, hostVars
    <2>6. TicketsApart'
      BY <1>0, <2>2, <2>3, <2>4, <2>5 DEF TicketsApart
    <2>7. StubTickets'
      BY <1>0, <2>1, <2>2, <2>3 DEF StubTickets, Early
    <2>8. EndingOnce' /\ HostMessages'
      BY <1>0, <2>1 DEF EndingOnce, HostMessages
    <2> QED
      BY <2>2, <2>4, <2>6, <2>7, <2>8 DEF ProducerInv
  <1>3. CASE Commit(t)
    <2>1. /\ turn[t].req = "returned" /\ turn'[t].req = "over" /\ turn'[t].status = turn[t].status
          /\ turn'[t].history = turn[t].history /\ \A u \in Turns \ {t} : turn'[u] = turn[u]
          /\ UNCHANGED <<task, out, in, hostVars>>
      BY <1>3, CommitIs
    <2>2. /\ \A u \in Turns : (HostEnded(u)' <=> HostEnded(u)) /\ (StubEnded(u)' <=> StubEnded(u))
          /\ OneEndPerProducer'
      BY <1>0, <2>1, SameHistory
    <2>3. \A u \in Turns : /\ Early(u)' => Early(u)
                           /\ Sent(u)' <=> Sent(u)
                           /\ Asked(u)' <=> Asked(u)
                           /\ Ending(u)' <=> Ending(u)
      BY <2>1 DEF Early, Sent, Asked, Ending, hostVars
    <2>4. TicketsApart'
      BY <1>0, <2>2, <2>3 DEF TicketsApart
    <2>5. StubTickets'
      BY <1>0, <2>1, <2>2 DEF StubTickets, Early
    <2>6. SentOnce' /\ EndingOnce' /\ HostMessages'
      BY <1>0, <2>1 DEF SentOnce, EndingOnce, HostMessages
    <2> QED
      BY <2>2, <2>4, <2>5, <2>6 DEF ProducerInv
  <1>4. CASE StubFrame(t)
    <2>1. /\ task[t] = "run" /\ UNCHANGED <<out, in, hostVars>>
          /\ \E f \in Frame : /\ f.of = Stub /\ Emit(t, f)
                              /\ task' = [task EXCEPT ![t] = IF IsTerminal(f) THEN StatusAfter(f) ELSE "run"]
      BY <1>4, StubFrameIs
    <2>2. PICK f \in Frame : /\ f.of = Stub /\ Emit(t, f)
                             /\ task' = [task EXCEPT ![t] = IF IsTerminal(f) THEN StatusAfter(f) ELSE "run"]
      BY <2>1
    <2>3. ~StubEnded(t) /\ ~Early(t)
      BY <1>0, <2>1 DEF StubTickets
    <2>4. /\ OneEndPerProducer'
          /\ \A u \in Turns : StubEnded(u)' => StubEnded(u) \/ (u = t /\ IsTerminal(f))
          /\ \A u \in Turns : HostEnded(u)' => HostEnded(u)
      BY <1>0, <2>2, <2>3, EndRecorded
    <2>5. /\ turn'[t].req = turn[t].req
          /\ turn'[t].status = IF IsTerminal(f) THEN StatusAfter(f) ELSE turn[t].status
          /\ \A u \in Turns \ {t} : turn'[u] = turn[u]
      BY <1>0, <2>2, EmitIs
    <2>6. \A u \in Turns : /\ Early(u)' <=> Early(u)
                           /\ Sent(u)' <=> Sent(u)
                           /\ Asked(u)' <=> Asked(u)
                           /\ Ending(u)' <=> Ending(u)
      BY <2>1, <2>5 DEF Early, Sent, Asked, Ending, hostVars
    <2>7. TicketsApart'
      BY <1>0, <2>4, <2>6 DEF TicketsApart
    <2>8. \A u \in Turns \ {t} : task'[u] = task[u]
      BY <1>0, <2>2
    <2>9. task'[t] = "run" => ~IsTerminal(f)
      BY <1>0, <2>2 DEF StatusAfter
    <2>10. turn'[t].status = "absent" => turn[t].status = "absent"
      BY <2>5 DEF StatusAfter
    <2>11. StubTickets'
      BY <1>0, <2>3, <2>4, <2>5, <2>6, <2>8, <2>9, <2>10 DEF StubTickets
    <2>12. SentOnce' /\ EndingOnce' /\ HostMessages'
      BY <1>0, <2>1 DEF SentOnce, EndingOnce, HostMessages
    <2> QED
      BY <2>4, <2>7, <2>11, <2>12 DEF ProducerInv
  <1>5. CASE StubEnds(t)
    <2>1. /\ task[t] \in {"completed", "failed"} /\ Finalise(t, task[t]) /\ task' = [task EXCEPT ![t] = "off"]
          /\ UNCHANGED <<out, in, hostVars>>
      BY <1>5, StubEndsIs
    <2>2. /\ turn'[t].history = turn[t].history /\ turn'[t].status = turn[t].status /\ turn'[t].req = turn[t].req
          /\ \A u \in Turns \ {t} : turn'[u] = turn[u]
      BY <2>1, FinaliseIs DEF Typed
    <2>3. QuietStep
      BY <1>0, <2>1, <2>2 DEF QuietStep, hostVars
    <2> QED
      BY <2>3, QuietKeeps
  <1> QED
    BY <1>1, <1>2, <1>3, <1>4, <1>5 DEF Request

LEMMA ProducerSocketStep ==
    ASSUME Typed, ProducerInv, NEW s \in Sockets, Socket(s) \/ AuthFails(s) \/ LoseSocket(s)
    PROVE  ProducerInv'
  <1>0. /\ TicketsApart /\ SentOnce /\ EndingOnce /\ HostMessages /\ StubTickets /\ OneEndPerProducer
        /\ TurnTyped /\ WireTyped
    BY DEF ProducerInv, Typed
  <1>1. CASE Register(s) \/ RegisterDone(s) \/ AuthFails(s) \/ LoseSocket(s) \/ LoopEnds(s)
    <2>1. UNCHANGED <<turnVars, out, in, hostVars>>
      BY <1>1, HubMoves
    <2> QED
      BY <2>1, QuietKeeps DEF QuietStep, turnVars, hostVars
  <1>2. CASE FinishFrame(s)
    <2>1. PICK t \in Turns, status \in {"completed", "failed"} : Finalise(t, status)
      BY <1>2, FinishIs
    <2>2. /\ turn'[t].history = turn[t].history /\ turn'[t].status = turn[t].status /\ turn'[t].req = turn[t].req
          /\ \A u \in Turns \ {t} : turn'[u] = turn[u]
      BY <2>1, FinaliseIs DEF Typed
    <2>3. UNCHANGED <<task, out, in, hostVars>>
      BY <1>2, FinishIs
    <2> QED
      BY <2>2, <2>3, QuietKeeps DEF QuietStep, hostVars
  <1>3. CASE LoopBreaks(s)
    <2>1. in' = [in EXCEPT ![s] = <<>>] /\ UNCHANGED <<turnVars, out, hostVars>>
      BY <1>3, LoopBreaksIs
    <2>2. EndingOnce' /\ HostMessages' /\ \A u \in Turns : Ending(u)' => Ending(u)
      BY <1>0, <2>1, EndingDropped
    <2>3. \A u \in Turns : (HostEnded(u)' <=> HostEnded(u)) /\ (StubEnded(u)' <=> StubEnded(u))
      BY <2>1, SameHistory DEF turnVars
    <2>4. \A u \in Turns : (Early(u)' <=> Early(u)) /\ (Sent(u)' <=> Sent(u)) /\ (Asked(u)' <=> Asked(u))
      BY <2>1 DEF Early, Sent, Asked, turnVars, hostVars
    <2>5. TicketsApart' /\ StubTickets'
      BY <1>0, <2>1, <2>2, <2>3, <2>4 DEF TicketsApart, StubTickets, turnVars
    <2>6. SentOnce' /\ OneEndPerProducer'
      BY <1>0, <2>1 DEF SentOnce, OneEndPerProducer, Ends, turnVars
    <2> QED
      BY <2>2, <2>5, <2>6 DEF ProducerInv
  <1>4. CASE IngestFrame(s)
    <2> DEFINE m == Head(in[s])
    <2>1. /\ in[s] # <<>> /\ m \in Messages /\ Emit(m.turn, m.frame) /\ in' = [in EXCEPT ![s] = Tail(@)]
          /\ UNCHANGED <<task, out, hostVars>>
      BY <1>4, IngestIs
    <2>2. m.turn \in Turns /\ m.frame \in Frame
      BY <2>1 DEF Messages
    <2>3. /\ EndingOnce' /\ HostMessages' /\ m.frame.of \in Turns
          /\ IsTerminal(m.frame) => Ending(m.turn)
          /\ \A u \in Turns : Ending(u)' => Ending(u) /\ ~(u = m.turn /\ IsTerminal(m.frame))
      BY <1>0, <2>1, <2>2, EndingTaken
    <2> HIDE DEF m
    <2>4. m.frame.of # Stub
      BY <2>3, ComposerConstants
    <2>5. IsTerminal(m.frame) => ~HostEnded(m.turn)
      BY <1>0, <2>2, <2>3 DEF TicketsApart
    <2>6. /\ OneEndPerProducer'
          /\ \A u \in Turns : StubEnded(u)' => StubEnded(u)
          /\ \A u \in Turns : HostEnded(u)' => HostEnded(u) \/ (u = m.turn /\ IsTerminal(m.frame))
      BY <1>0, <2>1, <2>2, <2>4, <2>5, EndRecorded
    <2>7. /\ turn'[m.turn].req = turn[m.turn].req
          /\ turn'[m.turn].status = IF IsTerminal(m.frame) THEN StatusAfter(m.frame) ELSE turn[m.turn].status
          /\ \A u \in Turns \ {m.turn} : turn'[u] = turn[u]
      BY <1>0, <2>1, <2>2, EmitIs
    <2>8. \A u \in Turns : (Early(u)' <=> Early(u)) /\ (Sent(u)' <=> Sent(u)) /\ (Asked(u)' <=> Asked(u))
      BY <2>1, <2>7 DEF Early, Sent, Asked, hostVars
    <2>9. TicketsApart'
      BY <1>0, <2>2, <2>3, <2>6, <2>8 DEF TicketsApart
    <2>10. \A u \in Turns : turn'[u].status = "absent" => turn[u].status = "absent" /\ turn'[u].req = turn[u].req
      BY <2>7 DEF StatusAfter
    <2>11. StubTickets'
      BY <1>0, <2>1, <2>6, <2>8, <2>10 DEF StubTickets
    <2>12. SentOnce'
      BY <1>0, <2>1 DEF SentOnce
    <2> QED
      BY <2>3, <2>6, <2>9, <2>11, <2>12 DEF ProducerInv
  <1> QED
    BY <1>1, <1>2, <1>3, <1>4 DEF Socket

LEMMA ProducerHostStep ==
    ASSUME Typed, ProducerInv, Host \/ PiExits
    PROVE  ProducerInv'
  <1>0. /\ TicketsApart /\ SentOnce /\ EndingOnce /\ HostMessages /\ StubTickets /\ OneEndPerProducer
        /\ TurnTyped /\ WireTyped
    BY DEF ProducerInv, Typed
  <1>1. CASE HostConnects \/ PiExits
    <2>1. UNCHANGED <<turnVars, out, in>> /\ host'.active = host.active
      BY <1>1, HostConnectsIs, PiExitsIs
    <2> QED
      BY <2>1, QuietKeeps DEF QuietStep, turnVars
  <1>2. UNCHANGED turnVars
    BY HostConnectsIs, HostClosesIs, ChatRequestIs, PiSaysIs, PiEndsIs, PiExitsIs DEF Host
  <1>3. /\ \A u \in Turns : HostEnded(u)' <=> HostEnded(u)
        /\ \A u \in Turns : Early(u)' <=> Early(u)
        /\ StubTickets' /\ OneEndPerProducer'
    <2>1. /\ \A u \in Turns : (HostEnded(u)' <=> HostEnded(u)) /\ (StubEnded(u)' <=> StubEnded(u))
          /\ OneEndPerProducer'
      BY <1>0, <1>2, SameHistory DEF turnVars
    <2>2. \A u \in Turns : Early(u)' <=> Early(u)
      BY <1>2 DEF turnVars, Early
    <2> QED
      BY <1>0, <1>2, <2>1, <2>2 DEF StubTickets, turnVars
  <1>4. CASE HostCloses
    <2>1. PICK s \in Sockets : out' = [out EXCEPT ![s] = <<>>]
      BY <1>4, HostClosesIs
    <2>2. in' = in /\ host'.active = host.active
      BY <1>4, HostClosesIs
    <2>3. SentOnce' /\ \A u \in Turns : Sent(u)' => Sent(u)
      BY <1>0, <2>1, SentDropped
    <2>4. \A u \in Turns : (Asked(u)' <=> Asked(u)) /\ (Ending(u)' <=> Ending(u))
      BY <2>2 DEF Asked, Ending
    <2>5. TicketsApart'
      BY <1>0, <1>3, <2>3, <2>4 DEF TicketsApart
    <2>6. EndingOnce' /\ HostMessages'
      BY <1>0, <2>2 DEF EndingOnce, HostMessages
    <2> QED
      BY <1>3, <2>3, <2>5, <2>6 DEF ProducerInv
  <1>5. CASE ChatRequest
    <2>1. PICK s \in Sockets, t \in Turns :
             /\ out[s] # <<>> /\ t = Head(out[s]) /\ out' = [out EXCEPT ![s] = Tail(@)]
             /\ \/ host'.active = t /\ in' = in
                \/ host'.active \in {host.active, NoTurn} /\ HostFrame(t, {"error"})
      BY <1>5, ChatRequestIs
    <2>2. SentOnce' /\ Sent(t) /\ \A u \in Turns : Sent(u)' => Sent(u) /\ u # t
      BY <1>0, <2>1, SentTaken
    <2>3. ~Early(t) /\ ~Asked(t) /\ ~Ending(t) /\ ~HostEnded(t)
      BY <1>0, <2>2 DEF TicketsApart
    <2>4. CASE host'.active = t /\ in' = in
      <3>1. \A u \in Turns : (Asked(u)' => u = t) /\ (Ending(u)' <=> Ending(u))
        BY <2>4 DEF Asked, Ending
      <3>2. TicketsApart'
        BY <1>0, <1>3, <2>2, <2>3, <3>1 DEF TicketsApart
      <3>3. EndingOnce' /\ HostMessages'
        BY <1>0, <2>4 DEF EndingOnce, HostMessages
      <3> QED
        BY <1>3, <2>2, <3>2, <3>3 DEF ProducerInv
    <2>5. CASE host'.active \in {host.active, NoTurn} /\ HostFrame(t, {"error"})
      <3>1. \A u \in Turns : Asked(u)' => Asked(u)
        BY <2>5, ComposerConstants DEF Asked
      <3>2. EndingOnce' /\ HostMessages' /\ \A u \in Turns : Ending(u)' => Ending(u) \/ u = t
        BY <1>0, <2>3, <2>5, EndingAppended
      <3>3. TicketsApart'
        BY <1>0, <1>3, <2>2, <2>3, <3>1, <3>2 DEF TicketsApart
      <3> QED
        BY <1>3, <2>2, <3>2, <3>3 DEF ProducerInv
    <2> QED
      BY <2>1, <2>4, <2>5
  <1>6. CASE PiSays
    <2>1. /\ host'.active = host.active /\ out' = out
          /\ in' = in \/ (host.active \in Turns /\ HostFrame(host.active, {"chunk"}))
      BY <1>6, PiSaysIs
    <2>2. EndingOnce' /\ HostMessages' /\ \A u \in Turns : Ending(u)' => Ending(u)
      <3>1. CASE in' = in
        BY <3>1, <1>0 DEF EndingOnce, HostMessages, Ending
      <3>2. CASE host.active \in Turns /\ HostFrame(host.active, {"chunk"})
        <4>1. {"chunk"} \cap Terminal = {}
          BY DEF Terminal
        <4> QED
          BY <3>2, <4>1, <1>0, EndingAppended
      <3> QED BY <2>1, <3>1, <3>2
    <2>3. \A u \in Turns : (Asked(u)' <=> Asked(u)) /\ (Sent(u)' <=> Sent(u))
      BY <2>1 DEF Asked, Sent
    <2>4. TicketsApart'
      BY <1>0, <1>3, <2>2, <2>3 DEF TicketsApart
    <2>5. SentOnce'
      BY <1>0, <2>1 DEF SentOnce
    <2> QED
      BY <1>3, <2>2, <2>4, <2>5 DEF ProducerInv
  <1>7. CASE PiEnds
    <2>1. /\ host'.active = NoTurn /\ out' = out
          /\ in' = in \/ (host.active \in Turns /\ HostFrame(host.active, Terminal))
      BY <1>7, PiEndsIs
    <2>2. EndingOnce' /\ HostMessages' /\ \A u \in Turns : Ending(u)' => Ending(u) \/ Asked(u)
      <3>1. CASE in' = in
        BY <3>1, <1>0 DEF EndingOnce, HostMessages, Ending
      <3>2. CASE host.active \in Turns /\ HostFrame(host.active, Terminal)
        <4>1. Asked(host.active) /\ ~Ending(host.active)
          BY <3>2, <1>0 DEF Asked, TicketsApart
        <4>2. EndingOnce' /\ HostMessages' /\ \A u \in Turns : Ending(u)' => Ending(u) \/ u = host.active
          BY <3>2, <4>1, <1>0, EndingAppended
        <4> QED
          BY <4>1, <4>2
      <3> QED BY <2>1, <3>1, <3>2
    <2>3. \A u \in Turns : ~Asked(u)' /\ (Sent(u)' <=> Sent(u))
      BY <2>1, ComposerConstants DEF Asked, Sent
    <2>4. TicketsApart'
      BY <1>0, <1>3, <2>2, <2>3 DEF TicketsApart
    <2>5. SentOnce'
      BY <1>0, <2>1 DEF SentOnce
    <2> QED
      BY <1>3, <2>2, <2>4, <2>5 DEF ProducerInv
  <1> QED
    BY <1>1, <1>4, <1>5, <1>6, <1>7 DEF Host

LEMMA ProducerStep == Typed /\ ProducerInv /\ [Next]_vars => ProducerInv'
  <1> SUFFICES ASSUME Typed, ProducerInv, [Next]_vars PROVE ProducerInv'
    OBVIOUS
  <1>1. CASE UNCHANGED vars
    BY <1>1, QuietKeeps DEF QuietStep, vars
  <1>2. ASSUME NEW r \in Readers, Stream(r) \/ StreamLeft(r) \/ Subscribe(r) PROVE ProducerInv'
    <2>1. CASE StreamFrame(r)
      <3> DEFINE t == Watches[r]
      <3>1. /\ turn'[t].history = turn[t].history /\ turn'[t].req = turn[t].req /\ turn'[t].status = turn[t].status
            /\ \A u \in Turns \ {t} : turn'[u] = turn[u]
            /\ UNCHANGED <<task, out, in, hostVars>>
        BY <2>1, StreamFrameIs
      <3> QED
        BY <3>1, QuietKeeps DEF QuietStep, hostVars
    <2>2. CASE StreamTimeout(r) \/ StreamLeft(r) \/ Subscribe(r)
      <3>1. UNCHANGED <<turnVars, out, in, hostVars>>
        BY <2>2, StreamStops, SubscribeIs
      <3> QED
        BY <3>1, QuietKeeps DEF QuietStep, turnVars, hostVars
    <2> QED
      BY <1>2, <2>1, <2>2 DEF Stream
  <1> QED
    BY <1>1, <1>2, ProducerTurnStep, ProducerSocketStep, ProducerHostStep DEF Next

\* A turn receives at most one terminal frame from the stub and one from the host,
\* for any number of overlapping prompts, sockets and faults, and the hub, the wire
\* and the streams keep their types.
THEOREM TurnsAlwaysConsistent == Spec => []TurnsConsistent
  <1>1. Init => ProducerInv
    <2> SUFFICES ASSUME Init PROVE ProducerInv
      OBVIOUS
    <2>1. /\ \A t \in Turns : turn[t].history = <<>> /\ turn[t].req = "idle" /\ task[t] = "off"
          /\ \A s \in Sockets : out[s] = <<>> /\ in[s] = <<>>
          /\ host.active = NoTurn
      BY DEF Init
    <2>2. \A t \in Turns : ~HostEnded(t) /\ ~StubEnded(t) /\ ~Sent(t) /\ ~Ending(t) /\ ~Asked(t)
      BY <2>1, ComposerConstants DEF HostEnded, StubEnded, Sent, Ending, Asked
    <2>3. TicketsApart /\ StubTickets
      BY <2>1, <2>2 DEF TicketsApart, StubTickets
    <2>4. SentOnce /\ EndingOnce /\ HostMessages
      BY <2>1 DEF SentOnce, EndingOnce, HostMessages
    <2>5. OneEndPerProducer
      BY <2>1 DEF OneEndPerProducer, Ends
    <2> QED
      BY <2>3, <2>4, <2>5 DEF ProducerInv
  <1>2. Typed /\ HubInv => TypeOK
    BY DEF Typed, HubInv, TypeOK, TurnTyped, TurnRecords, RowTyped, TaskTyped, HubTyped, SocketStates, WireTyped,
           Messages, Finishing, HostTyped, HostRecords, ReaderTyped, ReaderRecords, FaultTyped
  <1>3. Typed /\ HubInv /\ ProducerInv => TurnsConsistent
    BY <1>2 DEF TurnsConsistent, ProducerInv
  <1> QED
    BY <1>1, <1>3, ProducerStep, TypedAlways, PTL DEF Spec

-----------------------------------------------------------------------------
(* The streams                                                             *)

\* The positions in a turn's queue increase, end markers aside.
QueueInOrder ==
    \A t \in Turns :
        /\ \A k \in DOMAIN turn[t].queue : turn[t].queue[k] <= Len(turn[t].history)
        /\ \A j, k \in DOMAIN turn[t].queue :
              j < k /\ turn[t].queue[j] # EndOfStream /\ turn[t].queue[k] # EndOfStream
              => turn[t].queue[j] < turn[t].queue[k]

\* A browser has seen frames of its turn; a live one has not seen the end, and one
\* that reads alone has seen or will find in the queue every frame there is.
SawFrames == \A r \in Readers : reader[r].saw \subseteq 1..Len(turn[Watches[r]].history)
LiveBeforeEnd ==
    \A r \in Readers : reader[r].state = "live" =>
        \A i \in reader[r].saw : ~IsTerminal(turn[Watches[r]].history[i])
NothingMissing ==
    \A r \in Readers : reader[r].state = "live" /\ ~reader[r].shared =>
        \A i \in 1..Len(turn[Watches[r]].history) :
            i \in reader[r].saw \/ \E k \in DOMAIN turn[Watches[r]].queue : turn[Watches[r]].queue[k] = i

\* Two live streams of a turn know of each other.
LiveTogether ==
    \A r, q \in Readers :
        r # q /\ Watches[r] = Watches[q] /\ reader[r].state = "live" /\ reader[q].state = "live"
        => reader[r].shared

StreamInv == QueueInOrder /\ SawFrames /\ LiveBeforeEnd /\ NothingMissing /\ LiveTogether /\ NoFrameLost

\* Steps that leave the turns' frames and the streams alone.
LEMMA StreamsUntouched ==
    ASSUME StreamInv, reader' = reader,
           \A t \in Turns : turn'[t].history = turn[t].history /\ turn'[t].queue = turn[t].queue
    PROVE  StreamInv'
  <1>0. \A r \in Readers : Watches[r] \in Turns
    BY ComposerConstants
  <1>1. QueueInOrder'
    BY DEF StreamInv, QueueInOrder
  <1>2. SawFrames' /\ LiveBeforeEnd' /\ NothingMissing'
    BY <1>0 DEF StreamInv, SawFrames, LiveBeforeEnd, NothingMissing
  <1>3. LiveTogether' /\ NoFrameLost'
    BY <1>0 DEF StreamInv, LiveTogether, NoFrameLost
  <1> QED
    BY <1>1, <1>2, <1>3 DEF StreamInv

\* A frame is emitted.
LEMMA StreamsEmit ==
    ASSUME Typed, StreamInv, NEW t \in Turns, NEW f \in Frame, Emit(t, f), reader' = reader
    PROVE  StreamInv'
  <1> DEFINE h == turn[t].history
             q == turn[t].queue
             n == Len(h) + 1
  <1>0. \A r \in Readers : Watches[r] \in Turns
    BY ComposerConstants
  <1>1. /\ turn'[t].history = Append(h, f) /\ turn'[t].queue = Append(q, n)
        /\ \A u \in Turns \ {t} : turn'[u] = turn[u]
    BY EmitIs DEF Typed
  <1>2. h \in Seq(Frame) /\ q \in Seq(Nat) /\ Len(h) \in Nat /\ Len(q) \in Nat
    BY DEF Typed, TurnTyped, TurnRecords
  <1>3. /\ Len(turn'[t].history) = n
        /\ \A i \in 1..Len(h) : turn'[t].history[i] = h[i]
    BY <1>1, <1>2
  <1>4. /\ DOMAIN turn'[t].queue = 1..(Len(q) + 1) /\ DOMAIN q = 1..Len(q)
        /\ \A k \in DOMAIN q : turn'[t].queue[k] = q[k] /\ q[k] \in Nat
        /\ turn'[t].queue[Len(q) + 1] = n
    <2>1. n \in Nat
      BY <1>2
    <2> HIDE DEF n, q
    <2> QED
      BY <1>1, <1>2, <2>1
  <1>5. \A k \in DOMAIN q : q[k] <= Len(h)
    BY DEF StreamInv, QueueInOrder
  <1> HIDE DEF h, q
  <1>6. QueueInOrder'
    <2> SUFFICES ASSUME NEW u \in Turns
                 PROVE  /\ \A k \in DOMAIN turn'[u].queue : turn'[u].queue[k] <= Len(turn'[u].history)
                        /\ \A j, k \in DOMAIN turn'[u].queue :
                              j < k /\ turn'[u].queue[j] # EndOfStream /\ turn'[u].queue[k] # EndOfStream
                              => turn'[u].queue[j] < turn'[u].queue[k]
      BY DEF QueueInOrder
    <2>1. CASE u # t
      BY <2>1, <1>1 DEF StreamInv, QueueInOrder
    <2>2. CASE u = t
      <3>1. \A j, k \in DOMAIN q : j < k /\ q[j] # EndOfStream /\ q[k] # EndOfStream => q[j] < q[k]
        BY DEF StreamInv, QueueInOrder, q
      <3>2. \A k \in DOMAIN turn'[t].queue : k \in DOMAIN q \/ k = Len(q) + 1
        BY <1>2, <1>4
      <3>3. \A k \in DOMAIN turn'[t].queue : turn'[t].queue[k] <= Len(turn'[t].history)
        BY <1>2, <1>3, <1>4, <1>5, <3>2
      <3>4. ASSUME NEW j \in DOMAIN turn'[t].queue, NEW k \in DOMAIN turn'[t].queue,
                   j < k, turn'[t].queue[j] # EndOfStream, turn'[t].queue[k] # EndOfStream
            PROVE  turn'[t].queue[j] < turn'[t].queue[k]
        <4>1. j \in DOMAIN q
          BY <3>2, <3>4, <1>2, <1>4
        <4>2. CASE k \in DOMAIN q
          BY <4>1, <4>2, <3>1, <3>4, <1>4
        <4>3. CASE k = Len(q) + 1
          BY <4>1, <4>3, <1>2, <1>4, <1>5
        <4> QED BY <3>2, <4>2, <4>3
      <3> QED
        BY <2>2, <3>3, <3>4
    <2> QED
      BY <2>1, <2>2
  <1>7. \A r \in Readers : reader[r].saw \subseteq 1..Len(turn[Watches[r]].history)
    BY DEF StreamInv, SawFrames
  <1>8. \A r \in Readers : \A i \in reader[r].saw :
           turn'[Watches[r]].history[i] = turn[Watches[r]].history[i] /\ i \in 1..Len(turn'[Watches[r]].history)
    <2> SUFFICES ASSUME NEW r \in Readers, NEW i \in reader[r].saw
                 PROVE  /\ turn'[Watches[r]].history[i] = turn[Watches[r]].history[i]
                        /\ i \in 1..Len(turn'[Watches[r]].history)
      OBVIOUS
    <2>1. CASE Watches[r] = t
      <3>1. i \in 1..Len(h)
        BY <2>1, <1>7 DEF h
      <3> QED
        BY <2>1, <3>1, <1>2, <1>3 DEF h
    <2>2. CASE Watches[r] # t
      BY <2>2, <1>0, <1>1, <1>7
    <2> QED BY <2>1, <2>2
  <1>9. SawFrames' /\ LiveBeforeEnd'
    BY <1>8 DEF StreamInv, SawFrames, LiveBeforeEnd
  <1>10. LiveTogether' /\ NoFrameLost'
    BY <1>8 DEF StreamInv, LiveTogether, NoFrameLost
  <1>11. NothingMissing'
    <2> SUFFICES ASSUME NEW r \in Readers, reader[r].state = "live", ~reader[r].shared,
                        NEW i \in 1..Len(turn'[Watches[r]].history)
                 PROVE  \/ i \in reader[r].saw
                        \/ \E k \in DOMAIN turn'[Watches[r]].queue : turn'[Watches[r]].queue[k] = i
      BY DEF NothingMissing
    <2>1. CASE Watches[r] # t
      <3>1. turn'[Watches[r]] = turn[Watches[r]]
        BY <2>1, <1>0, <1>1
      <3> QED
        BY <3>1 DEF StreamInv, NothingMissing
    <2>2. CASE Watches[r] = t
      <3>1. i \in 1..Len(h) \/ i = n
        BY <2>2, <1>2, <1>3
      <3>2. CASE i \in 1..Len(h)
        <4>1. i \in reader[r].saw \/ \E k \in DOMAIN q : q[k] = i
          BY <2>2, <3>2 DEF StreamInv, NothingMissing, h, q
        <4>2. \A k \in DOMAIN q : k \in DOMAIN turn'[t].queue
          BY <1>2, <1>4
        <4> QED
          BY <2>2, <4>1, <4>2, <1>4
      <3>3. CASE i = n
        <4>1. Len(q) + 1 \in DOMAIN turn'[t].queue
          BY <1>2, <1>4
        <4> QED
          BY <2>2, <3>3, <4>1, <1>4
      <3> QED BY <3>1, <3>2, <3>3
    <2> QED BY <2>1, <2>2
  <1> QED
    BY <1>6, <1>9, <1>10, <1>11 DEF StreamInv

\* The end marker is queued.
LEMMA StreamsFinalise ==
    ASSUME Typed, StreamInv, NEW t \in Turns, NEW status \in {"completed", "failed"}, Finalise(t, status),
           reader' = reader
    PROVE  StreamInv'
  <1> DEFINE q == turn[t].queue
  <1>0. \A r \in Readers : Watches[r] \in Turns
    BY ComposerConstants
  <1>1. /\ turn'[t].history = turn[t].history /\ turn'[t].queue = Append(q, EndOfStream)
        /\ \A u \in Turns \ {t} : turn'[u] = turn[u]
    BY FinaliseIs DEF Typed
  <1>2. q \in Seq(Nat) /\ Len(q) \in Nat /\ Len(turn[t].history) \in Nat
    BY DEF Typed, TurnTyped, TurnRecords
  <1>3. /\ DOMAIN turn'[t].queue = 1..(Len(q) + 1) /\ DOMAIN q = 1..Len(q)
        /\ \A k \in DOMAIN q : turn'[t].queue[k] = q[k] /\ q[k] \in Nat
        /\ turn'[t].queue[Len(q) + 1] = EndOfStream
    BY <1>1, <1>2 DEF EndOfStream
  <1> HIDE DEF q
  <1>4. \A u \in Turns : turn'[u].history = turn[u].history
    BY <1>1
  <1>5. QueueInOrder'
    <2> SUFFICES ASSUME NEW u \in Turns
                 PROVE  /\ \A k \in DOMAIN turn'[u].queue : turn'[u].queue[k] <= Len(turn'[u].history)
                        /\ \A j, k \in DOMAIN turn'[u].queue :
                              j < k /\ turn'[u].queue[j] # EndOfStream /\ turn'[u].queue[k] # EndOfStream
                              => turn'[u].queue[j] < turn'[u].queue[k]
      BY DEF QueueInOrder
    <2>1. CASE u # t
      BY <2>1, <1>1 DEF StreamInv, QueueInOrder
    <2>2. CASE u = t
      <3>1. /\ \A k \in DOMAIN q : q[k] <= Len(turn[t].history)
            /\ \A j, k \in DOMAIN q : j < k /\ q[j] # EndOfStream /\ q[k] # EndOfStream => q[j] < q[k]
        BY DEF StreamInv, QueueInOrder, q
      <3>2. \A k \in DOMAIN turn'[t].queue : k \in DOMAIN q \/ (k = Len(q) + 1 /\ turn'[t].queue[k] = EndOfStream)
        BY <1>2, <1>3
      <3>3. \A k \in DOMAIN turn'[t].queue : turn'[t].queue[k] <= Len(turn'[t].history)
        BY <1>1, <1>2, <1>3, <3>1, <3>2 DEF EndOfStream
      <3> QED
        BY <2>2, <1>3, <3>1, <3>2, <3>3
    <2> QED
      BY <2>1, <2>2
  <1>6. SawFrames' /\ LiveBeforeEnd'
    BY <1>0, <1>4 DEF StreamInv, SawFrames, LiveBeforeEnd
  <1>7. LiveTogether' /\ NoFrameLost'
    BY <1>0, <1>4 DEF StreamInv, LiveTogether, NoFrameLost
  <1>8. \A u \in Turns : \A k \in DOMAIN turn[u].queue :
           k \in DOMAIN turn'[u].queue /\ turn'[u].queue[k] = turn[u].queue[k]
    <2>1. \A k \in DOMAIN q : k \in DOMAIN turn'[t].queue /\ turn'[t].queue[k] = q[k]
      BY <1>2, <1>3
    <2> QED
      BY <1>1, <2>1 DEF q
  <1>9. NothingMissing'
    BY <1>0, <1>4, <1>8 DEF StreamInv, NothingMissing
  <1> QED
    BY <1>5, <1>6, <1>7, <1>9 DEF StreamInv

\* A browser takes the frame at the head of the queue.  What it had not seen before
\* that frame cannot be further down the queue, so if it reads alone it has seen it.
LEMMA StreamsTake ==
    ASSUME Typed, StreamInv, NEW r \in Readers, StreamFrame(r)
    PROVE  StreamInv'
  <1> DEFINE t == Watches[r]
             q == turn[t].queue
             h == turn[t].history
             i == Head(q)
  <1>0. \A p \in Readers : Watches[p] \in Turns
    BY ComposerConstants
  <1>1. /\ t \in Turns /\ reader[r].state = "live" /\ q # <<>> /\ q \in Seq(Nat)
        /\ turn'[t].queue = Tail(q) /\ turn'[t].history = h
        /\ \A u \in Turns \ {t} : turn'[u] = turn[u]
        /\ \A p \in Readers \ {r} : reader'[p] = reader[p]
        /\ reader'[r].shared = reader[r].shared
        /\ reader'[r].saw = IF i = EndOfStream THEN reader[r].saw ELSE reader[r].saw \cup {i}
        /\ reader'[r].state = IF i = EndOfStream \/ IsTerminal(h[i]) THEN "ended" ELSE "live"
    BY StreamFrameIs
  <1>2. 1 \in DOMAIN q /\ i = q[1] /\ i \in Nat
    BY <1>1, TailAt
  <1>3. \A k \in DOMAIN Tail(q) : k \in Nat \ {0} /\ k + 1 \in DOMAIN q /\ Tail(q)[k] = q[k + 1]
    BY <1>1, TailAt
  <1>4. \A k \in DOMAIN q : k = 1 \/ (k - 1 \in DOMAIN Tail(q) /\ Tail(q)[k - 1] = q[k])
    BY <1>1, TailAt
  <1>5. \A k \in DOMAIN q : k \in Nat \ {0} /\ q[k] \in Nat
    BY <1>1
  <1>6. /\ \A k \in DOMAIN q : q[k] <= Len(h)
        /\ \A j, k \in DOMAIN q : j < k /\ q[j] # EndOfStream /\ q[k] # EndOfStream => q[j] < q[k]
    BY <1>1 DEF StreamInv, QueueInOrder
  <1>7. h \in Seq(Frame) /\ Len(h) \in Nat
    BY <1>1 DEF Typed, TurnTyped, TurnRecords
  <1>8. \A u \in Turns : turn'[u].history = turn[u].history
    BY <1>1
  <1>9. reader[r].saw \subseteq 1..Len(h) /\ \A j \in reader[r].saw : ~IsTerminal(h[j])
    BY <1>1 DEF StreamInv, SawFrames, LiveBeforeEnd
  <1>10. ~reader[r].shared => \A j \in 1..Len(h) : j \in reader[r].saw \/ \E k \in DOMAIN q : q[k] = j
    BY <1>1 DEF StreamInv, NothingMissing
  <1> HIDE DEF i, q, h
  <1>11. QueueInOrder'
    <2> SUFFICES ASSUME NEW u \in Turns
                 PROVE  /\ \A k \in DOMAIN turn'[u].queue : turn'[u].queue[k] <= Len(turn'[u].history)
                        /\ \A j, k \in DOMAIN turn'[u].queue :
                              j < k /\ turn'[u].queue[j] # EndOfStream /\ turn'[u].queue[k] # EndOfStream
                              => turn'[u].queue[j] < turn'[u].queue[k]
      BY DEF QueueInOrder
    <2>1. CASE u # t
      BY <2>1, <1>1 DEF StreamInv, QueueInOrder
    <2>2. CASE u = t
      <3>1. \A k \in DOMAIN Tail(q) : Tail(q)[k] <= Len(h)
        BY <1>3, <1>6
      <3>2. \A j, k \in DOMAIN Tail(q) :
               j < k /\ Tail(q)[j] # EndOfStream /\ Tail(q)[k] # EndOfStream => Tail(q)[j] < Tail(q)[k]
        <4> SUFFICES ASSUME NEW j \in DOMAIN Tail(q), NEW k \in DOMAIN Tail(q), j < k,
                            Tail(q)[j] # EndOfStream, Tail(q)[k] # EndOfStream
                     PROVE  Tail(q)[j] < Tail(q)[k]
          OBVIOUS
        <4>1. j + 1 < k + 1 /\ j + 1 \in DOMAIN q /\ k + 1 \in DOMAIN q
          BY <1>3
        <4> QED
          BY <4>1, <1>3, <1>6
      <3> QED
        BY <2>2, <3>1, <3>2, <1>1
    <2> QED
      BY <2>1, <2>2
  <1>12. reader'[r].saw \subseteq 1..Len(h) /\ reader[r].saw \subseteq reader'[r].saw
    BY <1>1, <1>2, <1>6, <1>7, <1>9 DEF EndOfStream
  <1>13. SawFrames'
    <2>1. \A p \in Readers : reader'[p].saw \subseteq 1..Len(turn'[Watches[p]].history)
      BY <1>0, <1>1, <1>8, <1>12 DEF StreamInv, SawFrames
    <2> QED BY <2>1 DEF SawFrames
  <1>14. LiveBeforeEnd'
    <2>1. reader'[r].state = "live" => \A j \in reader'[r].saw : ~IsTerminal(h[j])
      BY <1>1, <1>9
    <2> QED
      BY <1>0, <1>1, <1>8, <2>1 DEF StreamInv, LiveBeforeEnd
  <1>15. LiveTogether'
    <2> SUFFICES ASSUME NEW a \in Readers, NEW b \in Readers, a # b, Watches[a] = Watches[b],
                        reader'[a].state = "live", reader'[b].state = "live"
                 PROVE  reader'[a].shared
      BY DEF LiveTogether
    <2>1. reader[a].state = "live" /\ reader[b].state = "live"
      BY <1>1
    <2>2. reader[a].shared
      BY <2>1 DEF StreamInv, LiveTogether
    <2> QED
      BY <2>2, <1>1
  <1>16. NothingMissing'
    <2> SUFFICES ASSUME NEW p \in Readers, reader'[p].state = "live", ~reader'[p].shared,
                        NEW j \in 1..Len(turn'[Watches[p]].history)
                 PROVE  \/ j \in reader'[p].saw
                        \/ \E k \in DOMAIN turn'[Watches[p]].queue : turn'[Watches[p]].queue[k] = j
      BY DEF NothingMissing
    <2>1. CASE p = r
      <3>1. j \in 1..Len(h) /\ ~reader[r].shared
        BY <2>1, <1>1
      <3>2. CASE j \in reader[r].saw
        BY <2>1, <3>2, <1>12
      <3>3. ASSUME NEW k \in DOMAIN q, q[k] = j
            PROVE  j \in reader'[r].saw \/ \E l \in DOMAIN Tail(q) : Tail(q)[l] = j
        <4>1. CASE k = 1
          <5>1. i = j /\ i # EndOfStream
            BY <4>1, <3>1, <3>3, <1>2, <1>7 DEF EndOfStream
          <5> QED
            BY <5>1, <1>1
        <4>2. CASE k # 1
          BY <4>2, <3>3, <1>4
        <4> QED BY <4>1, <4>2
      <3> QED
        BY <2>1, <3>1, <3>2, <3>3, <1>1, <1>10
    <2>2. CASE p # r /\ Watches[p] # t
      <3>1. turn'[Watches[p]] = turn[Watches[p]] /\ reader'[p] = reader[p]
        BY <2>2, <1>0, <1>1
      <3> QED
        BY <3>1 DEF StreamInv, NothingMissing
    <2>3. CASE p # r /\ Watches[p] = t
      BY <2>3, <1>1 DEF StreamInv, LiveTogether
    <2> QED BY <2>1, <2>2, <2>3
  <1>17. NoFrameLost'
    <2> SUFFICES ASSUME NEW p \in Readers, NEW j \in reader'[p].saw,
                        reader'[p].state = "ended", ~reader'[p].shared, IsTerminal(turn'[Watches[p]].history[j])
                 PROVE  1..j \subseteq reader'[p].saw
      BY DEF NoFrameLost
    <2>1. CASE p # r
      <3>1. turn'[Watches[p]].history = turn[Watches[p]].history /\ reader'[p] = reader[p]
        BY <2>1, <1>0, <1>1, <1>8
      <3> QED
        BY <3>1 DEF StreamInv, NoFrameLost
    <2>2. CASE p = r
      <3>1. j = i /\ i # EndOfStream /\ ~reader[r].shared
        BY <2>2, <1>1, <1>9
      <3>2. i \in 1..Len(h)
        BY <3>1, <2>2, <1>12
      <3>3. ASSUME NEW k \in 1..i PROVE k \in reader'[r].saw
        <4>1. k \in 1..Len(h) /\ k # EndOfStream /\ k <= i
          BY <3>2, <3>3, <1>7 DEF EndOfStream
        <4>2. CASE k \in reader[r].saw
          BY <4>2, <1>12
        <4>3. ASSUME NEW l \in DOMAIN q, q[l] = k PROVE k = i
          <5>1. CASE l = 1
            BY <5>1, <4>3, <1>2
          <5>2. CASE l # 1
            <6>1. 1 < l
              BY <5>2, <1>5
            <6>2. q[1] < q[l]
              BY <6>1, <4>1, <4>3, <3>1, <1>2, <1>6
            <6> QED
              BY <6>2, <4>1, <4>3, <1>2
          <5> QED BY <5>1, <5>2
        <4>4. k \in reader[r].saw \/ k = i
          BY <4>1, <4>3, <3>1, <1>10
        <4>5. i \in reader'[r].saw
          BY <3>1, <1>1
        <4> QED
          BY <4>2, <4>4, <4>5
      <3> QED
        BY <2>2, <3>1, <3>3
    <2> QED BY <2>1, <2>2
  <1> QED
    BY <1>11, <1>13, <1>14, <1>15, <1>16, <1>17 DEF StreamInv

\* A browser subscribes: it gets the whole history, and from here on it and the
\* other live ones share the queue.
LEMMA StreamsOpen ==
    ASSUME Typed, StreamInv, NEW r \in Readers, Subscribe(r)
    PROVE  StreamInv'
  <1> DEFINE t == Watches[r]
             h == turn[t].history
  <1>0. \A p \in Readers : Watches[p] \in Turns
    BY ComposerConstants
  <1>1. reader[r].state = "idle" /\ reader' = Opened(r, DOMAIN h) /\ turn' = turn
    BY SubscribeIs DEF turnVars
  <1>2. h \in Seq(Frame) /\ DOMAIN h = 1..Len(h) /\ Len(h) \in Nat
    BY <1>0 DEF Typed, TurnTyped, TurnRecords
  <1>3. /\ reader'[r].saw = 1..Len(h) /\ reader'[r].shared = (Others(r) # {})
        /\ reader'[r].state = IF HasEnd(t) THEN "ended" ELSE "live"
    BY <1>1, <1>2 DEF Opened
  <1>4. \A p \in Readers \ {r} :
           /\ reader'[p].saw = reader[p].saw /\ reader'[p].state = reader[p].state
           /\ reader'[p].shared = (reader[p].shared \/ (p \in Others(r) /\ ~HasEnd(t)))
    <2> SUFFICES ASSUME NEW p \in Readers \ {r}
                 PROVE  /\ reader'[p].saw = reader[p].saw /\ reader'[p].state = reader[p].state
                        /\ reader'[p].shared = (reader[p].shared \/ (p \in Others(r) /\ ~HasEnd(t)))
      OBVIOUS
    <2>0. reader[p] \in ReaderRecords
      BY DEF Typed, ReaderTyped
    <2>1. CASE p \in Others(r) /\ ~HasEnd(t)
      <3>1. reader'[p] = [reader[p] EXCEPT !.shared = TRUE]
        BY <2>1, <1>1 DEF Opened
      <3> QED
        BY <3>1, <2>0, <2>1 DEF ReaderRecords
    <2>2. CASE ~(p \in Others(r) /\ ~HasEnd(t))
      <3>1. reader'[p] = reader[p]
        BY <2>2, <1>1 DEF Opened
      <3> QED
        BY <3>1, <2>0, <2>2 DEF ReaderRecords
    <2> QED BY <2>1, <2>2
  <1>5. QueueInOrder'
    BY <1>1 DEF StreamInv, QueueInOrder
  <1>6. SawFrames'
    BY <1>1, <1>3, <1>4 DEF StreamInv, SawFrames
  <1>7. LiveBeforeEnd'
    <2>1. reader'[r].state = "live" => \A i \in reader'[r].saw : ~IsTerminal(h[i])
      BY <1>2, <1>3 DEF HasEnd
    <2> QED
      BY <1>1, <1>4, <2>1 DEF StreamInv, LiveBeforeEnd
  <1>8. LiveTogether'
    <2> SUFFICES ASSUME NEW a \in Readers, NEW b \in Readers, a # b, Watches[a] = Watches[b],
                        reader'[a].state = "live", reader'[b].state = "live"
                 PROVE  reader'[a].shared
      BY DEF LiveTogether
    <2>1. CASE a # r /\ b # r
      BY <2>1, <1>4 DEF StreamInv, LiveTogether
    <2>2. CASE a = r
      BY <2>2, <1>3, <1>4 DEF Others
    <2>3. CASE b = r
      BY <2>3, <1>3, <1>4 DEF Others
    <2> QED BY <2>1, <2>2, <2>3
  <1>9. NothingMissing'
    BY <1>1, <1>3, <1>4 DEF StreamInv, NothingMissing
  <1>10. NoFrameLost'
    <2>1. \A i \in reader'[r].saw : 1..i \subseteq reader'[r].saw
      BY <1>2, <1>3
    <2> QED
      BY <1>1, <1>4, <2>1 DEF StreamInv, NoFrameLost
  <1> QED
    BY <1>5, <1>6, <1>7, <1>8, <1>9, <1>10 DEF StreamInv

\* A stream times out or its browser leaves: it has not seen the end of the turn.
LEMMA StreamsStop ==
    ASSUME Typed, StreamInv, NEW r \in Readers, StreamTimeout(r) \/ StreamLeft(r)
    PROVE  StreamInv'
  <1>1. /\ reader[r].state = "live" /\ turn' = turn
        /\ \A p \in Readers \ {r} : reader'[p] = reader[p]
        /\ reader'[r].state \in {"ended", "idle"} /\ reader'[r].saw \in {reader[r].saw, {}}
    BY StreamStops DEF turnVars
  <1>2. \A i \in reader'[r].saw : i \in reader[r].saw /\ ~IsTerminal(turn[Watches[r]].history[i])
    BY <1>1 DEF StreamInv, LiveBeforeEnd
  <1>3. QueueInOrder' /\ SawFrames'
    BY <1>1, <1>2 DEF StreamInv, QueueInOrder, SawFrames
  <1>4. LiveBeforeEnd' /\ LiveTogether'
    BY <1>1 DEF StreamInv, LiveBeforeEnd, LiveTogether
  <1>5. NothingMissing' /\ NoFrameLost'
    BY <1>1, <1>2 DEF StreamInv, NothingMissing, NoFrameLost
  <1> QED
    BY <1>3, <1>4, <1>5 DEF StreamInv

LEMMA StreamStep == Typed /\ StreamInv /\ [Next]_vars => StreamInv'
  <1> SUFFICES ASSUME Typed, StreamInv, [Next]_vars PROVE StreamInv'
    OBVIOUS
  <1>1. CASE UNCHANGED <<turn, reader>>
    BY <1>1, StreamsUntouched
  <1>2. ASSUME NEW t \in Turns, ScheduleTurn(t) \/ Request(t) \/ StubFrame(t) \/ StubEnds(t) PROVE StreamInv'
    <2>1. CASE ScheduleTurn(t) \/ Request(t)
      <3>1. /\ turn'[t].history = turn[t].history /\ turn'[t].queue = turn[t].queue
            /\ \A u \in Turns \ {t} : turn'[u] = turn[u]
            /\ reader' = reader
        BY <2>1, ScheduleIs, SentIs, SendFailsIs, CommitIs DEF Request
      <3> QED
        BY <3>1, StreamsUntouched
    <2>2. CASE StubFrame(t)
      BY <2>2, StubFrameIs, StreamsEmit
    <2>3. CASE StubEnds(t)
      BY <2>3, StubEndsIs, StreamsFinalise
    <2> QED BY <1>2, <2>1, <2>2, <2>3
  <1>3. ASSUME NEW s \in Sockets, Socket(s) \/ AuthFails(s) \/ LoseSocket(s) PROVE StreamInv'
    <2>1. CASE IngestFrame(s)
      <3> DEFINE m == Head(in[s])
      <3>1. m \in Messages /\ Emit(m.turn, m.frame) /\ reader' = reader
        BY <2>1, IngestIs
      <3>2. m.turn \in Turns /\ m.frame \in Frame
        BY <3>1 DEF Messages
      <3> HIDE DEF m
      <3> QED
        BY <3>1, <3>2, StreamsEmit
    <2>2. CASE FinishFrame(s)
      BY <2>2, FinishIs, StreamsFinalise
    <2> QED
      BY <1>1, <1>3, <2>1, <2>2, HubMoves, LoopBreaksIs DEF Socket, turnVars
  <1>4. CASE Host \/ PiExits
    BY <1>1, <1>4, HostConnectsIs, HostClosesIs, ChatRequestIs, PiSaysIs, PiEndsIs, PiExitsIs DEF Host, turnVars
  <1>5. ASSUME NEW r \in Readers, Stream(r) \/ StreamLeft(r) \/ Subscribe(r) PROVE StreamInv'
    BY <1>5, StreamsTake, StreamsOpen, StreamsStop DEF Stream
  <1> QED
    BY <1>1, <1>2, <1>3, <1>4, <1>5 DEF Next, vars

\* composer_stream: a browser that reads a turn's stream alone and has received its
\* end has received every frame before it, however often it left and came back.
THEOREM NoFrameEverLost == Spec => []NoFrameLost
  <1>1. Init => StreamInv
    <2> SUFFICES ASSUME Init PROVE StreamInv
      OBVIOUS
    <2>1. /\ \A t \in Turns : turn[t].queue = <<>>
          /\ \A r \in Readers : reader[r].saw = {} /\ reader[r].state = "idle"
      BY DEF Init
    <2> QED
      BY <2>1 DEF StreamInv, QueueInOrder, SawFrames, LiveBeforeEnd, NothingMissing, LiveTogether, NoFrameLost
  <1>2. StreamInv => NoFrameLost
    BY DEF StreamInv
  <1> QED
    BY <1>1, <1>2, StreamStep, TypedAlways, PTL DEF Spec
=============================================================================
