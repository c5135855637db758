------------------------------ MODULE Composer ------------------------------
(***************************************************************************)
(* A chat turn from end to end: POST /messaging/messages creates the turn  *)
(* (core/composer_turns.py), the tunnel hub sends it to the instance host  *)
(* over a WebSocket (services/tunnel, api/v1/tunnel.py) or a stub answers  *)
(* it, the host's bridge prompts pi and returns pi's events                *)
(* (eyot-instance-host), and browsers read the frames as a stream          *)
(* (api/v1/composer.py).  One instance; a socket is one connection of its  *)
(* host.  The backend is one asyncio process: a step ends at an await that *)
(* really suspends.  Text is abstracted away: a frame keeps its type and   *)
(* the prompt that pi was working on when it was produced.                 *)
(***************************************************************************)
EXTENDS Integers, Sequences, SequencesExt

CONSTANTS Turns, Sockets, Readers,
          Watches,        \* the turn whose stream a browser opens
          Tokens,         \* bound: chunks a producer emits for a turn's prompt
          MaxFaults       \* bound: lost or refused sockets, failed sends and
                          \* commits, errors and exits of pi or of the stub's
                          \* model, browsers that leave, a second browser

NoSocket == "no_socket"
NoTurn == "no_turn"
Stub == "stub"
Idle == [turn |-> NoTurn, status |-> "idle"]

ASSUME ComposerConstants ==
    /\ NoSocket \notin Sockets /\ NoTurn \notin Turns /\ Stub \notin Turns
    /\ Tokens \in [Turns -> Nat] /\ Watches \in [Readers -> Turns] /\ MaxFaults \in Nat

VARIABLES
    turn,       \* _TURNS: status, history, queue (positions in the history)
                \* and how far the request that made the turn has come
    row,        \* the assistant row of composer_messages
    task,       \* the stub task of a turn: off, running, or finishing so
    conn,       \* TunnelHub._connections of the instance
    lock,       \* the socket whose register() holds the hub's lock
    ws,         \* a socket as the backend sees it
    out, in,    \* frames in flight on a socket: to the host, to the backend
    busy,       \* the terminal frame a socket's loop is finishing
    host,       \* the host's socket and the bridge's active turn
    pi,         \* the prompts pi has accepted, oldest first
    reader,     \* a browser's stream: the frames it saw, whether it
                \* ended, and (history) whether another one read along
    faults      \* how many faults have happened

vars == <<turn, row, task, conn, lock, ws, out, in, busy, host, pi, reader, faults>>

Terminal == {"done", "error"}
Frame == [type : {"chunk"} \cup Terminal, of : Turns \cup {Stub}]
EndOfStream == 0
IsTerminal(f) == f.type \in Terminal
StatusAfter(f) == IF f.type = "done" THEN "completed" ELSE "failed"
ChunksOf(t, p) ==
    Len(SelectSeq(turn[t].history, LAMBDA f : f.type = "chunk" /\ f.of = p))

TypeOK ==
    /\ turn \in [Turns -> [status : {"absent", "responding", "completed", "failed"},
                           history : Seq(Frame),
                           queue : Seq(Nat),
                           req : {"idle", "sending", "returned", "over"},
                           sock : Sockets \cup {NoSocket}]]
    /\ row \in [Turns -> {"none", "pending", "responding", "completed", "failed"}]
    /\ task \in [Turns -> {"off", "run", "completed", "failed"}]
    /\ conn \in Sockets \cup {NoSocket} /\ lock \in Sockets \cup {NoSocket}
    /\ conn # NoSocket => ws[conn] \notin {"free", "auth", "gone"}
    /\ lock # NoSocket => ws[lock] = "auth"
    /\ ws \in [Sockets -> {"free", "auth", "open", "superseded", "lost", "closing", "gone"}]
    /\ out \in [Sockets -> Seq(Turns)]
    /\ in \in [Sockets -> Seq([turn : Turns, frame : Frame])]
    /\ busy \in [Sockets -> [turn : Turns, status : {"completed", "failed"}] \cup {Idle}]
    /\ host \in [sock : Sockets \cup {NoSocket}, active : Turns \cup {NoTurn}, said : Nat]
    /\ pi \in Seq(Turns) /\ faults \in 0..MaxFaults
    /\ reader \in [Readers -> [saw : SUBSET Nat, state : {"idle", "live", "ended"}, shared : BOOLEAN]]

Init ==
    /\ turn = [t \in Turns |-> [status |-> "absent", history |-> <<>>, queue |-> <<>>,
                                req |-> "idle", sock |-> NoSocket]]
    /\ row = [t \in Turns |-> "none"]
    /\ task = [t \in Turns |-> "off"]
    /\ conn = NoSocket /\ lock = NoSocket
    /\ ws = [s \in Sockets |-> "free"]
    /\ out = [s \in Sockets |-> <<>>]
    /\ in = [s \in Sockets |-> <<>>]
    /\ busy = [s \in Sockets |-> Idle]
    /\ host = [sock |-> NoSocket, active |-> NoTurn, said |-> 0]
    /\ pi = <<>> /\ faults = 0
    /\ reader = [r \in Readers |-> [saw |-> {}, state |-> "idle", shared |-> FALSE]]

turnVars == <<turn, row, task>>
hubVars == <<conn, lock, ws, busy>>
hostVars == <<host, pi>>

Fault == faults < MaxFaults /\ faults' = faults + 1
NoFault == UNCHANGED faults

-----------------------------------------------------------------------------
(* The request: send_message, schedule_user_turn                           *)

\* client_state of the registered socket; a closed socket keeps its state
\* until its loop has received the disconnect.
is_connected == conn # NoSocket /\ ws[conn] \in {"open", "superseded", "lost"}

\* The rows are flushed in the request's transaction, where nobody else sees
\* them; the host is asked if it is connected, else the stub.
ScheduleTurn(t) ==
    /\ turn[t].status = "absent"
    /\ row' = [row EXCEPT ![t] = "pending"]
    /\ LET created(req, s) == [turn EXCEPT ![t].status = "responding", ![t].req = req, ![t].sock = s]
       IN IF is_connected
          THEN turn' = created("sending", conn) /\ UNCHANGED task
          ELSE turn' = created("returned", NoSocket) /\ task' = [task EXCEPT ![t] = "run"]
    /\ UNCHANGED <<hubVars, out, in, hostVars, reader, faults>>

\* A write to a peer that is gone may succeed locally and be lost.
ChatSent(t) ==
    LET s == turn[t].sock IN
    /\ turn[t].req = "sending" /\ ws[s] \in {"open", "lost"}
    /\ turn' = [turn EXCEPT ![t].req = "returned"]
    /\ out' = IF ws[s] = "open" THEN [out EXCEPT ![s] = Append(@, t)] ELSE out
    /\ UNCHANGED <<row, task, hubVars, in, hostVars, reader, faults>>

\* As a mutant: without the identity test.
UnregisterAny(s) == conn' = NoSocket

\* unregister(instance_id, websocket): only the caller's own registration.
unregister(s) == conn' = IF conn = s THEN NoSocket ELSE conn

\* As a mutant: no fall back to the stub.
ChatSendFailsQuietly(t) ==
    LET s == turn[t].sock IN
    /\ turn[t].req = "sending" /\ lock = NoSocket
    /\ \/ ws[s] # "open" /\ NoFault /\ UNCHANGED out
       \/ ws[s] = "open" /\ Fault
          /\ out' = [out EXCEPT ![s] = Append(@, t)]
    /\ unregister(s)
    /\ turn' = [turn EXCEPT ![t].req = "returned", ![t].sock = NoSocket]
    /\ UNCHANGED task
    /\ UNCHANGED <<row, lock, ws, busy, in, hostVars, reader>>

\* send_json raised: the hub forgets that socket and the stub takes the turn.
\* The bytes may have reached the host all the same.
ChatSendFails(t) ==
    LET s == turn[t].sock IN
    /\ turn[t].req = "sending" /\ lock = NoSocket
    /\ \/ ws[s] # "open" /\ NoFault /\ UNCHANGED out
       \/ ws[s] = "open" /\ Fault
          /\ out' = [out EXCEPT ![s] = Append(@, t)]
    /\ unregister(s)
    /\ turn' = [turn EXCEPT ![t].req = "returned", ![t].sock = NoSocket]
    /\ task' = [task EXCEPT ![t] = "run"]
    /\ UNCHANGED <<row, lock, ws, busy, in, hostVars, reader>>

\* send_message commits after every directive has been routed.
Commit(t) ==
    /\ turn[t].req = "returned"
    /\ turn' = [turn EXCEPT ![t].req = "over"]
    /\ \/ NoFault /\ row' = [row EXCEPT ![t] = "responding"]
       \/ Fault /\ row' = [row EXCEPT ![t] = "none"]
    /\ UNCHANGED <<task, hubVars, out, in, hostVars, reader>>

-----------------------------------------------------------------------------
(* The turn: frames, the stub task, finalisation                           *)

\* _emit_frame, with the status the frame carries.
Emit(t, f) ==
    turn' = [turn EXCEPT ![t].history = Append(@, f),
                         ![t].queue = Append(@, Len(turn[t].history) + 1),
                         ![t].status = IF IsTerminal(f) THEN StatusAfter(f) ELSE @]

\* _finalize_assistant_message in a session of its own, then the end marker.
\* A row the request has not committed yet is not found and stays as it is.
Finalise(t, status) ==
    /\ row' = [row EXCEPT ![t] = IF @ \in {"none", "pending"} THEN @ ELSE status]
    /\ turn' = [turn EXCEPT ![t].queue = Append(@, EndOfStream)]

StubFrame(t) ==
    /\ task[t] = "run"
    /\ \E f \in [type : {"chunk", "done", "error"}, of : {Stub}] :
          /\ f.type = "chunk" => ChunksOf(t, Stub) < Tokens[t]
          /\ IF f.type = "error" THEN Fault ELSE NoFault
          /\ Emit(t, f)
          /\ task' = [task EXCEPT ![t] = IF IsTerminal(f) THEN StatusAfter(f) ELSE "run"]
    /\ UNCHANGED <<row, hubVars, out, in, hostVars, reader>>

StubEnds(t) ==
    /\ task[t] \in {"completed", "failed"}
    /\ Finalise(t, task[t])
    /\ task' = [task EXCEPT ![t] = "off"]
    /\ UNCHANGED <<hubVars, out, in, hostVars, reader, faults>>

-----------------------------------------------------------------------------
(* The hub and the loop of each socket: tunnel_connect                     *)

\* The token is right: register.  An older socket is closed first, under the
\* lock; the close suspends.
Register(s) ==
    /\ ws[s] = "auth" /\ lock = NoSocket
    /\ IF conn = NoSocket
       THEN conn' = s /\ ws' = [ws EXCEPT ![s] = "open"] /\ UNCHANGED lock
       ELSE /\ lock' = s
            /\ ws' = [ws EXCEPT ![conn] = IF @ = "open" THEN "superseded" ELSE @]
            /\ UNCHANGED conn
    /\ UNCHANGED <<turnVars, busy, out, in, hostVars, reader, faults>>

RegisterDone(s) ==
    /\ lock = s
    /\ conn' = s /\ lock' = NoSocket /\ ws' = [ws EXCEPT ![s] = "open"]
    /\ UNCHANGED <<turnVars, busy, out, in, hostVars, reader, faults>>

\* No auth frame in AUTH_TIMEOUT_S, a malformed one, or a wrong token.
AuthFails(s) ==
    /\ Fault /\ ws[s] = "auth" /\ lock # s
    /\ ws' = [ws EXCEPT ![s] = "gone"]
    /\ UNCHANGED <<turnVars, conn, lock, busy, out, in, hostVars, reader>>

\* The loop of a registered socket takes the next frame it has received.
IngestFrame(s) ==
    /\ ws[s] \in {"open", "superseded", "lost"}
    /\ busy[s] = Idle /\ in[s] # <<>>
    /\ LET m == Head(in[s]) IN
          /\ Emit(m.turn, m.frame)
          /\ busy' = [busy EXCEPT ![s] = IF IsTerminal(m.frame)
                                         THEN [turn |-> m.turn, status |-> StatusAfter(m.frame)]
                                         ELSE Idle]
    /\ in' = [in EXCEPT ![s] = Tail(@)]
    /\ UNCHANGED <<row, task, conn, lock, ws, out, hostVars, reader, faults>>

FinishFrame(s) ==
    /\ busy[s] # Idle
    /\ Finalise(busy[s].turn, busy[s].status)
    /\ busy' = [busy EXCEPT ![s] = Idle]
    /\ UNCHANGED <<task, conn, lock, ws, out, in, hostVars, reader, faults>>

\* The connection breaks; either side notices later.
LoseSocket(s) ==
    /\ Fault /\ ws[s] \in {"auth", "open"} /\ lock # s
    /\ ws' = [ws EXCEPT ![s] = IF @ = "auth" THEN "gone" ELSE "lost"]
    /\ UNCHANGED <<turnVars, conn, lock, busy, out, in, hostVars, reader>>

\* receive_json raises WebSocketDisconnect; frames not yet read are dropped.
LoopBreaks(s) ==
    /\ ws[s] \in {"superseded", "lost"} /\ busy[s] = Idle
    /\ ws' = [ws EXCEPT ![s] = "closing"]
    /\ in' = [in EXCEPT ![s] = <<>>]
    /\ UNCHANGED <<turnVars, conn, lock, busy, out, hostVars, reader, faults>>

\* The finally block, once the lock is free.
LoopEnds(s) ==
    /\ ws[s] = "closing" /\ lock = NoSocket
    /\ unregister(s)
    /\ ws' = [ws EXCEPT ![s] = "gone"]
    /\ UNCHANGED <<turnVars, lock, busy, out, in, hostVars, reader, faults>>

-----------------------------------------------------------------------------
(* The host: TunnelClient, ChatBridge and pi                               *)

\* A new connection: sockets are interchangeable, so any unused one will do.
NewSocket == CHOOSE s \in Sockets : ws[s] = "free"
HostConnects ==
    LET s == NewSocket IN
    /\ host.sock = NoSocket /\ \E x \in Sockets : ws[x] = "free"
    /\ ws' = [ws EXCEPT ![s] = "auth"]
    /\ host' = [host EXCEPT !.sock = s]
    /\ UNCHANGED <<turnVars, conn, lock, busy, out, in, pi, reader, faults>>

\* The close event: what the backend still had in flight is dropped.
HostCloses ==
    /\ host.sock # NoSocket /\ ws[host.sock] \notin {"auth", "open"}
    /\ host' = [host EXCEPT !.sock = NoSocket]
    /\ out' = [out EXCEPT ![host.sock] = <<>>]
    /\ UNCHANGED <<turnVars, hubVars, in, pi, reader, faults>>

\* TunnelClient.send: a frame is dropped when there is no open socket.
HostSends(t, f) ==
    in' = IF host.sock # NoSocket /\ ws[host.sock] \in {"auth", "open", "superseded"}
          THEN [in EXCEPT ![host.sock] = Append(@, [turn |-> t, frame |-> f])]
          ELSE in

\* onChatRequest: the new turn becomes the active one, whatever pi is doing.
ChatRequest ==
    /\ host.sock # NoSocket /\ out[host.sock] # <<>>
    /\ LET t == Head(out[host.sock]) IN
          \/ /\ NoFault
             /\ host' = [host EXCEPT !.active = t]
             /\ pi' = Append(pi, t)
             /\ UNCHANGED in
          \/ /\ Fault    \* pi cannot be started, which leaves the old turn active, or written to
             /\ \/ pi = <<>> /\ UNCHANGED host
                \/ host' = [host EXCEPT !.active = NoTurn]
             /\ HostSends(t, [type |-> "error", of |-> t])
             /\ UNCHANGED pi
    /\ out' = [out EXCEPT ![host.sock] = Tail(@)]
    /\ UNCHANGED <<turnVars, hubVars, reader>>

\* onPiEvent, text: the bridge credits it to the active turn.
PiSays ==
    /\ pi # <<>> /\ host.said < Tokens[Head(pi)]
    /\ IF host.active = NoTurn THEN UNCHANGED in
       ELSE HostSends(host.active, [type |-> "chunk", of |-> Head(pi)])
    /\ host' = [host EXCEPT !.said = @ + 1]
    /\ UNCHANGED <<turnVars, hubVars, out, pi, reader, faults>>

\* As a mutant: the bridge keeps the active turn.
PiEndsStaysActive ==
    /\ pi # <<>>
    /\ \E end \in {"done", "error", "rejected"} :
          LET p == IF end = "rejected" THEN Last(pi) ELSE Head(pi)
              f == [type |-> IF end = "done" THEN "done" ELSE "error", of |-> p]
          IN /\ IF end = "error" THEN Fault ELSE NoFault
             /\ pi' = IF end = "rejected" THEN Front(pi) ELSE Tail(pi)
             /\ IF host.active = NoTurn THEN UNCHANGED in ELSE HostSends(host.active, f)
    /\ host' = [host EXCEPT !.said = 0]
    /\ UNCHANGED <<turnVars, hubVars, out, reader>>

\* agent_end or an error of the prompt pi works on, or a rejected prompt.
PiEnds ==
    /\ pi # <<>>
    /\ \E end \in {"done", "error", "rejected"} :
          LET p == IF end = "rejected" THEN Last(pi) ELSE Head(pi)
              f == [type |-> IF end = "done" THEN "done" ELSE "error", of |-> p]
          IN /\ IF end = "error" THEN Fault ELSE NoFault
             /\ pi' = IF end = "rejected" THEN Front(pi) ELSE Tail(pi)
             /\ IF host.active = NoTurn THEN UNCHANGED in ELSE HostSends(host.active, f)
    /\ host' = [host EXCEPT !.active = NoTurn, !.said = 0]
    /\ UNCHANGED <<turnVars, hubVars, out, reader>>

\* The bridge has no handler for pi's exit: the active turn stays active.
PiExits ==
    /\ Fault /\ pi # <<>>
    /\ pi' = <<>>
    /\ host' = [host EXCEPT !.said = 0]
    /\ UNCHANGED <<turnVars, hubVars, out, in, reader>>

-----------------------------------------------------------------------------
(* A browser's stream: composer_stream                                     *)

HasEnd(t) == \E i \in DOMAIN turn[t].history : IsTerminal(turn[t].history[i])

\* A second browser on the turn counts as one of the disturbances.
SecondTab(r) ==
    IF \E q \in Readers \ {r} : Watches[q] = Watches[r] /\ reader[q].state # "idle" THEN Fault ELSE UNCHANGED faults
Others(r) == {q \in Readers \ {r} : Watches[q] = Watches[r] /\ reader[q].state = "live"}
Opened(r, saw) ==
    LET t == Watches[r] IN
    [q \in Readers |->
        IF q = r THEN [saw |-> saw, state |-> IF HasEnd(t) THEN "ended" ELSE "live", shared |-> Others(r) # {}]
        ELSE IF q \in Others(r) /\ ~HasEnd(t) THEN [reader[q] EXCEPT !.shared = TRUE] ELSE reader[q]]

\* As a mutant: no replay of the history.
SubscribeLive(r) ==
    LET t == Watches[r] IN
    /\ reader[r].state = "idle" /\ turn[t].req = "over" /\ row[t] # "none"
    /\ reader' = Opened(r, {}) /\ SecondTab(r)
    /\ UNCHANGED <<turnVars, hubVars, out, in, hostVars>>

\* The response to the message names the turn.  The history first; then, unless it holds the end, the shared queue.
Subscribe(r) ==
    LET t == Watches[r] IN
    /\ reader[r].state = "idle" /\ turn[t].req = "over" /\ row[t] # "none"
    /\ reader' = Opened(r, DOMAIN turn[t].history) /\ SecondTab(r)
    /\ UNCHANGED <<turnVars, hubVars, out, in, hostVars>>

StreamFrame(r) ==
    LET t == Watches[r] IN
    /\ reader[r].state = "live" /\ turn[t].queue # <<>>
    /\ LET i == Head(turn[t].queue) IN
          reader' = [reader EXCEPT ![r].saw = IF i = EndOfStream THEN @ ELSE @ \cup {i},
                                   ![r].state = IF i = EndOfStream \/ IsTerminal(turn[t].history[i])
                                                THEN "ended" ELSE "live"]
    /\ turn' = [turn EXCEPT ![t].queue = Tail(@)]
    /\ UNCHANGED <<row, task, hubVars, out, in, hostVars, faults>>

\* 30 s without a frame: a ping, and the end if the turn has ended.
StreamTimeout(r) ==
    LET t == Watches[r] IN
    /\ reader[r].state = "live" /\ turn[t].queue = <<>>
    /\ turn[t].status \in {"completed", "failed"}
    /\ reader' = [reader EXCEPT ![r].state = "ended"]
    /\ UNCHANGED <<turnVars, hubVars, out, in, hostVars, faults>>

\* The browser disconnects; it may subscribe again.
StreamLeft(r) ==
    /\ reader[r].state = "live" /\ Fault
    /\ reader' = [reader EXCEPT ![r] = [saw |-> {}, state |-> "idle", shared |-> FALSE]]
    /\ UNCHANGED <<turnVars, hubVars, out, in, hostVars>>

-----------------------------------------------------------------------------
Request(t) == ChatSent(t) \/ ChatSendFails(t) \/ Commit(t)
Socket(s) == Register(s) \/ RegisterDone(s) \/ IngestFrame(s) \/ FinishFrame(s)
             \/ LoopBreaks(s) \/ LoopEnds(s)
Stream(r) == StreamFrame(r) \/ StreamTimeout(r)
Host == HostCloses \/ ChatRequest \/ PiSays \/ PiEnds \/ HostConnects

Next ==
    \/ \E t \in Turns : ScheduleTurn(t) \/ Request(t) \/ StubFrame(t) \/ StubEnds(t)
    \/ \E s \in Sockets : Socket(s) \/ AuthFails(s) \/ LoseSocket(s)
    \/ Host \/ PiExits
    \/ \E r \in Readers : Stream(r) \/ StreamLeft(r) \/ Subscribe(r)

\* The event loop runs every ready coroutine, and the host and pi keep
\* going; nothing makes a browser leave, a fault happen or a message be sent.
Fairness ==
    /\ \A t \in Turns : WF_vars(Request(t)) /\ WF_vars(StubFrame(t) \/ StubEnds(t))
    /\ \A s \in Sockets : WF_vars(Socket(s))
    /\ \A r \in Readers : WF_vars(Stream(r))
    /\ WF_vars(Host)

Spec == Init /\ [][Next]_vars
FairSpec == Spec /\ Fairness

-----------------------------------------------------------------------------
(* Properties                                                              *)

SendFailedOn(s) ==
    \E t \in Turns : /\ turn[t].req = "sending" /\ turn[t].sock = s
                     /\ turn'[t].sock = NoSocket

\* TunnelHub: the registration of a socket goes away only when that socket
\* is no longer open or a send on it has just failed.  The cleanup of a
\* superseded connection never removes its successor (the identity test in
\* unregister, and the lock that orders it after register).
RegistrationKept ==
    [][\A s \in Sockets : conn = s /\ conn' # s => ws[s] # "open" \/ SendFailedOn(s)]_vars

\* A turn receives at most one terminal frame from the stub and one from the
\* host, though prompts overlap, sockets are replaced and frames arrive late:
\* the bridge gives up the active turn with each terminal frame.
Ends(t, producers) ==
    {i \in DOMAIN turn[t].history :
        IsTerminal(turn[t].history[i]) /\ turn[t].history[i].of \in producers}
OneEndPerProducer ==
    \A t \in Turns : \A i, j \in Ends(t, Turns) \cup Ends(t, {Stub}) :
        i # j => (turn[t].history[i].of = Stub) # (turn[t].history[j].of = Stub)

\* The hub, the sockets and the turns keep their types, and no producer ends a turn
\* twice.
TurnsConsistent == TypeOK /\ OneEndPerProducer

\* composer_stream: a browser that reads alone and has received the end of
\* the turn has received every frame before it, even when it left and came
\* back in the middle (replay of the history, then the queue).
NoFrameLost ==
    \A r \in Readers :
        \A i \in reader[r].saw :
            (reader[r].state = "ended" /\ ~reader[r].shared /\ IsTerminal(turn[Watches[r]].history[i]))
            => 1..i \subseteq reader[r].saw

LostByHost(t) ==
    /\ turn[t].sock # NoSocket /\ turn[t].req # "sending"
    /\ \A s \in Sockets : t \notin Range(out[s]) /\ \A m \in Range(in[s]) : m.turn # t
    /\ host.active = t => pi = <<>>

\* schedule_user_turn: a turn ends, unless the request left for the host and
\* the host side has lost it (socket, overlapping prompt, exit of pi).  In
\* particular a failed send or an absent host always falls back to the stub.
TurnEnds ==
    \A t \in Turns : turn[t].status = "responding"
                        ~> (turn[t].status # "responding" \/ LostByHost(t))
=============================================================================
