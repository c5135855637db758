---------------------------- MODULE CollabProofs ----------------------------
(***************************************************************************)
(* The collaboration services of a workspace, for any number of seats,     *)
(* participants, schedules, processes and concurrent requests: a passage   *)
(* that is not deleted joins two seats that are not deleted, no two seats  *)
(* share a position, a meeting that has begun has told every seat, and a   *)
(* schedule is fired at most once for each time it became due.             *)
(***************************************************************************)
EXTENDS MCCollab, TLAPS, FiniteSetTheorems, WellFoundedInduction

-----------------------------------------------------------------------------
(* Passages                                                                *)

\* The part of the type that the argument needs.
Connecting == {"lock", "lock_second", "check", "add", "revive"}
TopologyShape ==
    /\ seat \in [Seats -> [state : RowState, pos : Cells]]
    /\ passage \in [Edges \X Filings -> PassageRows]
    /\ rowLock \in [Seats -> Requests \cup {NoOwner}]
    /\ DOMAIN job = Requests
    /\ \A r \in Requests : job[r].op \in Connecting =>
          job[r].a \in Seats /\ job[r].b \in Seats /\ job[r].a < job[r].b /\ job[r].filed \in Filings
    /\ \A r \in Requests :
          job[r].op \in {"insert", "restore", "introduce"} => job[r].a \in Seats /\ job[r].pos \in Cells
    /\ \A r \in Requests : job[r].op = "sweep" =>
          job[r].a \in Seats \cup {NoSeat} /\ job[r].left \in SUBSET Seats

\* A seat that is locked is live: its deletion waits for the lock.
LockedIsLive == \A s \in Seats : Locked(s) => Live(s)

\* create_passage holds its first end from the first lock on, and both ends from the
\* check of the row to the commit.
EndsHeld ==
    \A r \in Requests :
        /\ job[r].op \in {"lock_second", "check", "add", "revive"} => rowLock[job[r].a] = r
        /\ job[r].op \in {"check", "add", "revive"} => rowLock[job[r].b] = r

\* Nobody else holds a seat, but a sweep; what create_passage holds while it waits is
\* its smaller end.
LocksAccounted ==
    \A r \in Requests, s \in Seats : rowLock[s] = r =>
        \/ job[r].op = "sweep"
        \/ job[r].op = "lock_second" /\ s = job[r].a
        \/ job[r].op \in {"check", "add", "revive"}

TopologyInv == TopologyShape /\ LockedIsLive /\ EndsHeld /\ LocksAccounted /\ NoDanglingPassage

LEMMA TopologyInitInv == TopologyInit => TopologyInv
  <1> SUFFICES ASSUME TopologyInit PROVE TopologyInv
    OBVIOUS
  <1>1. seat \in [Seats -> [state : RowState, pos : Cells]]
    BY OriginAssumption DEF TopologyInit, RowState
  <1>2. passage \in [Edges \X Filings -> PassageRows] /\ \A k \in Edges \X Filings : passage[k].row = "none"
    BY DEF TopologyInit, PassageRows, RowState
  <1>3. rowLock \in [Seats -> Requests \cup {NoOwner}] /\ DOMAIN job = Requests
    BY DEF TopologyInit
  <1>4. \A r \in Requests : job[r].op = "idle"
    BY DEF TopologyInit, Idle, Job
  <1>5. \A s \in Seats : rowLock[s] = NoOwner /\ ~Locked(s)
    BY DEF TopologyInit, Locked
  <1>6. NoDanglingPassage
    BY <1>2 DEF NoDanglingPassage
  <1> QED
    BY <1>1, <1>2, <1>3, <1>4, <1>5, <1>6, OwnersAssumption
       DEF TopologyInv, TopologyShape, Connecting, LockedIsLive, EndsHeld, LocksAccounted

\* A workspace that is gone does not come back.
Onward == workspace = "deleted" => workspace' = "deleted"

\* What a request notes at first.
Fresh(j) ==
    /\ j.op \in {"insert", "restore", "introduce", "activate", "remove", "lock", "sweep"}
    /\ j.op = "lock" => j.a \in Seats /\ j.b \in Seats /\ j.a < j.b /\ j.filed \in Filings
    /\ j.op \in {"insert", "restore", "introduce"} => j.a \in Seats /\ j.pos \in Cells
    /\ j.op = "sweep" => j.a \in Seats \cup {NoSeat} /\ j.left \in SUBSET Seats

\* A request that only notes what it will do.
LEMMA BeginStep ==
    ASSUME TopologyInv, NEW r \in Requests, NEW j,
           Fresh(j), job[r] = Idle, job' = [job EXCEPT ![r] = j],
           UNCHANGED <<workspace, seat, passage, rowLock>>
    PROVE  TopologyInv'
  <1>1. \A q \in Requests : job'[q] = IF q = r THEN j ELSE job[q]
    BY DEF TopologyInv, TopologyShape
  <1>2. TopologyShape'
    BY <1>1 DEF Fresh, TopologyInv, TopologyShape, Connecting
  <1>3. LockedIsLive' /\ NoDanglingPassage'
    BY DEF TopologyInv, LockedIsLive, Locked, Live, NoDanglingPassage
  <1>4. EndsHeld'
    BY <1>1 DEF Fresh, TopologyInv, EndsHeld
  <1>5. \A s \in Seats : rowLock[s] # r
    BY DEF TopologyInv, LocksAccounted, Idle, Job
  <1>6. LocksAccounted'
    BY <1>1, <1>5 DEF TopologyInv, LocksAccounted
  <1> QED
    BY <1>2, <1>3, <1>4, <1>6 DEF TopologyInv

\* The seat of a commit is live afterwards, and no live seat is lost.
LEMMA SeatStep ==
    ASSUME TopologyInv, NEW s \in Seats, NEW p \in Cells,
           seat' = [seat EXCEPT ![s] = [state |-> "live", pos |-> p]],
           Onward, UNCHANGED <<passage, rowLock>>
    PROVE  /\ seat' \in [Seats -> [state : RowState, pos : Cells]]
           /\ LockedIsLive' /\ NoDanglingPassage'
  <1>1. seat' \in [Seats -> [state : RowState, pos : Cells]]
    BY DEF TopologyInv, TopologyShape, RowState
  <1>2. \A q \in Seats : Live(q) => Live(q)'
    BY DEF TopologyInv, TopologyShape, Live
  <1>3. LockedIsLive'
    BY <1>2 DEF TopologyInv, LockedIsLive, Locked
  <1>4. NoDanglingPassage'
    BY <1>2 DEF TopologyInv, NoDanglingPassage, Edges, Onward
  <1> QED
    BY <1>1, <1>3, <1>4

\* A request that is over and has given back its locks disturbs nobody.
LEMMA EndStep ==
    ASSUME TopologyInv, NEW r \in Requests, End(r), Release(r),
           UNCHANGED <<workspace, seat, passage>>
    PROVE  TopologyInv'
  <1>1. \A q \in Requests : job'[q] = IF q = r THEN Idle ELSE job[q]
    BY DEF End, TopologyInv, TopologyShape
  <1>2. \A s \in Seats : rowLock'[s] = IF rowLock[s] = r THEN NoOwner ELSE rowLock[s]
    BY DEF Release
  <1>3. TopologyShape'
    BY <1>1, <1>2 DEF TopologyInv, TopologyShape, Connecting, Idle, Job, End, Release
  <1>4. LockedIsLive' /\ NoDanglingPassage'
    BY <1>2 DEF TopologyInv, LockedIsLive, Locked, Live, NoDanglingPassage
  <1>5. EndsHeld'
    BY <1>1, <1>2 DEF TopologyInv, EndsHeld, TopologyShape, Connecting, Idle, Job
  <1>6. LocksAccounted'
    BY <1>1, <1>2, OwnersAssumption DEF TopologyInv, LocksAccounted
  <1> QED
    BY <1>3, <1>4, <1>5, <1>6 DEF TopologyInv

\* The commit of a seat: the indexes let it through or the request is rolled back.
LEMMA CommitSeatStep ==
    ASSUME TopologyInv, NEW r \in Requests, CommitSeat(r)
    PROVE  TopologyInv'
  <1>1. \A q \in Requests : job'[q] = IF q = r THEN Idle ELSE job[q]
    BY DEF CommitSeat, End, TopologyInv, TopologyShape
  <1>2. DOMAIN job' = Requests /\ UNCHANGED <<workspace, passage, rowLock>>
    BY DEF CommitSeat, End, TopologyInv, TopologyShape
  <1>3. EndsHeld' /\ LocksAccounted'
    <2>1. \A s \in Seats : rowLock[s] # r
      BY DEF CommitSeat, TopologyInv, LocksAccounted
    <2> QED
      BY <1>1, <1>2, <2>1 DEF TopologyInv, EndsHeld, LocksAccounted, Idle, Job
  <1>4. job[r].a \in Seats /\ job[r].pos \in Cells
    BY DEF CommitSeat, TopologyInv, TopologyShape
  <1>5. seat' = seat \/ seat' = [seat EXCEPT ![job[r].a] = [state |-> "live", pos |-> job[r].pos]]
    BY DEF CommitSeat
  <1>6. /\ seat' \in [Seats -> [state : RowState, pos : Cells]]
        /\ LockedIsLive' /\ NoDanglingPassage'
    <2>1. CASE seat' = seat
      BY <1>2, <2>1 DEF TopologyInv, TopologyShape, LockedIsLive, Locked, Live, NoDanglingPassage
    <2>2. CASE seat' = [seat EXCEPT ![job[r].a] = [state |-> "live", pos |-> job[r].pos]]
      BY <1>2, <1>4, <2>2, SeatStep DEF Onward
    <2> QED BY <1>5, <2>1, <2>2
  <1> QED
    BY <1>1, <1>2, <1>3, <1>6 DEF TopologyInv, TopologyShape, Connecting, Idle, Job

\* Only a live seat is locked, and the lock excludes its deletion from then on.
LEMMA LockStep ==
    ASSUME TopologyInv, NEW r \in Requests, LockEnd(r)
    PROVE  TopologyInv'
  <1> DEFINE s == IF job[r].op = "lock" THEN job[r].a ELSE job[r].b
             next == IF job[r].op = "lock" THEN "lock_second" ELSE "check"
  <1>0. /\ s \in Seats /\ ~Locked(s) /\ UNCHANGED <<workspace, seat, passage>>
        /\ job[r].op \in {"lock", "lock_second"}
    BY DEF LockEnd, TopologyInv, TopologyShape, Connecting
  <1>1. CASE ~Live(s)
    BY <1>0, <1>1, EndStep DEF LockEnd
  <1>2. CASE Live(s)
    <2>1. rowLock' = [rowLock EXCEPT ![s] = r] /\ job' = [job EXCEPT ![r].op = next]
      BY <1>2 DEF LockEnd
    <2>2. \A q \in Seats : rowLock'[q] = IF q = s THEN r ELSE rowLock[q]
      BY <1>0, <2>1 DEF TopologyInv, TopologyShape
    <2>3. /\ job'[r].op = next /\ job'[r].a = job[r].a /\ job'[r].b = job[r].b
          /\ job'[r].filed = job[r].filed
          /\ \A q \in Requests \ {r} : job'[q] = job[q]
      BY <2>1 DEF TopologyInv, TopologyShape
    <2>4. rowLock[s] = NoOwner
      BY <1>0 DEF Locked
    <2>5. TopologyShape'
      BY <1>0, <2>1, <2>2, <2>3 DEF TopologyInv, TopologyShape, Connecting
    <2>6. LockedIsLive' /\ NoDanglingPassage'
      BY <1>0, <1>2, <2>2 DEF TopologyInv, LockedIsLive, Locked, Live, NoDanglingPassage
    <2>7. ASSUME NEW q \in Requests
          PROVE  /\ job'[q].op \in {"lock_second", "check", "add", "revive"} => rowLock'[job'[q].a] = q
                 /\ job'[q].op \in {"check", "add", "revive"} => rowLock'[job'[q].b] = q
      <3>1. CASE q = r
        BY <1>0, <2>2, <2>3, <3>1 DEF TopologyInv, EndsHeld, TopologyShape, Connecting
      <3>2. CASE q # r
        BY <2>2, <2>3, <2>4, <3>2, OwnersAssumption DEF TopologyInv, EndsHeld, TopologyShape, Connecting
      <3> QED BY <3>1, <3>2
    <2>8. LocksAccounted'
      BY <1>0, <2>2, <2>3 DEF TopologyInv, LocksAccounted
    <2> QED
      BY <2>5, <2>6, <2>7, <2>8 DEF TopologyInv, EndsHeld
  <1> QED
    BY <1>1, <1>2

LEMMA CheckStep ==
    ASSUME TopologyInv, NEW r \in Requests, CheckPassage(r)
    PROVE  TopologyInv'
  <1>1. UNCHANGED <<workspace, seat, passage>> /\ job[r].op = "check"
    BY DEF CheckPassage
  <1>2. CASE End(r) /\ Release(r)
    BY <1>1, <1>2, EndStep
  <1>3. CASE \E op \in {"revive", "add"} : job' = [job EXCEPT ![r].op = op] /\ UNCHANGED rowLock
    <2>1. PICK op \in {"revive", "add"} : job' = [job EXCEPT ![r].op = op] /\ UNCHANGED rowLock
      BY <1>3
    <2>2. /\ job'[r].op = op /\ job'[r].a = job[r].a /\ job'[r].b = job[r].b
          /\ job'[r].filed = job[r].filed
          /\ \A q \in Requests \ {r} : job'[q] = job[q]
      BY <2>1 DEF TopologyInv, TopologyShape
    <2>3. TopologyShape'
      BY <1>1, <2>1, <2>2 DEF TopologyInv, TopologyShape, Connecting
    <2>4. LockedIsLive' /\ NoDanglingPassage' /\ EndsHeld' /\ LocksAccounted'
      BY <1>1, <2>1, <2>2 DEF TopologyInv, LockedIsLive, Locked, Live, NoDanglingPassage, EndsHeld, LocksAccounted
    <2> QED
      BY <2>3, <2>4 DEF TopologyInv
  <1>4. \/ End(r) /\ Release(r)
        \/ \E op \in {"revive", "add"} : job' = [job EXCEPT ![r].op = op] /\ UNCHANGED rowLock
    BY DEF CheckPassage
  <1> QED
    BY <1>2, <1>3, <1>4

\* The new passage joins the two seats that the request holds, which are live.
LEMMA CommitPassageStep ==
    ASSUME TopologyInv, NEW r \in Requests, CommitPassage(r)
    PROVE  TopologyInv'
  <1> DEFINE a == job[r].a  b == job[r].b  row == [row |-> "live", active |-> TRUE]
             k == <<{a, b}, job[r].filed>>
  <1>1. /\ job[r].op \in {"add", "revive"} /\ passage' = [passage EXCEPT ![k] = row]
        /\ UNCHANGED <<workspace, seat>>
    BY DEF CommitPassage
  <1>2. End(r) /\ Release(r)
    BY DEF CommitPassage
  <1>3. Live(a) /\ Live(b)
    BY <1>1, OwnersAssumption DEF TopologyInv, EndsHeld, LockedIsLive, Locked, TopologyShape, Connecting
  <1>4. \A q \in Requests : job'[q] = IF q = r THEN Idle ELSE job[q]
    BY <1>2 DEF End, TopologyInv, TopologyShape
  <1>5. \A s \in Seats : rowLock'[s] = IF rowLock[s] = r THEN NoOwner ELSE rowLock[s]
    BY <1>2 DEF Release
  <1>6. \A e \in Edges, f \in Filings : passage'[<<e, f>>] = IF <<e, f>> = k THEN row ELSE passage[<<e, f>>]
    BY <1>1 DEF TopologyInv, TopologyShape
  <1>7. passage' \in [Edges \X Filings -> PassageRows]
    BY <1>1 DEF TopologyInv, TopologyShape, PassageRows, RowState
  <1>8. TopologyShape'
    BY <1>1, <1>2, <1>4, <1>5, <1>7 DEF TopologyInv, TopologyShape, Connecting, Idle, Job, End, Release
  <1>9. LockedIsLive'
    BY <1>1, <1>5 DEF TopologyInv, LockedIsLive, Locked, Live
  <1>10. EndsHeld' /\ LocksAccounted'
    BY <1>4, <1>5, OwnersAssumption
       DEF TopologyInv, EndsHeld, LocksAccounted, TopologyShape, Connecting, Idle, Job
  <1>11. NoDanglingPassage'
    <2> SUFFICES ASSUME NEW e \in Edges, NEW f \in Filings, passage'[<<e, f>>].row = "live"
                 PROVE  (\A s \in e : Live(s)') \/ (f = "foreign" /\ workspace' = "deleted")
      BY DEF NoDanglingPassage
    <2>1. CASE <<e, f>> = k
      BY <1>1, <1>3, <2>1 DEF Live
    <2>2. CASE <<e, f>> # k
      BY <1>1, <1>6, <2>2 DEF TopologyInv, NoDanglingPassage, Live
    <2> QED BY <2>1, <2>2
  <1> QED
    BY <1>8, <1>9, <1>10, <1>11 DEF TopologyInv

\* update_passage and delete_passage never bring a deleted row back.
LEMMA PatchStep ==
    ASSUME TopologyInv, NEW r \in Requests, CommitPatch(r)
    PROVE  TopologyInv'
  <1>1. UNCHANGED <<workspace, seat, rowLock>> /\ job' = [job EXCEPT ![r] = Idle]
    BY DEF CommitPatch, End
  <1>2. /\ passage' \in [Edges \X Filings -> PassageRows]
        /\ \A k \in Edges \X Filings : passage'[k].row = "live" => passage[k].row = "live"
    <2> DEFINE k == <<{job[r].a, job[r].b}, job[r].filed>>
               K == Edges \X Filings
    <2>0. passage \in [K -> PassageRows]
      BY DEF TopologyInv, TopologyShape
    <2>1. \/ \E on \in BOOLEAN : passage' = [passage EXCEPT ![k].active = on]
          \/ passage' = [passage EXCEPT ![k].row = "deleted"]
      BY DEF CommitPatch
    <2> HIDE DEF k, K
    <2> SUFFICES /\ passage' \in [K -> PassageRows]
                 /\ \A x \in K : passage'[x].row = "live" => passage[x].row = "live"
      BY DEF K
    <2>2. CASE \E on \in BOOLEAN : passage' = [passage EXCEPT ![k].active = on]
      <3>1. PICK on \in BOOLEAN : passage' = [passage EXCEPT ![k].active = on]
        BY <2>2
      <3> DEFINE old == passage[k]
                 new == [old EXCEPT !.active = on]
      <3>2. k \in K => new \in PassageRows /\ new.row = old.row
        BY <2>0, <3>1 DEF PassageRows
      <3>3. passage' = [passage EXCEPT ![k] = new]
        BY <3>1
      <3> HIDE DEF old, new
      <3>4. k \in K => old = passage[k]
        BY DEF old
      <3> QED
        BY <2>0, <3>2, <3>3, <3>4
    <2>3. CASE passage' = [passage EXCEPT ![k].row = "deleted"]
      <3> DEFINE old == passage[k]
                 new == [old EXCEPT !.row = "deleted"]
      <3>2. k \in K => new \in PassageRows /\ new.row # "live"
        BY <2>0 DEF PassageRows, RowState
      <3>3. passage' = [passage EXCEPT ![k] = new]
        BY <2>3
      <3> HIDE DEF old, new
      <3> QED
        BY <2>0, <3>2, <3>3
    <2> QED BY <2>1, <2>2, <2>3
  <1>3. \A q \in Requests : job'[q] = IF q = r THEN Idle ELSE job[q]
    BY <1>1 DEF TopologyInv, TopologyShape
  <1>4. TopologyShape'
    BY <1>1, <1>2, <1>3 DEF TopologyInv, TopologyShape, Connecting, Idle, Job
  <1>5. \A s \in Seats : rowLock[s] # r
    BY DEF CommitPatch, TopologyInv, LocksAccounted
  <1>6. LockedIsLive' /\ EndsHeld' /\ LocksAccounted'
    BY <1>1, <1>3, <1>5 DEF TopologyInv, LockedIsLive, Locked, Live, EndsHeld, LocksAccounted, Idle, Job
  <1>7. NoDanglingPassage'
    BY <1>1, <1>2 DEF TopologyInv, NoDanglingPassage, Live
  <1> QED
    BY <1>4, <1>6, <1>7 DEF TopologyInv

\* Seats that nobody holds go, and with them every passage that touches them.
LEMMA RemoveStep ==
    ASSUME TopologyInv, NEW gone \in SUBSET Seats, \A s \in gone : ~Locked(s),
           seat' \in [Seats -> [state : RowState, pos : Cells]],
           \A s \in Seats \ gone : Live(s) => Live(s)',
           passage' \in [Edges \X Filings -> PassageRows],
           \A e \in Edges, f \in Filings :
              passage'[<<e, f>>].row = "live" => passage[<<e, f>>].row = "live" /\ e \cap gone = {},
           UNCHANGED <<workspace, rowLock, job>>
    PROVE  TopologyInv'
  <1>1. TopologyShape' /\ EndsHeld' /\ LocksAccounted'
    BY DEF TopologyInv, TopologyShape, EndsHeld, LocksAccounted
  <1>2. LockedIsLive'
    BY DEF TopologyInv, LockedIsLive, Locked
  <1>3. NoDanglingPassage'
    <2> SUFFICES ASSUME NEW e \in Edges, NEW f \in Filings, passage'[<<e, f>>].row = "live",
                        ~(f = "foreign" /\ workspace = "deleted"), NEW s \in e
                 PROVE  Live(s)'
      BY DEF NoDanglingPassage
    <2>1. s \in Seats \ gone /\ Live(s)
      BY DEF TopologyInv, NoDanglingPassage, Edges
    <2> QED BY <2>1
  <1> QED
    BY <1>1, <1>2, <1>3 DEF TopologyInv

LEMMA DeleteStep ==
    ASSUME TopologyInv, NEW s \in Seats, DeleteMembership(s)
    PROVE  TopologyInv'
  <1> DEFINE gone == {s}
  <1>1. /\ ~Locked(s) /\ seat' = [seat EXCEPT ![s].state = "deleted"]
        /\ passage' = PassagesWithout({s}) /\ UNCHANGED <<workspace, rowLock, job>>
    BY DEF DeleteMembership
  <1>2. /\ seat' \in [Seats -> [state : RowState, pos : Cells]]
        /\ \A q \in Seats \ gone : Live(q) => Live(q)'
    BY <1>1 DEF TopologyInv, TopologyShape, RowState, Live
  <1>3. passage' \in [Edges \X Filings -> PassageRows]
    BY <1>1 DEF TopologyInv, TopologyShape, PassagesWithout, PassageRows, RowState
  <1>4. \A e \in Edges, f \in Filings :
           passage'[<<e, f>>].row = "live" => passage[<<e, f>>].row = "live" /\ e \cap gone = {}
    BY <1>1 DEF PassagesWithout
  <1>5. gone \in SUBSET Seats /\ \A q \in gone : ~Locked(q)
    BY <1>1
  <1> HIDE DEF gone
  <1> QED
    BY <1>1, <1>2, <1>3, <1>4, <1>5, RemoveStep

LEMMA MoveStep ==
    ASSUME TopologyInv, NEW s \in Seats, NEW p \in Cells, MoveMembership(s, p)
    PROVE  TopologyInv'
  <1> DEFINE gone == {}
  <1>1. /\ Live(s) /\ seat' = [seat EXCEPT ![s].pos = p]
        /\ UNCHANGED <<workspace, passage, rowLock, job>>
    BY DEF MoveMembership
  <1>2. /\ seat' \in [Seats -> [state : RowState, pos : Cells]]
        /\ \A q \in Seats \ gone : Live(q) => Live(q)'
    BY <1>1 DEF TopologyInv, TopologyShape, RowState, Live
  <1>3. passage' \in [Edges \X Filings -> PassageRows]
    BY <1>1 DEF TopologyInv, TopologyShape
  <1>4. \A e \in Edges, f \in Filings :
           passage'[<<e, f>>].row = "live" => passage[<<e, f>>].row = "live" /\ e \cap gone = {}
    BY <1>1
  <1>5. gone \in SUBSET Seats /\ \A q \in gone : ~Locked(q)
    OBVIOUS
  <1> HIDE DEF gone
  <1> QED
    BY <1>1, <1>2, <1>3, <1>4, <1>5, RemoveStep

LEMMA CreateWorkspaceStep ==
    ASSUME TopologyInv, CreateWorkspace
    PROVE  TopologyInv'
  <1>1. PICK owner \in Seats : seat' = [seat EXCEPT ![owner] = [state |-> "live", pos |-> 0]]
    BY DEF CreateWorkspace
  <1>2. UNCHANGED <<passage, rowLock, job>> /\ Onward
    BY DEF CreateWorkspace, Onward
  <1>3. /\ seat' \in [Seats -> [state : RowState, pos : Cells]]
        /\ LockedIsLive' /\ NoDanglingPassage'
    BY <1>1, <1>2, SeatStep, OriginAssumption
  <1> QED
    BY <1>2, <1>3 DEF TopologyInv, TopologyShape, EndsHeld, LocksAccounted

\* A sweep locks the row it is at, if that is still live, and goes to the next.
LEMMA SweepStep ==
    ASSUME TopologyInv, NEW r \in Requests, SweepSeat(r)
    PROVE  TopologyInv'
  <1> DEFINE s == job[r].a
  <1>1. /\ job[r].op = "sweep" /\ s \in Seats /\ rowLock[s] = NoOwner /\ job[r].left \in SUBSET Seats
        /\ rowLock' = [rowLock EXCEPT ![s] = IF Live(s) THEN r ELSE NoOwner]
        /\ UNCHANGED <<workspace, seat, passage>>
    BY DEF SweepSeat, Locked, TopologyInv, TopologyShape
  <1>2. PICK q \in RowOf(job[r].left) : job' = [job EXCEPT ![r].a = q, ![r].left = @ \ {q}]
    BY DEF SweepSeat
  <1>3. q \in Seats \cup {NoSeat}
    BY <1>1, <1>2 DEF RowOf
  <1>4. /\ job'[r].op = "sweep" /\ job'[r].a = q /\ job'[r].left \in SUBSET Seats
        /\ \A x \in Requests \ {r} : job'[x] = job[x]
    BY <1>1, <1>2 DEF TopologyInv, TopologyShape
  <1>5. \A x \in Seats : rowLock'[x] = IF x = s /\ Live(s) THEN r ELSE rowLock[x]
    BY <1>1 DEF TopologyInv, TopologyShape
  <1>6. TopologyShape'
    BY <1>1, <1>2, <1>3, <1>4 DEF TopologyInv, TopologyShape, Connecting
  <1>7. LockedIsLive' /\ NoDanglingPassage'
    BY <1>1, <1>5 DEF TopologyInv, LockedIsLive, Locked, Live, NoDanglingPassage
  <1>8. EndsHeld'
    <2> SUFFICES ASSUME NEW x \in Requests
                 PROVE  /\ job'[x].op \in {"lock_second", "check", "add", "revive"} => rowLock'[job'[x].a] = x
                        /\ job'[x].op \in {"check", "add", "revive"} => rowLock'[job'[x].b] = x
      BY DEF EndsHeld
    <2>1. CASE x = r
      BY <1>4, <2>1
    <2>2. CASE x # r
      BY <1>1, <1>4, <1>5, <2>2, OwnersAssumption DEF TopologyInv, EndsHeld, TopologyShape, Connecting
    <2> QED BY <2>1, <2>2
  <1>9. LocksAccounted'
    BY <1>4, <1>5 DEF TopologyInv, LocksAccounted
  <1> QED
    BY <1>6, <1>7, <1>8, <1>9 DEF TopologyInv

\* It deletes the rows it has locked, which no creation of a passage holds, and of the
\* passages those that are filed under the workspace.
LEMMA CommitSweepStep ==
    ASSUME TopologyInv, NEW r \in Requests, CommitSweep(r)
    PROVE  TopologyInv'
  <1>1. \A q \in Requests : job'[q] = IF q = r THEN Idle ELSE job[q]
    BY DEF CommitSweep, End, TopologyInv, TopologyShape
  <1>2. \A s \in Seats : rowLock'[s] = IF rowLock[s] = r THEN NoOwner ELSE rowLock[s]
    BY DEF CommitSweep, Release
  <1>3. \A s \in Seats : seat'[s] = IF rowLock[s] = r THEN [seat[s] EXCEPT !.state = "deleted"] ELSE seat[s]
    BY DEF CommitSweep
  <1>4. seat' \in [Seats -> [state : RowState, pos : Cells]]
    BY DEF CommitSweep, TopologyInv, TopologyShape, RowState
  <1>5. /\ passage' \in [Edges \X Filings -> PassageRows]
        /\ \A e \in Edges : passage'[<<e, "own">>].row # "live"
    BY DEF CommitSweep, TopologyInv, TopologyShape, PassageRows, RowState, Filings
  <1>6. TopologyShape'
    BY <1>1, <1>2, <1>4, <1>5
       DEF CommitSweep, TopologyInv, TopologyShape, Connecting, Idle, Job, End, Release
  <1>7. LockedIsLive'
    BY <1>2, <1>3 DEF TopologyInv, LockedIsLive, Locked, Live
  <1>8. EndsHeld'
    BY <1>1, <1>2 DEF TopologyInv, EndsHeld, TopologyShape, Connecting, Idle, Job
  <1>9. LocksAccounted'
    BY <1>1, <1>2, OwnersAssumption DEF TopologyInv, LocksAccounted
  <1>10. NoDanglingPassage'
    BY <1>5 DEF CommitSweep, NoDanglingPassage, Filings
  <1> QED
    BY <1>6, <1>7, <1>8, <1>9, <1>10 DEF TopologyInv

\* The ends in the order of their ids.
LEMMA EndsInOrder ==
    ASSUME NEW a \in Seats, NEW b \in Seats, a # b
    PROVE  LET ends == normalize_endpoints(a, b) IN
           ends[1] \in Seats /\ ends[2] \in Seats /\ ends[1] < ends[2]
  BY SeatsAssumption DEF normalize_endpoints

\* The requests' first steps are all of the form of BeginStep.
LEMMA FirstStep ==
    ASSUME TopologyInv, NEW r \in Requests,
           \/ \E s \in Seats, p \in Cells : CreateMembership(r, s, p)
           \/ \E s \in Seats : IntroduceEntity(r, s)
           \/ \E a, b \in Seats, f \in Filings : CreatePassage(r, a, b, f)
           \/ \E e \in Edges, f \in Filings : PatchPassage(r, e, f)
           \/ DeleteWorkspace(r)
    PROVE  TopologyInv'
  <1>1. CASE \E s \in Seats, p \in Cells : CreateMembership(r, s, p)
    <2>1. PICK s \in Seats, p \in Cells : CreateMembership(r, s, p)
      BY <1>1
    <2>2. PICK op \in {"insert", "restore"} : Begin(r, Job(op, s, NoSeat, p))
      BY <2>1 DEF CreateMembership
    <2> DEFINE j == Job(op, s, NoSeat, p)
    <2>3. Fresh(j)
      BY DEF Job, Fresh
    <2>4. /\ job[r] = Idle /\ job' = [job EXCEPT ![r] = j]
          /\ UNCHANGED <<workspace, seat, passage, rowLock>>
      BY <2>1, <2>2 DEF CreateMembership, Begin
    <2> HIDE DEF j
    <2> QED
      BY <2>3, <2>4, BeginStep
  <1>2. CASE \E s \in Seats : IntroduceEntity(r, s)
    <2>1. PICK s \in Seats, p \in Cells :
             Begin(r, Job("introduce", s, NoSeat, p)) /\ UNCHANGED <<workspace, seat, passage, rowLock>>
      BY <1>2 DEF IntroduceEntity
    <2> DEFINE j == Job("introduce", s, NoSeat, p)
    <2>2. Fresh(j)
      BY DEF Job, Fresh
    <2>3. job[r] = Idle /\ job' = [job EXCEPT ![r] = j]
      BY <2>1 DEF Begin
    <2> HIDE DEF j
    <2> QED
      BY <2>1, <2>2, <2>3, BeginStep
  <1>3. CASE \E a, b \in Seats, f \in Filings : CreatePassage(r, a, b, f)
    <2>1. PICK a, b \in Seats, f \in Filings : CreatePassage(r, a, b, f)
      BY <1>3
    <2> DEFINE ends == normalize_endpoints(a, b)
               j == [Job("lock", ends[1], ends[2], 0) EXCEPT !.filed = f]
    <2>2. ends[1] \in Seats /\ ends[2] \in Seats /\ ends[1] < ends[2]
      BY <2>1, EndsInOrder DEF CreatePassage
    <2>3. /\ job[r] = Idle /\ job' = [job EXCEPT ![r] = j]
          /\ UNCHANGED <<workspace, seat, passage, rowLock>>
      BY <2>1 DEF CreatePassage
    <2>4. j.op = "lock" /\ j.a = ends[1] /\ j.b = ends[2] /\ j.filed = f
      BY DEF Job
    <2> HIDE DEF j, ends
    <2>5. Fresh(j)
      BY <2>2, <2>4 DEF Fresh
    <2> QED
      BY <2>3, <2>5, BeginStep
  <1>4. CASE \E e \in Edges, f \in Filings : PatchPassage(r, e, f)
    <2>1. PICK e \in Edges, f \in Filings, op \in {"activate", "remove"} :
             /\ job[r] = Idle
             /\ job' = [job EXCEPT ![r] = [Job(op, Min(e), Max(e), 0) EXCEPT !.filed = f]]
             /\ UNCHANGED <<workspace, seat, passage, rowLock>>
      BY <1>4 DEF PatchPassage
    <2> DEFINE j == [Job(op, Min(e), Max(e), 0) EXCEPT !.filed = f]
    <2>2. Fresh(j)
      BY DEF Job, Fresh
    <2>3. job' = [job EXCEPT ![r] = j]
      BY <2>1
    <2> HIDE DEF j
    <2> QED
      BY <2>1, <2>2, <2>3, BeginStep
  <1>5. CASE DeleteWorkspace(r)
    <2> DEFINE S == {s \in Seats : Live(s)}
    <2>1. PICK s \in RowOf(S) :
             job' = [job EXCEPT ![r] = [Job("sweep", s, NoSeat, 0) EXCEPT !.left = S \ {s}]]
      BY <1>5 DEF DeleteWorkspace
    <2> DEFINE j == [Job("sweep", s, NoSeat, 0) EXCEPT !.left = S \ {s}]
    <2>2. s \in Seats \cup {NoSeat}
      BY DEF RowOf
    <2>3. Fresh(j)
      BY <2>2 DEF Job, Fresh
    <2>4. /\ job[r] = Idle /\ job' = [job EXCEPT ![r] = j]
          /\ UNCHANGED <<workspace, seat, passage, rowLock>>
      BY <1>5, <2>1 DEF DeleteWorkspace
    <2> HIDE DEF j
    <2> QED
      BY <2>3, <2>4, BeginStep
  <1> QED
    BY <1>1, <1>2, <1>3, <1>4, <1>5

LEMMA TopologyInvStep == TopologyInv /\ [TopologyNext]_topologyVars => TopologyInv'
  <1> SUFFICES ASSUME TopologyInv, [TopologyNext]_topologyVars PROVE TopologyInv'
    OBVIOUS
  <1>1. CASE UNCHANGED topologyVars
    BY <1>1 DEF topologyVars, TopologyInv, TopologyShape, LockedIsLive, Locked, Live, EndsHeld,
                LocksAccounted, NoDanglingPassage
  <1>2. ASSUME NEW r \in Requests, Steps(r) PROVE TopologyInv'
    <2>1. CASE AbortDeadlock(r)
      BY <2>1, EndStep DEF AbortDeadlock
    <2> QED
      BY <1>2, <2>1, CommitSeatStep, SweepStep, CommitSweepStep, LockStep, CheckStep, CommitPassageStep,
         PatchStep DEF Steps
  <1> QED
    BY <1>1, <1>2, FirstStep, DeleteStep, MoveStep, CreateWorkspaceStep DEF TopologyNext

\* Of a set of numbers that is not empty one is the least.
LEMMA LeastOf ==
    ASSUME NEW T \in SUBSET Nat, T # {}
    PROVE  \E x \in T : \A y \in T : ~(y < x)
  <1>1. PICK x \in T : \A y \in T : ~(<<y, x>> \in OpToRel(<, Nat))
    BY NatLessThanWellFounded, WFMin
  <1> QED
    BY <1>1 DEF OpToRel

\* Along a cycle of waiting creations of passages the wanted ends grow, for each of them
\* holds its smaller end and wants its greater one: there is no such cycle.
LEMMA NoCycle == TopologyInv => DeadlockNeedsCascade
  <1> SUFFICES ASSUME TopologyInv, NEW D \in SUBSET Requests, Deadlocked(D),
                      \A r \in D : job[r].op # "sweep"
               PROVE  FALSE
    BY DEF DeadlockNeedsCascade
  <1> DEFINE T == {Wanted(r) : r \in D}
  <1>1. \A r \in D : Holder(r) \in D /\ Wanted(r) \in Seats /\ rowLock[Wanted(r)] = Holder(r)
    BY OwnersAssumption DEF Deadlocked, Holder
  <1>2. T \in SUBSET Nat /\ T # {}
    BY <1>1, SeatsAssumption DEF Deadlocked
  <1> HIDE DEF T
  <1>3. PICK x \in T : \A y \in T : ~(y < x)
    BY <1>2, LeastOf
  <1>4. PICK q \in D : Wanted(q) = x
    BY <1>3 DEF T
  <1>5. PICK r \in D : Holder(r) = q
    BY <1>4 DEF Deadlocked
  <1>6. job[q].op \in {"lock", "lock_second"}
    BY <1>1, <1>4, SeatsAssumption DEF Wanted
  <1>7. job[q].op = "lock_second" /\ Wanted(r) = job[q].a
    BY <1>1, <1>5, <1>6 DEF TopologyInv, LocksAccounted
  <1>8. Wanted(q) = job[q].b /\ job[q].a < job[q].b
    BY <1>7 DEF Wanted, TopologyInv, TopologyShape, Connecting
  <1>9. Wanted(r) \in T
    BY <1>5 DEF T
  <1> QED
    BY <1>3, <1>4, <1>7, <1>8, <1>9

\* The two ends of a passage, as FiniteSetsExt finds them.
LEMMA EndsOfEdge ==
    ASSUME NEW e \in Edges
    PROVE  Min(e) \in Seats /\ Max(e) \in Seats
  <1>1. e \in SUBSET Seats /\ IsFiniteSet(e) /\ Cardinality(e) = 2
    BY SeatsAssumption, FS_Subset DEF Edges
  <1>2. PICK x \in e : TRUE
    BY <1>1, FS_EmptySet
  <1>3. IsFiniteSet(e \ {x}) /\ Cardinality(e \ {x}) = 1
    BY <1>1, <1>2, FS_RemoveElement
  <1>4. PICK y : e \ {x} = {y}
    BY <1>3, FS_Singleton
  <1>5. e = {x, y} /\ x \in Nat /\ y \in Nat
    BY <1>1, <1>2, <1>4, SeatsAssumption
  <1>6. \E c \in e : \A d \in e : c <= d
    BY <1>5
  <1>7. \E c \in e : \A d \in e : c >= d
    BY <1>5
  <1> QED
    BY <1>1, <1>6, <1>7 DEF Min, Max

Jobs == [op : {"idle", "insert", "restore", "introduce", "lock", "lock_second",
               "check", "add", "revive", "activate", "remove", "sweep"},
         a : Seats \cup {NoSeat}, b : Seats \cup {NoSeat}, pos : Cells,
         filed : Filings, left : SUBSET Seats]

\* No two live seats share a position; before the workspace there is no seat,
\* and no request for one.
PlacesApart ==
    /\ \A s, q \in Seats : s # q /\ Live(s) /\ Live(q) => seat[s].pos # seat[q].pos
    /\ workspace = "none" => /\ \A s \in Seats : ~Live(s)
                             /\ \A r \in Requests : job[r].op \notin {"insert", "restore", "introduce"}

TopologyTypes == workspace \in RowState /\ job \in [Requests -> Jobs] /\ PlacesApart

LEMMA TopologyTypesInit == TopologyInit => TopologyTypes
  <1> SUFFICES ASSUME TopologyInit PROVE TopologyTypes
    OBVIOUS
  <1>1. Idle \in Jobs /\ Idle.op = "idle"
    BY OriginAssumption DEF Idle, Job, Jobs, Filings
  <1> QED
    BY <1>1 DEF TopologyInit, TopologyTypes, PlacesApart, Live, RowState

\* A request that begins, goes on or ends keeps its record a record.
LEMMA JobNoted ==
    ASSUME TopologyTypes, NEW r \in Requests, NEW j \in Jobs, job' = [job EXCEPT ![r] = j],
           UNCHANGED <<workspace, seat>>,
           workspace = "none" => j.op \notin {"insert", "restore", "introduce"}
    PROVE  TopologyTypes'
  BY DEF TopologyTypes, PlacesApart, Live

LEMMA BeginTypes ==
    ASSUME TopologyInv, TopologyTypes, NEW r \in Requests,
           \/ \E s \in Seats, p \in Cells : CreateMembership(r, s, p)
           \/ \E s \in Seats : IntroduceEntity(r, s)
           \/ \E a, b \in Seats, f \in Filings : CreatePassage(r, a, b, f)
           \/ \E e \in Edges, f \in Filings : PatchPassage(r, e, f)
           \/ DeleteWorkspace(r)
    PROVE  TopologyTypes'
  <1>1. \E j \in Jobs : /\ job' = [job EXCEPT ![r] = j]
                        /\ workspace = "none" => j.op \notin {"insert", "restore", "introduce"}
    <2>1. CASE \E s \in Seats, p \in Cells : CreateMembership(r, s, p)
      <3>1. PICK s \in Seats, p \in Cells : CreateMembership(r, s, p)
        BY <2>1
      <3>2. PICK op \in {"insert", "restore"} : job' = [job EXCEPT ![r] = Job(op, s, NoSeat, p)]
        BY <3>1 DEF CreateMembership, Begin
      <3>3. Job(op, s, NoSeat, p) \in Jobs
        BY DEF Job, Jobs, Filings
      <3> QED BY <3>1, <3>2, <3>3 DEF CreateMembership
    <2>2. CASE \E s \in Seats : IntroduceEntity(r, s)
      <3>1. PICK s \in Seats, p \in Cells : job' = [job EXCEPT ![r] = Job("introduce", s, NoSeat, p)] /\ workspace = "live"
        BY <2>2 DEF IntroduceEntity, Begin
      <3>2. Job("introduce", s, NoSeat, p) \in Jobs
        BY DEF Job, Jobs, Filings
      <3> QED BY <3>1, <3>2
    <2>3. CASE \E a, b \in Seats, f \in Filings : CreatePassage(r, a, b, f)
      <3>1. PICK a, b \in Seats, f \in Filings : CreatePassage(r, a, b, f)
        BY <2>3
      <3> DEFINE ends == normalize_endpoints(a, b)
                 j == [Job("lock", ends[1], ends[2], 0) EXCEPT !.filed = f]
      <3>2. ends[1] \in Seats /\ ends[2] \in Seats
        BY <3>1, EndsInOrder DEF CreatePassage
      <3>3. j \in Jobs /\ j.op = "lock"
        BY <3>2, OriginAssumption DEF Job, Jobs
      <3> QED BY <3>1, <3>3 DEF CreatePassage
    <2>4. CASE \E e \in Edges, f \in Filings : PatchPassage(r, e, f)
      <3>1. PICK e \in Edges, f \in Filings, op \in {"activate", "remove"} :
               job' = [job EXCEPT ![r] = [Job(op, Min(e), Max(e), 0) EXCEPT !.filed = f]]
        BY <2>4 DEF PatchPassage
      <3> DEFINE j == [Job(op, Min(e), Max(e), 0) EXCEPT !.filed = f]
      <3>2. j \in Jobs /\ j.op = op
        BY EndsOfEdge, OriginAssumption DEF Job, Jobs
      <3> QED BY <3>1, <3>2
    <2>5. CASE DeleteWorkspace(r)
      <3> DEFINE S == {s \in Seats : Live(s)}
      <3>1. PICK s \in RowOf(S) :
               job' = [job EXCEPT ![r] = [Job("sweep", s, NoSeat, 0) EXCEPT !.left = S \ {s}]]
        BY <2>5 DEF DeleteWorkspace
      <3> DEFINE j == [Job("sweep", s, NoSeat, 0) EXCEPT !.left = S \ {s}]
      <3>2. s \in Seats \cup {NoSeat} /\ S \ {s} \in SUBSET Seats
        BY DEF RowOf
      <3>3. j \in Jobs /\ j.op = "sweep"
        BY <3>2, OriginAssumption DEF Job, Jobs, Filings
      <3> QED BY <3>1, <3>3
    <2> QED BY <2>1, <2>2, <2>3, <2>4, <2>5
  <1>2. UNCHANGED <<workspace, seat>>
    BY DEF CreateMembership, IntroduceEntity, CreatePassage, PatchPassage, DeleteWorkspace
  <1> QED
    BY <1>1, <1>2, JobNoted

LEMMA PassageTypes ==
    ASSUME TopologyInv, TopologyTypes, NEW r \in Requests,
           \/ LockEnd(r) \/ CheckPassage(r) \/ CommitPassage(r) \/ CommitPatch(r)
           \/ SweepSeat(r) \/ AbortDeadlock(r)
    PROVE  TopologyTypes'
  <1>0. Idle \in Jobs /\ Idle.op = "idle"
    BY OriginAssumption DEF Idle, Job, Jobs, Filings
  <1>1. UNCHANGED <<workspace, seat>>
    BY DEF LockEnd, CheckPassage, CommitPassage, CommitPatch, SweepSeat, AbortDeadlock
  <1>2. \/ job' = [job EXCEPT ![r] = Idle]
        \/ \E op \in {"lock_second", "check", "revive", "add"} : job' = [job EXCEPT ![r].op = op]
        \/ SweepSeat(r)
    <2>1. CASE LockEnd(r)
      BY <2>1 DEF LockEnd, End
    <2>2. CASE CheckPassage(r)
      BY <2>2 DEF CheckPassage, End
    <2>3. CASE CommitPassage(r) \/ CommitPatch(r) \/ AbortDeadlock(r)
      BY <2>3 DEF CommitPassage, CommitPatch, AbortDeadlock, End
    <2> QED BY <2>1, <2>2, <2>3
  <1>3. CASE job' = [job EXCEPT ![r] = Idle]
    BY <1>0, <1>1, <1>3, JobNoted
  <1>4. ASSUME NEW op \in {"lock_second", "check", "revive", "add"}, job' = [job EXCEPT ![r].op = op]
        PROVE  TopologyTypes'
    <2> DEFINE j == [job[r] EXCEPT !.op = op]
    <2>1. job[r] \in Jobs /\ job' = [job EXCEPT ![r] = j]
      BY <1>4 DEF TopologyTypes
    <2>2. j \in Jobs /\ j.op = op
      BY <2>1 DEF Jobs
    <2> HIDE DEF j
    <2> QED BY <1>1, <2>1, <2>2, JobNoted
  <1>5. CASE SweepSeat(r)
    <2>1. job[r] \in Jobs /\ job[r].op = "sweep" /\ job \in [Requests -> Jobs]
      BY <1>5 DEF SweepSeat, TopologyTypes
    <2>2. PICK q \in RowOf(job[r].left) : job' = [job EXCEPT ![r].a = q, ![r].left = @ \ {q}]
      BY <1>5 DEF SweepSeat
    <2>3. q \in Seats \cup {NoSeat}
      BY <2>1, <2>2 DEF RowOf, Jobs
    <2> DEFINE j == [job[r] EXCEPT !.a = q, !.left = @ \ {q}]
    <2>4. j \in Jobs /\ j.op = "sweep"
      BY <2>1, <2>3 DEF Jobs
    <2>5. job' = [job EXCEPT ![r] = j]
      BY <2>1, <2>2
    <2> HIDE DEF j
    <2> QED BY <1>1, <2>4, <2>5, JobNoted
  <1> QED BY <1>2, <1>3, <1>4, <1>5

\* The unique index on the position decides whose commit goes through.
LEMMA SeatTypes ==
    ASSUME TopologyInv, TopologyTypes, NEW r \in Requests, CommitSeat(r)
    PROVE  TopologyTypes'
  <1> DEFINE s == job[r].a
             p == job[r].pos
  <1>0. /\ Idle \in Jobs /\ Idle.op = "idle" /\ s \in Seats
        /\ workspace # "none"
    <2>1. Idle \in Jobs /\ Idle.op = "idle"
      BY OriginAssumption DEF Idle, Job, Jobs, Filings
    <2>2. s \in Seats /\ workspace # "none"
      BY DEF CommitSeat, TopologyInv, TopologyShape, TopologyTypes, PlacesApart
    <2> QED BY <2>1, <2>2
  <1>1. job' = [job EXCEPT ![r] = Idle] /\ workspace' = workspace
    BY DEF CommitSeat, End
  <1>2. \/ seat' = seat
        \/ /\ \A q \in Seats \ {s} : Live(q) => seat[q].pos # p
           /\ seat' = [seat EXCEPT ![s] = [state |-> "live", pos |-> p]]
    BY DEF CommitSeat
  <1>3. CASE seat' = seat
    BY <1>0, <1>1, <1>3, JobNoted
  <1>4. CASE /\ \A q \in Seats \ {s} : Live(q) => seat[q].pos # p
             /\ seat' = [seat EXCEPT ![s] = [state |-> "live", pos |-> p]]
    <2>1. seat'[s].pos = p /\ \A q \in Seats \ {s} : seat'[q] = seat[q]
      BY <1>0, <1>4 DEF TopologyInv, TopologyShape
    <2>2. \A x, y \in Seats : x # y /\ seat'[x].state = "live" /\ seat'[y].state = "live" => seat'[x].pos # seat'[y].pos
      BY <1>4, <2>1 DEF TopologyTypes, PlacesApart, Live
    <2>3. job' \in [Requests -> Jobs]
      BY <1>0, <1>1 DEF TopologyTypes
    <2> QED
      BY <1>0, <1>1, <2>2, <2>3 DEF TopologyTypes, PlacesApart, Live
  <1> QED BY <1>2, <1>3, <1>4

LEMMA PlaceTypes ==
    ASSUME TopologyInv, TopologyTypes,
           \/ CreateWorkspace
           \/ \E s \in Seats : DeleteMembership(s) \/ \E p \in Cells : MoveMembership(s, p)
    PROVE  TopologyTypes'
  <1>0. seat \in [Seats -> [state : RowState, pos : Cells]] /\ job \in [Requests -> Jobs] /\ job' = job
    BY DEF TopologyInv, TopologyShape, TopologyTypes, CreateWorkspace, DeleteMembership, MoveMembership
  <1>1. CASE CreateWorkspace
    <2>1. PICK owner \in Seats : seat' = [seat EXCEPT ![owner] = [state |-> "live", pos |-> 0]]
      BY <1>1 DEF CreateWorkspace
    <2>2. \A s \in Seats \ {owner} : seat'[s].state # "live"
      BY <1>0, <1>1, <2>1 DEF CreateWorkspace, TopologyTypes, PlacesApart, Live
    <2> QED
      BY <1>0, <1>1, <2>2 DEF CreateWorkspace, TopologyTypes, PlacesApart, Live, RowState
  <1>2. ASSUME NEW s \in Seats, NEW p \in Cells, MoveMembership(s, p) PROVE TopologyTypes'
    <2>1. /\ seat' = [seat EXCEPT ![s].pos = p] /\ seat[s].state = "live" /\ workspace' = workspace
          /\ \A q \in Seats : seat[q].state = "live" => seat[q].pos # p
      BY <1>2 DEF MoveMembership, Free, Live
    <2>2. seat'[s].pos = p /\ seat'[s].state = "live" /\ \A q \in Seats \ {s} : seat'[q] = seat[q]
      BY <1>0, <2>1
    <2>3. \A x, y \in Seats : x # y /\ seat'[x].state = "live" /\ seat'[y].state = "live" => seat'[x].pos # seat'[y].pos
      BY <2>1, <2>2 DEF TopologyTypes, PlacesApart, Live
    <2> QED
      BY <1>0, <2>1, <2>3 DEF TopologyTypes, PlacesApart, Live
  <1>3. ASSUME NEW s \in Seats, DeleteMembership(s) PROVE TopologyTypes'
    <2>1. seat' = [seat EXCEPT ![s].state = "deleted"] /\ workspace' = workspace
      BY <1>3 DEF DeleteMembership
    <2>2. \A q \in Seats : seat'[q].pos = seat[q].pos /\ (seat'[q].state = "live" => seat[q].state = "live")
      BY <1>0, <2>1
    <2> QED
      BY <1>0, <2>1, <2>2 DEF TopologyTypes, PlacesApart, Live
  <1> QED BY <1>1, <1>2, <1>3

LEMMA SweepTypes ==
    ASSUME TopologyInv, TopologyTypes, NEW r \in Requests, CommitSweep(r)
    PROVE  TopologyTypes'
  <1>1. Idle \in Jobs /\ Idle.op = "idle"
    BY OriginAssumption DEF Idle, Job, Jobs, Filings
  <1>2. \A s \in Seats : seat'[s].pos = seat[s].pos /\ (seat'[s].state = "live" => seat[s].state = "live")
    BY DEF CommitSweep, TopologyInv, TopologyShape
  <1>3. job' = [job EXCEPT ![r] = Idle] /\ workspace' = "deleted"
    BY DEF CommitSweep, End
  <1> QED
    BY <1>1, <1>2, <1>3 DEF TopologyTypes, PlacesApart, Live, RowState

LEMMA TopologyTypesStep == TopologyInv /\ TopologyTypes /\ [TopologyNext]_topologyVars => TopologyTypes'
  <1> SUFFICES ASSUME TopologyInv, TopologyTypes, [TopologyNext]_topologyVars PROVE TopologyTypes'
    OBVIOUS
  <1>1. CASE UNCHANGED topologyVars
    BY <1>1 DEF topologyVars, TopologyTypes, PlacesApart, Live
  <1>2. ASSUME NEW r \in Requests, Steps(r) PROVE TopologyTypes'
    BY <1>2, SeatTypes, PassageTypes, SweepTypes DEF Steps
  <1>3. CASE TopologyNext
    BY <1>2, <1>3, BeginTypes, PlaceTypes DEF TopologyNext
  <1> QED
    BY <1>1, <1>3

-----------------------------------------------------------------------------
(* Schedules                                                               *)

\* A row that is due has been counted once more than it was fired.
FiredBelow ==
    \A s \in Schedules :
        /\ fired[s] <= dueTimes[s]
        /\ schedule[s].next = "due" => fired[s] < dueTimes[s]

\* What a tick has locked is still due: no request changes a locked row.
LockedIsDue == \A w \in Workers : \A s \in tick[w] : schedule[s].exists /\ schedule[s].next = "due"

BrainstemInv == BrainstemTypeOK /\ FiredBelow /\ LockedIsDue

ScheduleRows == [exists : BOOLEAN, enabled : BOOLEAN, cron : {"ok", "invalid"},
                 payload : Payloads, next : {"null", "future", "due"}]

LEMMA BrainstemInitInv == BrainstemInit => BrainstemInv
  BY DueAssumption DEF BrainstemInit, BrainstemInv, BrainstemTypeOK, FiredBelow, LockedIsDue, NoSchedule, Payloads

\* A change of one unlocked row that plans it anew, or leaves its time alone.
LEMMA EditStep ==
    ASSUME BrainstemInv, NEW s \in Schedules,
           CreateSchedule(s) \/ UpdateSchedule(s) \/ DeleteSchedule(s)
    PROVE  BrainstemInv'
  <1>0. /\ schedule \in [Schedules -> ScheduleRows] /\ dueTimes \in [Schedules -> 0..MaxDue]
        /\ fired \in [Schedules -> Nat] /\ tick \in [Workers -> SUBSET Schedules]
    BY DEF BrainstemInv, BrainstemTypeOK, ScheduleRows
  <1>1. \E row \in ScheduleRows :
           /\ schedule' = [schedule EXCEPT ![s] = row]
           /\ row.next = "due" => schedule[s].next = "due"
    <2>1. CASE CreateSchedule(s)
      BY <2>1 DEF CreateSchedule, NextRun, ScheduleRows
    <2>2. CASE UpdateSchedule(s)
      BY <1>0, <2>2 DEF UpdateSchedule, NextRun, ScheduleRows
    <2>3. CASE DeleteSchedule(s)
      <3>1. NoSchedule \in ScheduleRows /\ NoSchedule.next # "due"
        BY DEF NoSchedule, ScheduleRows, Payloads
      <3> QED
        BY <2>3, <3>1 DEF DeleteSchedule
    <2> QED BY <2>1, <2>2, <2>3
  <1>2. UNCHANGED <<dueTimes, fired, tick>>
    BY DEF CreateSchedule, UpdateSchedule, DeleteSchedule
  <1>3. PICK row \in ScheduleRows :
           /\ schedule' = [schedule EXCEPT ![s] = row]
           /\ row.next = "due" => schedule[s].next = "due"
    BY <1>1
  <1>4. BrainstemTypeOK'
    BY <1>0, <1>2, <1>3 DEF BrainstemInv, BrainstemTypeOK, ScheduleRows
  <1>5. FiredBelow'
    BY <1>0, <1>2, <1>3 DEF BrainstemInv, FiredBelow
  <1>6. \A w \in Workers : s \notin tick[w]
    <2>1. CASE CreateSchedule(s)
      BY <2>1 DEF CreateSchedule, BrainstemInv, LockedIsDue
    <2>2. CASE UpdateSchedule(s) \/ DeleteSchedule(s)
      BY <2>2 DEF UpdateSchedule, DeleteSchedule, LockedRows
    <2> QED BY <2>1, <2>2
  <1>7. LockedIsDue'
    BY <1>0, <1>2, <1>3, <1>6 DEF BrainstemInv, LockedIsDue
  <1> QED
    BY <1>4, <1>5, <1>7 DEF BrainstemInv

LEMMA DueStep ==
    ASSUME BrainstemInv, NEW s \in Schedules, BecomesDue(s)
    PROVE  BrainstemInv'
  <1>0. /\ schedule \in [Schedules -> ScheduleRows] /\ dueTimes \in [Schedules -> 0..MaxDue]
        /\ fired \in [Schedules -> Nat] /\ tick \in [Workers -> SUBSET Schedules]
    BY DEF BrainstemInv, BrainstemTypeOK, ScheduleRows
  <1>1. /\ schedule' = [schedule EXCEPT ![s].next = "due"] /\ dueTimes[s] < MaxDue
        /\ dueTimes' = [dueTimes EXCEPT ![s] = @ + 1] /\ UNCHANGED <<fired, tick>>
    BY DEF BecomesDue
  <1>2. BrainstemTypeOK'
    <2>1. schedule' \in [Schedules -> ScheduleRows]
      BY <1>0, <1>1 DEF ScheduleRows
    <2>2. dueTimes' \in [Schedules -> 0..MaxDue]
      BY <1>0, <1>1, DueAssumption
    <2> QED
      BY <1>1, <2>1, <2>2 DEF BrainstemInv, BrainstemTypeOK, ScheduleRows
  <1>3. FiredBelow'
    BY <1>0, <1>1 DEF BrainstemInv, FiredBelow
  <1>4. LockedIsDue'
    BY <1>0, <1>1 DEF BrainstemInv, LockedIsDue, ScheduleRows
  <1> QED
    BY <1>2, <1>3, <1>4 DEF BrainstemInv

LEMMA SelectStep ==
    ASSUME BrainstemInv, NEW w \in Workers, SelectDue(w)
    PROVE  BrainstemInv'
  <1>0. tick \in [Workers -> SUBSET Schedules]
    BY DEF BrainstemInv, BrainstemTypeOK
  <1>1. tick' = [tick EXCEPT ![w] = Due \ LockedRows] /\ UNCHANGED <<schedule, dueTimes, fired>>
    BY DEF SelectDue
  <1>2. tick' \in [Workers -> SUBSET Schedules]
    BY <1>0, <1>1 DEF Due
  <1>3. \A v, u \in Workers : v # u => tick'[v] \cap tick'[u] = {}
    BY <1>0, <1>1 DEF BrainstemInv, BrainstemTypeOK, LockedRows
  <1>4. BrainstemTypeOK' /\ FiredBelow'
    BY <1>1, <1>2, <1>3 DEF BrainstemInv, BrainstemTypeOK, FiredBelow
  <1>5. LockedIsDue'
    BY <1>0, <1>1 DEF BrainstemInv, LockedIsDue, Due
  <1> QED
    BY <1>4, <1>5 DEF BrainstemInv

\* The commit fires each locked row once and plans it again in the same transaction.
LEMMA FireStep ==
    ASSUME BrainstemInv, NEW w \in Workers, FireAll(w)
    PROVE  BrainstemInv'
  <1>0. /\ schedule \in [Schedules -> ScheduleRows] /\ dueTimes \in [Schedules -> 0..MaxDue]
        /\ fired \in [Schedules -> Nat] /\ tick \in [Workers -> SUBSET Schedules]
        /\ \A v, u \in Workers : v # u => tick[v] \cap tick[u] = {}
    BY DEF BrainstemInv, BrainstemTypeOK, ScheduleRows
  <1>1. /\ schedule' = [s \in Schedules |-> IF s \in tick[w]
                                            THEN [schedule[s] EXCEPT !.next = NextRun(schedule[s].cron)]
                                            ELSE schedule[s]]
        /\ fired' = [s \in Schedules |-> IF s \in tick[w] /\ schedule[s].payload = "deliver"
                                         THEN fired[s] + 1 ELSE fired[s]]
        /\ tick' = [tick EXCEPT ![w] = {}] /\ dueTimes' = dueTimes
    BY DEF FireAll
  <1>2. schedule' \in [Schedules -> ScheduleRows]
    BY <1>0, <1>1 DEF ScheduleRows, NextRun
  <1>3. fired' \in [Schedules -> Nat]
    BY <1>0, <1>1
  <1>4. tick' \in [Workers -> SUBSET Schedules]
        /\ \A v, u \in Workers : v # u => tick'[v] \cap tick'[u] = {}
    BY <1>0, <1>1
  <1>5. BrainstemTypeOK'
    BY <1>0, <1>1, <1>2, <1>3, <1>4 DEF BrainstemTypeOK, ScheduleRows
  <1>6. FiredBelow'
    <2> SUFFICES ASSUME NEW s \in Schedules
                 PROVE  fired'[s] <= dueTimes[s] /\ (schedule'[s].next = "due" => fired'[s] < dueTimes[s])
      BY <1>1 DEF FiredBelow
    <2>1. fired[s] \in Nat /\ dueTimes[s] \in Nat
      BY <1>0
    <2>2. CASE s \in tick[w]
      <3>1. fired[s] < dueTimes[s] /\ fired'[s] <= fired[s] + 1 /\ fired'[s] \in Nat
        BY <1>0, <1>1, <1>3, <2>1, <2>2 DEF BrainstemInv, FiredBelow, LockedIsDue
      <3>2. schedule'[s].next # "due"
        BY <1>0, <1>1, <2>2 DEF NextRun, ScheduleRows
      <3> QED BY <2>1, <3>1, <3>2
    <2>3. CASE s \notin tick[w]
      BY <1>1, <2>3 DEF BrainstemInv, FiredBelow
    <2> QED BY <2>2, <2>3
  <1>7. LockedIsDue'
    BY <1>0, <1>1 DEF BrainstemInv, LockedIsDue
  <1> QED
    BY <1>5, <1>6, <1>7 DEF BrainstemInv

LEMMA LostStep ==
    ASSUME BrainstemInv, NEW w \in Workers, TickLost(w)
    PROVE  BrainstemInv'
  <1>1. tick' = [tick EXCEPT ![w] = {}] /\ UNCHANGED <<schedule, dueTimes, fired>>
    BY DEF TickLost
  <1> QED
    BY <1>1 DEF BrainstemInv, BrainstemTypeOK, FiredBelow, LockedIsDue

LEMMA BrainstemInvStep == BrainstemInv /\ [BrainstemNext]_brainstemVars => BrainstemInv'
  <1> SUFFICES ASSUME BrainstemInv, [BrainstemNext]_brainstemVars PROVE BrainstemInv'
    OBVIOUS
  <1>1. CASE UNCHANGED brainstemVars
    BY <1>1 DEF brainstemVars, BrainstemInv, BrainstemTypeOK, FiredBelow, LockedIsDue
  <1> QED
    BY <1>1, EditStep, DueStep, SelectStep, FireStep, LostStep DEF BrainstemNext

-----------------------------------------------------------------------------
(* Meetings                                                                *)

MeetingCalls == [op : {"idle", "start", "end", "cancel"}, read : MeetingStatus \cup {"none"},
                 todo : SUBSET Participants, staged : SUBSET (Participants \X Notices)]

\* A seat of which a set of notices speaks.
Told(p, S) == \E n \in Notices : <<p, n>> \in S

\* An action under way has read a status it may leave; one that starts has every
\* invited seat before it or behind it; one that ends found the seats told.
CallsFollowChecks ==
    \A r \in MeetingRequests :
        /\ mcall[r].op # "idle" => mcall[r].read \in {"scheduled", "active"}
        /\ meeting.status = "none" => mcall[r].op = "idle"
        /\ mcall[r].op = "start" => \A p \in invited : p \in mcall[r].todo \/ Told(p, mcall[r].staged)
        /\ mcall[r].op = "end" => \A p \in invited : Told(p, notice)

MeetingsInv ==
    /\ MeetingsTypeOK /\ mcall \in [MeetingRequests -> MeetingCalls]
    /\ CallsFollowChecks /\ EverySeatAccounted

LEMMA MeetingsInitInv == MeetingsInit => MeetingsInv
  <1> SUFFICES ASSUME MeetingsInit PROVE MeetingsInv
    OBVIOUS
  <1>1. NoCall \in MeetingCalls /\ NoCall.op = "idle"
    BY DEF NoCall, MeetingCalls
  <1> QED
    BY <1>1 DEF MeetingsInit, MeetingsInv, MeetingsTypeOK, MeetingCalls, CallsFollowChecks, EverySeatAccounted

\* The calls' types carry those of the type invariant.
LEMMA MeetingsTyped ==
    ASSUME mcall' \in [MeetingRequests -> MeetingCalls], invited' \subseteq Participants,
           notice' \subseteq Participants \X Notices,
           meeting' \in [status : MeetingStatus \cup {"none"}, ended : BOOLEAN],
           meeting'.status = "ended" => meeting'.ended
    PROVE  MeetingsTypeOK'
  BY DEF MeetingsTypeOK, MeetingCalls

LEMMA CreateMeetingStep ==
    ASSUME MeetingsInv, NEW S \in SUBSET Participants, CreateMeeting(S)
    PROVE  MeetingsInv'
  <1>1. /\ meeting.status = "none" /\ meeting' = [meeting EXCEPT !.status = "scheduled"]
        /\ invited' = S /\ UNCHANGED <<notice, mcall>>
    BY DEF CreateMeeting
  <1>2. meeting' \in [status : MeetingStatus \cup {"none"}, ended : BOOLEAN] /\ meeting'.status = "scheduled"
    BY <1>1 DEF MeetingsInv, MeetingsTypeOK, MeetingStatus
  <1>3. \A r \in MeetingRequests : mcall[r].op = "idle"
    BY <1>1 DEF MeetingsInv, CallsFollowChecks
  <1>4. MeetingsTypeOK'
    BY <1>1, <1>2, MeetingsTyped DEF MeetingsInv, MeetingsTypeOK
  <1>5. CallsFollowChecks' /\ EverySeatAccounted'
    BY <1>1, <1>2, <1>3 DEF CallsFollowChecks, EverySeatAccounted
  <1> QED
    BY <1>1, <1>4, <1>5 DEF MeetingsInv

LEMMA AcceptStep ==
    ASSUME MeetingsInv, NEW r \in MeetingRequests, NEW op \in {"start", "end", "cancel"}, Accept(r, op)
    PROVE  MeetingsInv'
  <1> DEFINE c == [op |-> op, read |-> meeting.status, staged |-> {}, todo |-> IF op = "start" THEN invited ELSE {}]
  <1>1. mcall' = [mcall EXCEPT ![r] = c] /\ UNCHANGED <<meeting, invited, notice>>
    BY DEF Accept
  <1>2. meeting.status \in {"scheduled", "active"} /\ (op = "end" => meeting.status = "active")
    BY DEF Accept, Allowed
  <1>3. c \in MeetingCalls
    BY DEF MeetingCalls, MeetingsInv, MeetingsTypeOK
  <1>4. c.op = op /\ c.read = meeting.status /\ (op = "start" => c.todo = invited)
    OBVIOUS
  <1> HIDE DEF c
  <1>5. mcall' \in [MeetingRequests -> MeetingCalls]
    BY <1>1, <1>3 DEF MeetingsInv
  <1>6. MeetingsTypeOK'
    BY <1>1, <1>5, MeetingsTyped DEF MeetingsInv, MeetingsTypeOK
  <1>7. EverySeatAccounted'
    BY <1>1 DEF MeetingsInv, EverySeatAccounted
  <1>8. op = "end" => \A p \in invited : Told(p, notice)
    BY <1>2 DEF MeetingsInv, EverySeatAccounted, Told
  <1>9. CallsFollowChecks'
    BY <1>1, <1>2, <1>4, <1>8 DEF MeetingsInv, CallsFollowChecks, Told
  <1> QED
    BY <1>5, <1>6, <1>7, <1>9 DEF MeetingsInv

\* A seat leaves the round of wakes only with a notice.
LEMMA WakeStep ==
    ASSUME MeetingsInv, NEW r \in MeetingRequests, NEW p \in Participants, WakeParticipant(r, p)
    PROVE  MeetingsInv'
  <1>1. \A body \in Bodies : WakeOutcome(body) \subseteq Notices
    BY DEF Bodies, WakeOutcome, Notices
  <1>2. PICK n \in Notices :
           mcall' = [mcall EXCEPT ![r].todo = @ \ {p}, ![r].staged = @ \cup {<<p, n>>}]
    BY <1>1 DEF WakeParticipant
  <1>3. mcall[r].op = "start" /\ UNCHANGED <<meeting, invited, notice>>
    BY DEF WakeParticipant
  <1> DEFINE c == [mcall[r] EXCEPT !.todo = @ \ {p}, !.staged = @ \cup {<<p, n>>}]
  <1>4. mcall[r] \in MeetingCalls /\ mcall' = [mcall EXCEPT ![r] = c]
    BY <1>2 DEF MeetingsInv
  <1>5. /\ c \in MeetingCalls /\ c.op = mcall[r].op /\ c.read = mcall[r].read
        /\ c.todo = mcall[r].todo \ {p} /\ c.staged = mcall[r].staged \cup {<<p, n>>}
    <2>1. mcall[r].todo \ {p} \in SUBSET Participants /\ mcall[r].staged \cup {<<p, n>>} \in SUBSET (Participants \X Notices)
      BY <1>4 DEF MeetingCalls
    <2>2. c = [mcall[r] EXCEPT !.todo = mcall[r].todo \ {p}, !.staged = mcall[r].staged \cup {<<p, n>>}]
      BY <1>4 DEF MeetingCalls
    <2> DEFINE T == mcall[r].todo \ {p}
               G == mcall[r].staged \cup {<<p, n>>}
    <2> HIDE DEF T, G, c
    <2>3. c = [mcall[r] EXCEPT !.todo = T, !.staged = G]
      BY <2>2 DEF T, G
    <2>4. /\ c \in MeetingCalls /\ c.op = mcall[r].op /\ c.read = mcall[r].read
          /\ c.todo = T /\ c.staged = G
      BY <1>4, <2>1, <2>3 DEF MeetingCalls, T, G
    <2> QED BY <2>4 DEF T, G
  <1> HIDE DEF c
  <1>6. mcall' \in [MeetingRequests -> MeetingCalls]
    BY <1>4, <1>5 DEF MeetingsInv
  <1>7. MeetingsTypeOK'
    BY <1>3, <1>6, MeetingsTyped DEF MeetingsInv, MeetingsTypeOK
  <1>8. EverySeatAccounted'
    BY <1>3 DEF MeetingsInv, EverySeatAccounted
  <1>9. \A x \in invited : x \in c.todo \/ Told(x, c.staged)
    BY <1>3, <1>5 DEF MeetingsInv, CallsFollowChecks, Told
  <1>10. \A q \in MeetingRequests : mcall'[q] = IF q = r THEN c ELSE mcall[q]
    BY <1>4 DEF MeetingsInv
  <1>11. CallsFollowChecks'
    BY <1>3, <1>5, <1>9, <1>10 DEF MeetingsInv, CallsFollowChecks, Told
  <1> QED
    BY <1>6, <1>7, <1>8, <1>11 DEF MeetingsInv

LEMMA CommitActionStep ==
    ASSUME MeetingsInv, NEW r \in MeetingRequests, CommitAction(r)
    PROVE  MeetingsInv'
  <1>1. /\ mcall' = [mcall EXCEPT ![r] = NoCall] /\ notice' = notice \cup mcall[r].staged /\ invited' = invited
        /\ mcall[r].op \in {"start", "end", "cancel"} /\ mcall[r].todo = {} /\ mcall[r] \in MeetingCalls
    BY DEF CommitAction, MeetingsInv, MeetingCalls
  <1>2. /\ meeting \in [status : MeetingStatus \cup {"none"}, ended : BOOLEAN]
        /\ meeting.status # "none" /\ (meeting.status = "ended" => meeting.ended)
    BY <1>1 DEF MeetingsInv, MeetingsTypeOK, CallsFollowChecks
  <1>3. /\ meeting' \in [status : MeetingStatus \cup {"none"}, ended : BOOLEAN]
        /\ meeting'.status = CASE mcall[r].op = "start" -> "active" [] mcall[r].op = "end" -> "ended"
                               [] mcall[r].op = "cancel" -> "cancelled"
        /\ meeting'.status = "ended" => meeting'.ended
    <2>1. CASE mcall[r].op = "start"
      BY <1>2, <2>1 DEF CommitAction, StartedMeeting, MeetingStatus
    <2>2. CASE mcall[r].op = "end"
      BY <1>2, <2>2 DEF CommitAction, EndedMeeting, MeetingStatus
    <2>3. CASE mcall[r].op = "cancel"
      BY <1>2, <2>3 DEF CommitAction, CancelledMeeting, MeetingStatus
    <2> QED BY <1>1, <2>1, <2>2, <2>3
  <1>4. NoCall \in MeetingCalls /\ NoCall.op = "idle"
    BY DEF NoCall, MeetingCalls
  <1>5. mcall' \in [MeetingRequests -> MeetingCalls] /\ notice' \subseteq Participants \X Notices
    BY <1>1, <1>4 DEF MeetingsInv, MeetingsTypeOK, MeetingCalls
  <1>6. MeetingsTypeOK'
    BY <1>1, <1>3, <1>5, MeetingsTyped DEF MeetingsInv, MeetingsTypeOK
  <1>7. \A p \in invited : Told(p, notice) => Told(p, notice')
    BY <1>1 DEF Told
  <1>8. mcall[r].op \in {"start", "end"} => \A p \in invited : Told(p, notice')
    <2>1. mcall[r].op = "start" => \A p \in invited : Told(p, mcall[r].staged)
      BY <1>1 DEF MeetingsInv, CallsFollowChecks
    <2>2. mcall[r].op = "end" => \A p \in invited : Told(p, notice)
      BY DEF MeetingsInv, CallsFollowChecks
    <2> QED
      BY <1>1, <1>7, <2>1, <2>2 DEF Told
  <1>9. EverySeatAccounted'
    BY <1>1, <1>3, <1>8 DEF EverySeatAccounted, Told
  <1>10. \A q \in MeetingRequests : mcall'[q] = IF q = r THEN NoCall ELSE mcall[q]
    BY <1>1 DEF MeetingsInv
  <1>11. meeting'.status # "none"
    BY <1>1, <1>3
  <1>12. CallsFollowChecks'
    BY <1>1, <1>4, <1>7, <1>10, <1>11 DEF MeetingsInv, CallsFollowChecks
  <1> QED
    BY <1>5, <1>6, <1>9, <1>12 DEF MeetingsInv

LEMMA MeetingsInvStep == MeetingsInv /\ [MeetingsNext]_meetingVars => MeetingsInv'
  <1> SUFFICES ASSUME MeetingsInv, [MeetingsNext]_meetingVars PROVE MeetingsInv'
    OBVIOUS
  <1>1. CASE UNCHANGED meetingVars
    BY <1>1 DEF meetingVars, MeetingsInv, MeetingsTypeOK, CallsFollowChecks, EverySeatAccounted
  <1> QED
    BY <1>1, CreateMeetingStep, AcceptStep, WakeStep, CommitActionStep DEF MeetingsNext

\* Only a commit leaves a finished meeting, and it has read another status.
LEMMA ReopenStep ==
    ASSUME MeetingsInv, [MeetingsNext]_meetingVars,
           meeting.status \in {"ended", "cancelled"}, meeting'.status # meeting.status
    PROVE  \E r \in MeetingRequests : /\ mcall[r].op # "idle" /\ mcall'[r].op = "idle"
                                      /\ mcall[r].read # meeting.status
  <1>1. PICK r \in MeetingRequests : CommitAction(r)
    <2>1. meeting' # meeting
      OBVIOUS
    <2> QED
      BY <2>1 DEF MeetingsNext, meetingVars, CreateMeeting, Accept, WakeParticipant
  <1>2. mcall[r].op # "idle" /\ mcall'[r].op = "idle"
    BY <1>1 DEF CommitAction, MeetingsInv, NoCall
  <1>3. mcall[r].read # meeting.status
    BY <1>2 DEF MeetingsInv, CallsFollowChecks
  <1> QED BY <1>2, <1>3

-----------------------------------------------------------------------------
(* The services together                                                   *)

IInv == TopologyInv /\ TopologyTypes /\ BrainstemInv /\ MeetingsInv

LEMMA InitInv == Init => IInv
  BY TopologyInitInv, TopologyTypesInit, BrainstemInitInv, MeetingsInitInv DEF Init, IInv

\* Every step is a step of one of the services and leaves the others.
LEMMA StepsOfServices ==
    ASSUME [Next]_vars
    PROVE  [TopologyNext]_topologyVars /\ [BrainstemNext]_brainstemVars /\ [MeetingsNext]_meetingVars
  BY DEF Next, vars

LEMMA InvStep == IInv /\ [Next]_vars => IInv'
  BY StepsOfServices, TopologyInvStep, TopologyTypesStep, BrainstemInvStep, MeetingsInvStep DEF IInv

LEMMA Invariant == Spec => []IInv
  BY InitInv, InvStep, PTL DEF Spec

\* Requests that create and delete passages and seats concurrently leave no passage
\* on a deleted seat: create_passage locks both memberships FOR UPDATE before it looks
\* at them, and delete_membership cleans up the passages after its own update; only
\* passages filed under another workspace survive delete_workspace.
THEOREM PassagesAnchored == Spec => []NoDanglingPassage
  <1>1. IInv => NoDanglingPassage
    BY DEF IInv, TopologyInv
  <1> QED
    BY <1>1, Invariant, PTL

\* Requests that lock memberships wait for each other in a circle only with a
\* delete_workspace among them: create_passage locks its ends in the order of their ids.
THEOREM CascadeOnly == Spec => []DeadlockNeedsCascade
  <1>1. IInv => DeadlockNeedsCascade
    BY NoCycle DEF IInv
  <1> QED
    BY <1>1, Invariant, PTL

\* brainstem_runner_loop in any number of processes, with FOR UPDATE SKIP LOCKED and
\* the next run planned in the firing transaction, fires a schedule at most once for
\* each time it became due, wherever a process dies and whatever requests do.
THEOREM FiresOnce == Spec => []FiredOncePerDueTime
  <1>1. IInv => FiredOncePerDueTime
    BY DEF IInv, BrainstemInv, FiredBelow, FiredOncePerDueTime
  <1> QED
    BY <1>1, Invariant, PTL

\* No two live seats share a position however requests overlap, and once start_meeting
\* has committed every invited seat was told or reported, whatever else ended, cancelled
\* or restarted the meeting meanwhile.
THEOREM SeatsAlwaysAccounted == Spec => []SeatsAccounted
  <1>1. IInv => TopologyTypeOK
    BY DEF IInv, TopologyInv, TopologyShape, TopologyTypes, TopologyTypeOK, PlacesApart, Jobs, MembershipRows
  <1>2. IInv => SeatsAccounted
    BY <1>1 DEF IInv, SeatsAccounted, MeetingsInv, BrainstemInv
  <1> QED
    BY <1>2, Invariant, PTL

\* require_transition holds back every action on a finished meeting: one comes back only
\* through a request that read the status before the meeting got there.
THEOREM NeverReopened == Spec => ReopenedOnlyByRace
  <1>1. IInv /\ [Next]_vars
           => [meeting.status \in {"ended", "cancelled"} /\ meeting'.status # meeting.status
                 => \E r \in MeetingRequests : /\ mcall[r].op # "idle" /\ mcall'[r].op = "idle"
                                               /\ mcall[r].read # meeting.status]_meetingVars
    BY StepsOfServices, ReopenStep DEF IInv
  <1> QED
    BY <1>1, Invariant, PTL DEF Spec, ReopenedOnlyByRace
=============================================================================
