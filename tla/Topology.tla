------------------------------ MODULE Topology ------------------------------
(***************************************************************************)
(* The collaboration surface of one workspace: seats (memberships) at grid *)
(* positions, instances introduced into it, and passages (undirected       *)
(* edges) between seats.  api/v1/messaging.py, api/v1/workspaces.py,       *)
(* services/instance_factory.py, core/topology.py, core/passages.py.       *)
(* A request reads in one step and commits in a later one (READ COMMITTED  *)
(* without locks, except where the code says FOR UPDATE or a bulk UPDATE   *)
(* goes from row to row); the partial unique indexes are enforced at the   *)
(* commit.                                                                 *)
(***************************************************************************)
EXTENDS Integers, FiniteSets, FiniteSetsExt

CONSTANTS Seats,          \* memberships, numbered in the order of their ids
          InstanceSeats,  \* those of instances; the others are of users
          Cells,          \* bound: positions of the grid, numbered
          Requests        \* concurrent API requests

VARIABLES workspace,      \* "none", "live" or "deleted"
          seat,           \* a membership: its state and position
          passage,        \* a row per pair of seats and filing: its state and is_active
          rowLock,        \* who has a seat locked in an open transaction
          job             \* what a request has read and will commit

topologyVars == <<workspace, seat, passage, rowLock, job>>

NoOwner == "none"
NoSeat == 0

ASSUME OwnersAssumption == NoOwner \notin Requests
ASSUME OriginAssumption == 0 \in Cells
ASSUME SeatsAssumption == Seats \subseteq Nat \ {NoSeat} /\ IsFiniteSet(Seats)

\* create_passage takes Passage.workspace_id from its body, and does not ask
\* whether the seats are of that workspace.
Filings == {"own", "foreign"}

Edges == {e \in SUBSET Seats : Cardinality(e) = 2}
Job(op, a, b, p) ==
    [op |-> op, a |-> a, b |-> b, pos |-> p, filed |-> "own", left |-> {}]
Idle == Job("idle", NoSeat, NoSeat, 0)
Live(s) == seat[s].state = "live"

\* Membership and Passage: rows are soft-deleted, never removed.
RowState == {"none", "live", "deleted"}
MembershipRows == [state : RowState, pos : Cells]
PassageRows == [row : RowState, active : BOOLEAN]

TopologyTypeOK ==
    /\ workspace \in RowState
    /\ seat \in [Seats -> MembershipRows]
    /\ passage \in [Edges \X Filings -> PassageRows]
    /\ rowLock \in [Seats -> Requests \cup {NoOwner}]
    /\ job \in [Requests -> [op : {"idle", "insert", "restore", "introduce", "lock", "lock_second",
                                   "check", "add", "revive", "activate", "remove", "sweep"},
                             a : Seats \cup {NoSeat}, b : Seats \cup {NoSeat}, pos : Cells,
                             filed : Filings, left : SUBSET Seats]]
    /\ \A s, q \in Seats : s # q /\ Live(s) /\ Live(q) => seat[s].pos # seat[q].pos

TopologyInit ==
    /\ workspace = "none"
    /\ seat = [s \in Seats |-> [state |-> "none", pos |-> 0]]
    /\ passage = [k \in Edges \X Filings |-> [row |-> "none", active |-> FALSE]]
    /\ rowLock = [s \in Seats |-> NoOwner]
    /\ job = [r \in Requests |-> Idle]

Begin(r, j) == job[r] = Idle /\ job' = [job EXCEPT ![r] = j]
End(r) == job' = [job EXCEPT ![r] = Idle]
Locked(s) == rowLock[s] # NoOwner
Release(r) == rowLock' = [s \in Seats |-> IF rowLock[s] = r THEN NoOwner ELSE rowLock[s]]

-----------------------------------------------------------------------------
(* Seats                                                                   *)

\* create_workspace: with it the hub, the vault, the contracts and the seat of
\* the owner at the origin, in one commit.
CreateWorkspace ==
    /\ workspace = "none"
    /\ workspace' = "live"
    /\ \E owner \in Seats \ InstanceSeats :
          seat' = [seat EXCEPT ![owner] = [state |-> "live", pos |-> 0]]
    /\ UNCHANGED <<passage, rowLock, job>>

Free(p) == \A s \in Seats : Live(s) => seat[s].pos # p

\* create_membership: the workspace and a live or deleted row are looked up.
\* A deleted row is restored, otherwise a row is inserted.
CreateMembership(r, s, p) ==
    /\ workspace = "live" /\ ~Live(s)
    /\ Begin(r, Job(IF seat[s].state = "none" THEN "insert" ELSE "restore", s, NoSeat, p))
    /\ UNCHANGED <<workspace, seat, passage, rowLock>>

\* create_introduced_instance: in reading order, the first cell no live seat
\* occupies.
FirstFreeCell(p) == Free(p) /\ \A c \in Cells : c < p => ~Free(c)

\* introduce_entity: an entity not yet introduced gets a new instance there.
IntroduceEntity(r, s) ==
    /\ workspace = "live" /\ s \in InstanceSeats /\ seat[s].state = "none"
    /\ \E p \in Cells : FirstFreeCell(p) /\ Begin(r, Job("introduce", s, NoSeat, p))
    /\ UNCHANGED <<workspace, seat, passage, rowLock>>

\* The commit: the unique indexes on the subject and on the position decide.
\* A losing request is rolled back and answers 409 (500 when restoring).
CommitSeat(r) ==
    LET s == job[r].a  p == job[r].pos IN
    /\ job[r].op \in {"insert", "restore", "introduce"} /\ ~Locked(s)
    /\ LET unique == /\ \A q \in Seats \ {s} : Live(q) => seat[q].pos # p
                     /\ job[r].op # "restore" => seat[s].state = "none"
       IN seat' = IF unique THEN [seat EXCEPT ![s] = [state |-> "live", pos |-> p]] ELSE seat
    /\ End(r)
    /\ UNCHANGED <<workspace, passage, rowLock>>

\* update_membership: the new position, if the index allows it.
MoveMembership(s, p) ==
    /\ Live(s) /\ ~Locked(s) /\ Free(p)
    /\ seat' = [seat EXCEPT ![s].pos = p]
    /\ UNCHANGED <<workspace, passage, rowLock, job>>

\* soft_delete_passages_touching, wherever they are filed.
PassagesWithout(gone) ==
    [k \in Edges \X Filings |->
        IF k[1] \cap gone # {} /\ passage[k].row = "live"
        THEN [row |-> "deleted", active |-> FALSE] ELSE passage[k]]

\* As a mutant: only passages that are switched on are cleaned up.
DeleteMembershipActiveOnly(s) ==
    /\ Live(s) /\ ~Locked(s)
    /\ seat' = [seat EXCEPT ![s].state = "deleted"]
    /\ passage' = [k \in Edges \X Filings |->
                      IF s \in k[1] /\ passage[k].active
                      THEN [row |-> "deleted", active |-> FALSE] ELSE passage[k]]
    /\ UNCHANGED <<workspace, rowLock, job>>

\* delete_membership: the update of the seat waits for a row lock; the
\* passages are cleaned up after it, in the same transaction.  The seat of an
\* instance takes the instance with it.
DeleteMembership(s) ==
    /\ Live(s) /\ ~Locked(s)
    /\ seat' = [seat EXCEPT ![s].state = "deleted"]
    /\ passage' = PassagesWithout({s})
    /\ UNCHANGED <<workspace, rowLock, job>>

\* A bulk UPDATE goes from row to row in an order of its own: a is the row it
\* is at (none when it is through), left the rest of those that were live
\* when it began.
RowOf(S) == IF S = {} THEN {NoSeat} ELSE S

\* delete_workspace up to its UPDATE of the memberships.
DeleteWorkspace(r) ==
    /\ workspace = "live" /\ job[r] = Idle
    /\ LET S == {s \in Seats : Live(s)} IN
       \E s \in RowOf(S) :
          job' = [job EXCEPT ![r] = [Job("sweep", s, NoSeat, 0) EXCEPT !.left = S \ {s}]]
    /\ UNCHANGED <<workspace, seat, passage, rowLock>>

\* One row of it, once nobody else holds it; a row that has been deleted
\* meanwhile is passed over.
SweepSeat(r) ==
    LET s == job[r].a IN
    /\ job[r].op = "sweep" /\ s # NoSeat /\ ~Locked(s)
    /\ rowLock' = [rowLock EXCEPT ![s] = IF Live(s) THEN r ELSE NoOwner]
    /\ \E q \in RowOf(job[r].left) :
          job' = [job EXCEPT ![r].a = q, ![r].left = @ \ {q}]
    /\ UNCHANGED <<workspace, seat, passage>>

\* Then the passages that are filed under the workspace, and the commit.
CommitSweep(r) ==
    /\ job[r].op = "sweep" /\ job[r].a = NoSeat
    /\ workspace' = "deleted"
    /\ seat' = [s \in Seats |-> IF rowLock[s] = r THEN [seat[s] EXCEPT !.state = "deleted"]
                                                ELSE seat[s]]
    /\ passage' = [k \in Edges \X Filings |->
                      IF k[2] = "own" /\ passage[k].row = "live"
                      THEN [row |-> "deleted", active |-> FALSE] ELSE passage[k]]
    /\ End(r) /\ Release(r)

-----------------------------------------------------------------------------
(* Passages                                                                *)

\* find_active_passage_between, neighbor_membership_ids: of one workspace.
Adjacent(a, b, f) ==
    {a, b} \in Edges /\ passage[<<{a, b}, f>>].row = "live" /\ passage[<<{a, b}, f>>].active

\* check_acyclic: an undirected search from one end.  Two seats are connected
\* when no set of seats holds one, not the other, and has no way out.
Connected(a, b, f) ==
    \A S \in SUBSET Seats :
        a \in S /\ b \notin S => \E x \in S, y \in Seats \ S : Adjacent(x, y, f)

\* As a mutant: the order in which the user clicked.
EndpointsAsGiven(a, b) == <<a, b>>

\* normalize_endpoints: the smaller id is locked first.
normalize_endpoints(a, b) == IF a <= b THEN <<a, b>> ELSE <<b, a>>

CreatePassage(r, a, b, f) ==
    LET ends == normalize_endpoints(a, b) IN
    /\ a # b /\ job[r] = Idle
    /\ job' = [job EXCEPT ![r] = [Job("lock", ends[1], ends[2], 0) EXCEPT !.filed = f]]
    /\ UNCHANGED <<workspace, seat, passage, rowLock>>

\* SELECT ... FOR UPDATE of one end: waits for the lock, then looks whether
\* the seat is still live; 404 ends the transaction.
LockEnd(r) ==
    LET s == IF job[r].op = "lock" THEN job[r].a ELSE job[r].b IN
    /\ job[r].op \in {"lock", "lock_second"} /\ ~Locked(s)
    /\ IF Live(s)
       THEN /\ rowLock' = [rowLock EXCEPT ![s] = r]
            /\ job' = [job EXCEPT ![r].op = IF @ = "lock" THEN "lock_second" ELSE "check"]
       ELSE Release(r) /\ End(r)
    /\ UNCHANGED <<workspace, seat, passage>>

\* An existing live row is a duplicate (409), a deleted one is revived without
\* another check, otherwise the new edge must not close a cycle (409).
CheckPassage(r) ==
    LET a == job[r].a  b == job[r].b  f == job[r].filed IN
    /\ job[r].op = "check"
    /\ CASE passage[<<{a, b}, f>>].row = "deleted" ->
              job' = [job EXCEPT ![r].op = "revive"] /\ UNCHANGED rowLock
         [] passage[<<{a, b}, f>>].row = "none" /\ ~Connected(a, b, f) ->
              job' = [job EXCEPT ![r].op = "add"] /\ UNCHANGED rowLock
         [] OTHER -> End(r) /\ Release(r)
    /\ UNCHANGED <<workspace, seat, passage>>

CommitPassage(r) ==
    /\ job[r].op \in {"add", "revive"}
    /\ passage' = [passage EXCEPT ![<<{job[r].a, job[r].b}, job[r].filed>>] =
                                     [row |-> "live", active |-> TRUE]]
    /\ End(r) /\ Release(r)
    /\ UNCHANGED <<workspace, seat>>

\* update_passage and delete_passage read the row and write one column later.
PatchPassage(r, e, f) ==
    /\ passage[<<e, f>>].row = "live" /\ job[r] = Idle
    /\ \E op \in {"activate", "remove"} :
          job' = [job EXCEPT ![r] = [Job(op, Min(e), Max(e), 0) EXCEPT !.filed = f]]
    /\ UNCHANGED <<workspace, seat, passage, rowLock>>

CommitPatch(r) ==
    LET k == <<{job[r].a, job[r].b}, job[r].filed>> IN
    /\ \/ /\ job[r].op = "activate"
          /\ \E on \in BOOLEAN : passage' = [passage EXCEPT ![k].active = on]
       \/ job[r].op = "remove" /\ passage' = [passage EXCEPT ![k].row = "deleted"]
    /\ End(r)
    /\ UNCHANGED <<workspace, seat, rowLock>>

-----------------------------------------------------------------------------
(* Waiting                                                                 *)

\* The row a request asks for, and who keeps it waiting.
Wanted(r) ==
    CASE job[r].op \in {"lock", "sweep"} -> job[r].a
      [] job[r].op = "lock_second" -> job[r].b
      [] OTHER -> NoSeat
Holder(r) == IF Wanted(r) \in Seats THEN rowLock[Wanted(r)] ELSE NoOwner

\* Requests that keep each other waiting.
Deadlocked(D) == D # {} /\ {Holder(r) : r \in D} = D

\* PostgreSQL finds the cycle and aborts one of its transactions (500).
AbortDeadlock(r) ==
    /\ \E D \in SUBSET Requests : r \in D /\ Deadlocked(D)
    /\ End(r) /\ Release(r)
    /\ UNCHANGED <<workspace, seat, passage>>

-----------------------------------------------------------------------------
Steps(r) ==
    \/ CommitSeat(r) \/ SweepSeat(r) \/ CommitSweep(r)
    \/ LockEnd(r) \/ CheckPassage(r) \/ CommitPassage(r) \/ CommitPatch(r)
    \/ AbortDeadlock(r)

TopologyNext ==
    \/ \E r \in Requests :
          \/ Steps(r)
          \/ \E s \in Seats, p \in Cells : CreateMembership(r, s, p)
          \/ \E s \in Seats : IntroduceEntity(r, s)
          \/ \E a, b \in Seats, f \in Filings : CreatePassage(r, a, b, f)
          \/ \E e \in Edges, f \in Filings : PatchPassage(r, e, f)
          \/ DeleteWorkspace(r)
    \/ \E s \in Seats : DeleteMembership(s) \/ \E p \in Cells : MoveMembership(s, p)
    \/ CreateWorkspace

-----------------------------------------------------------------------------
(* Properties                                                              *)

\* A passage that is not deleted joins two seats that are not deleted, though
\* passages and seats are created and deleted concurrently: create_passage
\* holds both ends FOR UPDATE, and a deletion cleans up only after its own
\* update of the seat.  Only delete_workspace leaves one behind: a passage
\* that is filed under another workspace.
NoDanglingPassage ==
    \A e \in Edges, f \in Filings : passage[<<e, f>>].row = "live"
        => (\A s \in e : Live(s)) \/ (f = "foreign" /\ workspace = "deleted")

\* Requests get into a deadlock only with a deletion of the workspace, whose
\* UPDATE locks the seats in an order of its own: create_passage locks its
\* ends in the order of their ids, whatever the order in the request.
DeadlockNeedsCascade ==
    \A D \in SUBSET Requests : Deadlocked(D) => \E r \in D : job[r].op = "sweep"
=============================================================================
