------------------------------ MODULE Meetings ------------------------------
(***************************************************************************)
(* A meeting of a workspace: created with its participants, started,       *)
(* ended, cancelled.  api/v1/meetings.py, api/v1/meetings_actions.py,      *)
(* core/meeting_wake.py.  An action reads the status, checks it, and       *)
(* writes the new one by primary key; nothing locks the row in between, so *)
(* another request may commit first.  Starting wakes the participants one  *)
(* after the other, in the transaction that makes the meeting active.      *)
(***************************************************************************)
EXTENDS Naturals, FiniteSets

CONSTANTS Participants,     \* seats that may be invited
          MeetingRequests   \* concurrent API requests

VARIABLES meeting,          \* the row: status and whether ended_at is set
          invited,          \* its participants
          notice,           \* per seat, what it was told (committed)
          mcall             \* per request: what it does, read and has staged

meetingVars == <<meeting, invited, notice, mcall>>

MeetingStatus == {"scheduled", "active", "ended", "cancelled"}

\* What is behind a seat when its turn comes: it is gone, held by a user or a
\* deleted instance ("empty"), or by an instance that runs, that must be
\* resumed first, or that merely waits.
Bodies == {"gone", "empty", "running", "resumable", "waiting"}
Notices == {"skipped", "no_instance", "soft_inject", "wake", "wake_failed"}
NoCall == [op |-> "idle", read |-> "none", todo |-> {}, staged |-> {}]

MeetingsTypeOK ==
    /\ meeting \in [status : MeetingStatus \cup {"none"}, ended : BOOLEAN]
    /\ invited \subseteq Participants
    /\ notice \subseteq Participants \X Notices
    /\ \A r \in MeetingRequests :
          /\ mcall[r].op \in {"idle", "start", "end", "cancel"}
          /\ mcall[r].read \in MeetingStatus \cup {"none"}
          /\ mcall[r].todo \subseteq Participants
          /\ mcall[r].staged \subseteq Participants \X Notices
    /\ meeting.status = "ended" => meeting.ended

MeetingsInit ==
    /\ meeting = [status |-> "none", ended |-> FALSE]
    /\ invited = {}
    /\ notice = {}
    /\ mcall = [r \in MeetingRequests |-> NoCall]

\* create_meeting: the invited seats are live seats of the workspace (400
\* otherwise); they may be gone later.
CreateMeeting(S) ==
    /\ meeting.status = "none"
    /\ meeting' = [meeting EXCEPT !.status = "scheduled"]
    /\ invited' = S
    /\ UNCHANGED <<notice, mcall>>

\* As a mutant: a cancelled meeting may be started.
AllowedRestart(op) == CASE op = "start" -> {"scheduled", "cancelled"}
                        [] op = "end" -> {"active"}
                        [] op = "cancel" -> {"scheduled", "active"}

\* require_transition: the statuses an action may leave.
Allowed(op) == CASE op = "start" -> {"scheduled"}
                 [] op = "end" -> {"active"}
                 [] op = "cancel" -> {"scheduled", "active"}

\* An action has found the meeting, may manage it, and passes the check.
Accept(r, op) ==
    /\ mcall[r].op = "idle" /\ meeting.status \in Allowed(op)
    /\ mcall' = [mcall EXCEPT ![r] = [op |-> op, read |-> meeting.status, staged |-> {},
                                      todo |-> IF op = "start" THEN invited ELSE {}]]
    /\ UNCHANGED <<meeting, invited, notice>>

\* start_meeting's UPDATE is flushed before the participants are read and
\* holds the row until its commit: the other actions wait for it.
RowHeld(r) == \E q \in MeetingRequests \ {r} : mcall[q].op = "start" /\ mcall[q].staged # {}

\* _wake_participant: what a seat is told.  Resuming may raise, and is then
\* reported instead of the inject.
WakeOutcome(body) ==
    CASE body = "gone" -> {"skipped"}
      [] body = "empty" -> {"no_instance"}
      [] body = "running" -> {"soft_inject"}
      [] body = "resumable" -> {"wake", "wake_failed"}
      [] body = "waiting" -> {"wake"}

\* As a mutant: the first failure ends the round of wakes.
StopAtFailure(r, p) ==
    /\ mcall[r].op = "start" /\ p \in mcall[r].todo /\ ~RowHeld(r)
    /\ \E body \in Bodies : \E n \in WakeOutcome(body) :
          mcall' = [mcall EXCEPT ![r].todo = IF n = "wake_failed" THEN {} ELSE @ \ {p},
                                 ![r].staged = @ \cup {<<p, n>>}]
    /\ UNCHANGED <<meeting, invited, notice>>

\* wake_meeting_participants
WakeParticipant(r, p) ==
    /\ mcall[r].op = "start" /\ p \in mcall[r].todo /\ ~RowHeld(r)
    /\ \E body \in Bodies : \E n \in WakeOutcome(body) :
          mcall' = [mcall EXCEPT ![r].todo = @ \ {p}, ![r].staged = @ \cup {<<p, n>>}]
    /\ UNCHANGED <<meeting, invited, notice>>

StartedMeeting == [meeting EXCEPT !.status = "active"]              \* start_meeting
EndedMeeting == [status |-> "ended", ended |-> TRUE]                \* end_meeting
CancelledMeeting == [meeting EXCEPT !.status = "cancelled"]         \* cancel_meeting

\* The commit of one of the three actions.
CommitAction(r) ==
    /\ mcall[r].op # "idle" /\ mcall[r].todo = {} /\ ~RowHeld(r)
    /\ meeting' = CASE mcall[r].op = "start" -> StartedMeeting
                    [] mcall[r].op = "end" -> EndedMeeting
                    [] mcall[r].op = "cancel" -> CancelledMeeting
    /\ notice' = notice \cup mcall[r].staged
    /\ mcall' = [mcall EXCEPT ![r] = NoCall]
    /\ UNCHANGED invited

MeetingsNext ==
    \/ \E S \in SUBSET Participants : CreateMeeting(S)
    \/ \E r \in MeetingRequests :
          \/ \E op \in {"start", "end", "cancel"} : Accept(r, op)
          \/ \E p \in Participants : WakeParticipant(r, p)
          \/ CommitAction(r)

-----------------------------------------------------------------------------
(* Properties                                                              *)

\* Once a meeting has become active every invited seat is accounted for: told
\* by an inject, or reported as empty or as not woken, or gone; one seat that
\* cannot be woken does not hide the others.
EverySeatAccounted ==
    meeting.status \in {"active", "ended"} => \A p \in invited : \E n \in Notices : <<p, n>> \in notice

\* A meeting leaves "ended" or "cancelled" only through a request that checked
\* the status before the meeting got there: the check itself is never passed
\* by a finished meeting, the missing lock is the only way back.
ReopenedOnlyByRace ==
    [][meeting.status \in {"ended", "cancelled"} /\ meeting'.status # meeting.status
       => \E r \in MeetingRequests : /\ mcall[r].op # "idle" /\ mcall'[r].op = "idle"
                                     /\ mcall[r].read # meeting.status]_meetingVars
=============================================================================
