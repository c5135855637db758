------------------------------ MODULE MCCollab ------------------------------
(***************************************************************************)
(* The collaboration services of a workspace.  They share no table that    *)
(* their properties look at, so a behaviour exercises one of them.         *)
(***************************************************************************)
EXTENDS Topology, Meetings, Brainstem

VARIABLE part   \* the service this behaviour exercises

vars == <<topologyVars, meetingVars, brainstemVars, part>>

Init ==
    /\ part \in {"topology", "meetings", "brainstem"}
    /\ TopologyInit /\ MeetingsInit /\ BrainstemInit

Next ==
    /\ UNCHANGED part
    /\ \/ part = "topology" /\ TopologyNext /\ UNCHANGED <<meetingVars, brainstemVars>>
       \/ part = "meetings" /\ MeetingsNext /\ UNCHANGED <<topologyVars, brainstemVars>>
       \/ part = "brainstem" /\ BrainstemNext /\ UNCHANGED <<topologyVars, meetingVars>>

\* The three services keep their types, and once a meeting has become active every
\* invited seat is accounted for.
SeatsAccounted == TopologyTypeOK /\ MeetingsTypeOK /\ BrainstemTypeOK /\ EverySeatAccounted

Spec == Init /\ [][Next]_vars /\ BrainstemFairness
=============================================================================
