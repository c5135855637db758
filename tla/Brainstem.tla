----------------------------- MODULE Brainstem -----------------------------
(***************************************************************************)
(* Scheduled tasks: rows the API edits, fired by a loop in every worker    *)
(* process once a minute.  core/brainstem_runner.py and the brainstem      *)
(* routes of api/v1/central_hubs.py.  Time is a schedule becoming due.     *)
(***************************************************************************)
EXTENDS Naturals, FiniteSets

CONSTANTS Schedules,   \* schedule rows
          Workers,     \* backend processes, each with a runner loop
          MaxDue       \* bound: how often one schedule may become due

ASSUME DueAssumption == MaxDue \in Nat

VARIABLES schedule,    \* the rows
          dueTimes,    \* history: how often a schedule became due
          fired,       \* history: committed injects of a schedule
          tick         \* per worker: the rows its open transaction has locked

brainstemVars == <<schedule, dueTimes, fired, tick>>

\* What firing does: an inject, nothing (no instance_id in the payload), or an
\* exception (unknown instance, TL;DR too long or missing).
Payloads == {"deliver", "no_target", "raises"}
NoSchedule == [exists |-> FALSE, enabled |-> FALSE, cron |-> "ok", payload |-> "deliver", next |-> "null"]

BrainstemTypeOK ==
    /\ schedule \in [Schedules -> [exists : BOOLEAN, enabled : BOOLEAN, cron : {"ok", "invalid"},
                                   payload : Payloads, next : {"null", "future", "due"}]]
    /\ dueTimes \in [Schedules -> 0..MaxDue]
    /\ fired \in [Schedules -> Nat]
    /\ tick \in [Workers -> SUBSET Schedules]
    /\ \A w, v \in Workers : w # v => tick[w] \cap tick[v] = {}

BrainstemInit ==
    /\ schedule = [s \in Schedules |-> NoSchedule]
    /\ dueTimes = [s \in Schedules |-> 0]
    /\ fired = [s \in Schedules |-> 0]
    /\ tick = [w \in Workers |-> {}]

LockedRows == UNION {tick[w] : w \in Workers}

\* compute_next_run_at: nothing for an expression croniter rejects.
NextRun(cron) == IF cron = "ok" THEN "future" ELSE "null"

\* create_brainstem_schedule
CreateSchedule(s) ==
    /\ ~schedule[s].exists
    /\ \E cron \in {"ok", "invalid"}, payload \in Payloads :
          schedule' = [schedule EXCEPT ![s] = [exists |-> TRUE, enabled |-> TRUE, cron |-> cron,
                                               payload |-> payload, next |-> NextRun(cron)]]
    /\ UNCHANGED <<dueTimes, fired, tick>>

\* update_brainstem_schedule: waits for a tick that holds the row; a new cron
\* expression plans anew, switching on and off does not.
UpdateSchedule(s) ==
    /\ schedule[s].exists /\ s \notin LockedRows
    /\ \/ \E on \in BOOLEAN : schedule' = [schedule EXCEPT ![s].enabled = on]
       \/ \E cron \in {"ok", "invalid"} :
             schedule' = [schedule EXCEPT ![s].cron = cron, ![s].next = NextRun(cron)]
    /\ UNCHANGED <<dueTimes, fired, tick>>

DeleteSchedule(s) ==
    /\ schedule[s].exists /\ s \notin LockedRows
    /\ schedule' = [schedule EXCEPT ![s] = NoSchedule]
    /\ UNCHANGED <<dueTimes, fired, tick>>

BecomesDue(s) ==
    /\ schedule[s].next = "future" /\ dueTimes[s] < MaxDue
    /\ schedule' = [schedule EXCEPT ![s].next = "due"]
    /\ dueTimes' = [dueTimes EXCEPT ![s] = @ + 1]
    /\ UNCHANGED <<fired, tick>>

Due == {s \in Schedules : schedule[s].exists /\ schedule[s].enabled /\ schedule[s].next = "due"}

\* _tick_in_session: the due rows that nobody else has locked.
SelectDue(w) ==
    /\ tick[w] = {} /\ Due \ LockedRows # {}
    /\ tick' = [tick EXCEPT ![w] = Due \ LockedRows]
    /\ UNCHANGED <<schedule, dueTimes, fired>>

\* As a mutant: the rows are not planned again.
FireWithoutPlanning(w) ==
    /\ tick[w] # {} /\ \A s \in tick[w] : schedule[s].payload # "raises"
    /\ fired' = [s \in Schedules |-> IF s \in tick[w] /\ schedule[s].payload = "deliver"
                                     THEN fired[s] + 1 ELSE fired[s]]
    /\ tick' = [tick EXCEPT ![w] = {}]
    /\ UNCHANGED <<schedule, dueTimes>>

\* As a mutant: a row without a target is passed over, and not planned again.
FireSkippingTargetless(w) ==
    /\ tick[w] # {} /\ \A s \in tick[w] : schedule[s].payload # "raises"
    /\ schedule' = [s \in Schedules |-> IF s \in tick[w] /\ schedule[s].payload = "deliver"
                                        THEN [schedule[s] EXCEPT !.next = NextRun(schedule[s].cron)]
                                        ELSE schedule[s]]
    /\ fired' = [s \in Schedules |-> IF s \in tick[w] /\ schedule[s].payload = "deliver"
                                     THEN fired[s] + 1 ELSE fired[s]]
    /\ tick' = [tick EXCEPT ![w] = {}]
    /\ UNCHANGED dueTimes

\* _fire_schedule for every selected row, oldest first, and one commit.
FireAll(w) ==
    /\ tick[w] # {} /\ \A s \in tick[w] : schedule[s].payload # "raises"
    /\ schedule' = [s \in Schedules |-> IF s \in tick[w]
                                        THEN [schedule[s] EXCEPT !.next = NextRun(schedule[s].cron)]
                                        ELSE schedule[s]]
    /\ fired' = [s \in Schedules |-> IF s \in tick[w] /\ schedule[s].payload = "deliver"
                                     THEN fired[s] + 1 ELSE fired[s]]
    /\ tick' = [tick EXCEPT ![w] = {}]
    /\ UNCHANGED dueTimes

\* brainstem_runner_loop catches the exception of one schedule, or the process
\* dies: the whole tick is rolled back, and tried again a minute later.
TickLost(w) ==
    /\ tick[w] # {}
    /\ tick' = [tick EXCEPT ![w] = {}]
    /\ UNCHANGED <<schedule, dueTimes, fired>>

BrainstemNext ==
    \/ \E s \in Schedules :
          CreateSchedule(s) \/ UpdateSchedule(s) \/ DeleteSchedule(s) \/ BecomesDue(s)
    \/ \E w \in Workers : SelectDue(w) \/ FireAll(w) \/ TickLost(w)

\* Every worker keeps ticking, and does not die in every single tick.
BrainstemFairness ==
    \A w \in Workers : WF_brainstemVars(SelectDue(w)) /\ SF_brainstemVars(FireAll(w))
                       /\ SF_brainstemVars(TickLost(w) /\ \E s \in tick[w] : schedule[s].payload = "raises")

-----------------------------------------------------------------------------
(* Properties                                                              *)

\* However many workers tick, and wherever one dies, a schedule is fired at
\* most once for each time it became due.
FiredOncePerDueTime == \A s \in Schedules : fired[s] <= dueTimes[s]

\* A due schedule is fired or switched off, unless a schedule that raises is
\* due as well: the shared transaction lets one bad row hold up all the others.
DueFires ==
    \A s \in Schedules :
        s \in Due ~> (s \notin Due \/ \E q \in Due : schedule[q].payload = "raises")
=============================================================================
