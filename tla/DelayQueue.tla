----------------------------- MODULE DelayQueue -----------------------------
(***************************************************************************)
(* What a caller of TaskQueue (app/core/queue.py) is promised: tasks wait  *)
(* until they are due and are handed out one at a time in the order of     *)
(* (run_at, seq), each once, none early, none lost.  There is no worker,   *)
(* no event and no popped head here; TaskQueue is shown to implement it.   *)
(***************************************************************************)
EXTENDS Naturals

VARIABLES
    clock,      \* the time
    waiting,    \* the tasks that were accepted and not yet handed out
    fired       \* <<task, time>> of every task that was handed out

delayVars == <<clock, waiting, fired>>

\* t is due no later than u, and was accepted first if both are due together.
Precedes(t, u) == t.run_at < u.run_at \/ (t.run_at = u.run_at /\ t.seq < u.seq)

DelayInit == clock = 0 /\ waiting = {} /\ fired = {}

\* A task is new: neither its number waits nor was it handed out.
Accept ==
    \E t \in waiting' \ waiting :
       /\ t.run_at >= clock
       /\ \A u \in waiting \cup {p[1] : p \in fired} : u.seq # t.seq
       /\ waiting' = waiting \cup {t}
       /\ UNCHANGED <<clock, fired>>

\* The least task is handed out, if it is due.
Fire ==
    \E t \in waiting :
       /\ t.run_at <= clock
       /\ \A u \in waiting \ {t} : Precedes(t, u)
       /\ waiting' = waiting \ {t}
       /\ fired' = fired \cup {<<t, clock>>}
       /\ UNCHANGED clock

Pass == clock' = clock + 1 /\ UNCHANGED <<waiting, fired>>

DelayNext == Accept \/ Fire \/ Pass

DelaySpec == DelayInit /\ [][DelayNext]_delayVars
=============================================================================
