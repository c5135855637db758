----------------------------- MODULE MCHarness -----------------------------
(* Small instance of Harness for TLC.  In an intact behaviour the writes of *)
(* a breaker trip succeed (its commit may fail, and the read of the limits  *)
(* before it): a loop's budget is bounded only there.                       *)
EXTENDS Harness

VARIABLE intact

TripWriteFails ==
    \/ \E g \in Slots : loop[g].pc \in {"trip_stop", "trip_kill"} /\ LoopTripFails(g)
    \/ idle \in {"trip_stop", "trip_kill"} /\ IdleRaises

NoTokens == reg' = NoMetrics \/ reg'.tokens = 0

\* Bound: where trips may fail, loops of up to two checkpoints, without tokens.
Short == NoTokens /\ \A g \in Slots : loop'[g].i <= 2 /\ loop'[g].unread = 0

\* Bound: elsewhere the limits of one checkpoint are not read, and then within
\* the wall clock and without tokens.
FewUnread ==
    \A g \in Slots :
        /\ loop'[g].unread <= 1
        /\ loop'[g].unread = 1 => NoTokens /\ reg'.wall # "passed"

MCInit == Init /\ intact \in BOOLEAN
MCNext ==
    /\ Next /\ UNCHANGED intact
    /\ IF intact THEN ~TripWriteFails /\ FewUnread ELSE Short

MCSpec == MCInit /\ [][MCNext]_<<vars, intact>> /\ Fairness

\* Intact behaviours: a loop writes at most 3 * MaxContinuations - 2 checkpoints
\* and one more for each whose limits could not be read.
BudgetRespectedWhenIntact == intact => BudgetRespected
============================================================================
