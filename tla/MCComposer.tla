----------------------------- MODULE MCComposer -----------------------------
(* The instance TLC checks: two turns whose prompts may overlap, one of    *)
(* which streams text before it ends.                                      *)
EXTENDS Composer

CONSTANTS t1, t2
MCTurns == {t1, t2}
MCWatches == [r \in Readers |-> t1]
MCTokens == [t \in MCTurns |-> IF t = t1 THEN 1 ELSE 0]
=============================================================================
