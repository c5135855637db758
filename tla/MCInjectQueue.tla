--------------------------- MODULE MCInjectQueue ---------------------------
(* Small instance of InjectQueue for TLC.                                   *)
EXTENDS InjectQueue, TLC
============================================================================
