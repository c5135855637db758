---------------------------- MODULE MCTaskQueue ----------------------------
(* Small instance of TaskQueue for TLC.                                    *)
EXTENDS TaskQueue
============================================================================
