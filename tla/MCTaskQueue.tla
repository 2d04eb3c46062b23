---------------------------- MODULE MCTaskQueue ----------------------------
(* Instances of the task list for TLC.                                     *)
EXTENDS TaskQueue
=============================================================================
