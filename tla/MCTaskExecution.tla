-------------------------- MODULE MCTaskExecution --------------------------
(* A small instance of TaskExecution for TLC. *)
EXTENDS TaskExecution, TLC
=============================================================================
