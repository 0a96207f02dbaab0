------------------------- MODULE MCSubprocessRunner -------------------------
(* A small instance of SubprocessRunner for TLC. *)
EXTENDS SubprocessRunner, TLC
=============================================================================
