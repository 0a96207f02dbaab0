--------------------------- MODULE MCProcessStore ---------------------------
(* Small instances of ProcessStore for TLC. *)
EXTENDS ProcessStore, TLC

CONSTANTS c1, c2, c3, free
=============================================================================
