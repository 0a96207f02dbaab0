--------------------------- MODULE MCIntegration ---------------------------
(* A small instance of Integration: a task over two places, and one for each *)
(* of the two, so that tasks may share a wave or come one after the other.   *)
(* The files are not there to begin with: they can be made, moved, removed.  *)
EXTENDS Integration, TLC

CONSTANTS a, b

CleanHead == [p \in Place |-> 0]
Scopes    == 1 :> {a, b} @@ 2 :> {a} @@ 3 :> {b}
\* The third task may also write outside its scope.
Edits     == 1 :> {a, b} @@ 2 :> {a} @@ 3 :> {a, b}
=============================================================================
