---------------------------- MODULE AtomicStore ----------------------------
(***************************************************************************)
(* What process.md promises its users: a register whose every update is    *)
(* applied atomically to the latest value, so that none is lost, applied   *)
(* twice or undone, and whose readers see values it really had, in order.  *)
(*                                                                         *)
(* The value is the sequence of updates applied to it, each named by the   *)
(* process that made it.                                                   *)
(***************************************************************************)
EXTENDS Sequences

CONSTANT Client  \* the processes: controllers, `add` commands, readers

VARIABLES
  log,   \* the updates applied so far
  seen   \* what each process knows of it

storeVars == <<log, seen>>

Init == log = <<>> /\ seen = [c \in Client |-> <<>>]

\* A process updates the value and knows the result.
Commit(c) == log' = Append(log, c) /\ seen' = [seen EXCEPT ![c] = log']

\* A process reads the value.
Observe(c) == seen' = [seen EXCEPT ![c] = log] /\ UNCHANGED log

Next == \E c \in Client : Commit(c) \/ Observe(c)

Spec == Init /\ [][Next]_storeVars
=============================================================================
