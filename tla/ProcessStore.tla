---------------------------- MODULE ProcessStore ----------------------------
(***************************************************************************)
(* ProcessStore: process.md, the state lock, and the processes that use    *)
(* them.  update() loads, mutates and writes under the lock; save() writes *)
(* a state its caller loaded earlier, if the generation is still the same; *)
(* load() takes no lock.  A write goes to a temporary file beside          *)
(* process.md, which then replaces it.  `add` updates with a mutator that  *)
(* first stores the requirement in a numbered artifact.                    *)
(*                                                                         *)
(* Every system call another process can get in front of is a step.        *)
(* Abstracted: what an update changes (the file's content is the sequence  *)
(* of updates in it), rendering and parsing, and the files' paths.  Not    *)
(* here: create() and archive(), which only start() calls.                 *)
(*                                                                         *)
(* An operator X_Y is a mutant of X, which Next does not use: the code     *)
(* with a plausible bug Y that a property must catch.                      *)
(***************************************************************************)
EXTENDS Integers, Sequences, FiniteSets

CONSTANTS
  Client,     \* processes: one invocation each, so a crash is for good
  Free,       \* the state lock is not held
  MaxCommits  \* bound: updates of process.md

ASSUME FreeAssumption   == Free \notin Client
ASSUME CommitAssumption == MaxCommits \in Nat

VARIABLES
  file,       \* process.md: the updates in it, its generation, its revisions
  artifacts,  \* numbers n such that the artifact Rnn exists
  temps,      \* processes whose temporary file lies beside process.md
  lock,       \* holder of the state lock
  at,         \* where each process is in its operation
  op,         \* the operation it is in
  view        \* the state it loaded or wrote last

vars == <<file, artifacts, temps, lock, at, op, view>>

Op      == {"update", "save", "add"}
Waiting == {"idle", "lock", "dead"}
Holding == {"read", "create", "write", "replace", "release"}

Return(c, to) == at' = [at EXCEPT ![c] = to] /\ op' = [op EXCEPT ![c] = "none"]

\* The state start() created.
Created == [log |-> <<>>, gen |-> 0, revs |-> 1]

-----------------------------------------------------------------------------

Load(c) ==
  /\ at[c] = "idle"
  /\ view' = [view EXCEPT ![c] = file]
  /\ UNCHANGED <<file, artifacts, temps, lock, at, op>>

Call(c, o) ==
  /\ at[c] = "idle"
  /\ Len(file.log) + Cardinality({d \in Client : at[d] \notin {"idle", "dead"}}) < MaxCommits
  /\ at' = [at EXCEPT ![c] = "lock"]
  /\ op' = [op EXCEPT ![c] = o]
  /\ UNCHANGED <<file, artifacts, temps, lock, view>>

\* FileLock.acquire: an attempt succeeds, or fails after the deadline.
Acquire_Unchecked(c) ==
  /\ at[c] = "lock"
  /\ lock' = c
  /\ at' = [at EXCEPT ![c] = "read"]
  /\ UNCHANGED <<file, artifacts, temps, op, view>>

Acquire(c) ==
  /\ at[c] = "lock"
  /\ lock = Free
  /\ lock' = c
  /\ at' = [at EXCEPT ![c] = "read"]
  /\ UNCHANGED <<file, artifacts, temps, op, view>>

TimesOut_Never(c) ==
  /\ at[c] = "lock"
  /\ lock = c
  /\ Return(c, "idle")
  /\ UNCHANGED <<file, artifacts, temps, lock, view>>

TimesOut(c) ==
  /\ at[c] = "lock"
  /\ lock # Free
  /\ Return(c, "idle")
  /\ UNCHANGED <<file, artifacts, temps, lock, view>>

Fetch(c) ==
  /\ at[c] = "read" /\ op[c] \in {"update", "add"}
  /\ view' = [view EXCEPT ![c] = file]
  /\ at' = [at EXCEPT ![c] = IF op[c] = "add" THEN "create" ELSE "write"]
  /\ UNCHANGED <<file, artifacts, temps, lock, op>>

\* save loads too, but only to compare the generations.
Compare_Nothing(c) ==
  /\ at[c] = "read" /\ op[c] = "save"
  /\ at' = [at EXCEPT ![c] = "write"]
  /\ UNCHANGED <<file, artifacts, temps, lock, op, view>>

Compare(c) ==
  /\ at[c] = "read" /\ op[c] = "save"
  /\ at' = [at EXCEPT ![c] = IF file.gen = view[c].gen THEN "write" ELSE "release"]
  /\ UNCHANGED <<file, artifacts, temps, lock, op, view>>

\* create_revision, called by the mutator of `add`: an artifact of that number
\* makes it raise FileExistsError.
CreateRevision_Later(c) ==
  /\ at[c] = "create"
  /\ at' = [at EXCEPT ![c] = "write"]
  /\ UNCHANGED <<file, artifacts, temps, lock, op, view>>

CreateRevision(c) ==
  /\ at[c] = "create"
  /\ LET n == view[c].revs + 1
     IN  /\ at' = [at EXCEPT ![c] = IF n \in artifacts THEN "release" ELSE "write"]
         /\ artifacts' = artifacts \cup {n}
  /\ UNCHANGED <<file, temps, lock, op, view>>

\* _atomic_write: mkstemp, write and fsync; then os.replace.
WriteTemporary(c) ==
  /\ at[c] = "write"
  /\ temps' = temps \cup {c}
  /\ at' = [at EXCEPT ![c] = "replace"]
  /\ UNCHANGED <<file, artifacts, lock, op, view>>

Replace(c) ==
  /\ at[c] = "replace"
  /\ file' = [log  |-> Append(view[c].log, c),
              gen  |-> view[c].gen + 1,
              revs |-> view[c].revs + (IF op[c] = "add" THEN 1 ELSE 0)]
  /\ view' = [view EXCEPT ![c] = file']
  /\ temps' = temps \ {c}
  /\ at' = [at EXCEPT ![c] = "release"]
  /\ UNCHANGED <<artifacts, lock, op>>

\* An exception leaves the operation: the mutator refuses the update, or a
\* file operation fails.  _atomic_write removes its temporary file.
Raise(c) ==
  /\ at[c] \in Holding \ {"release"}
  /\ temps' = temps \ {c}
  /\ at' = [at EXCEPT ![c] = "release"]
  /\ UNCHANGED <<file, artifacts, lock, op, view>>

Release(c) ==
  /\ at[c] = "release"
  /\ lock' = Free
  /\ Return(c, "idle")
  /\ UNCHANGED <<file, artifacts, temps, view>>

\* The process dies; the operating system drops its lock.
Crash(c) ==
  /\ at[c] # "dead"
  /\ Return(c, "dead")
  /\ lock' = IF lock = c THEN Free ELSE lock
  /\ UNCHANGED <<file, artifacts, temps, view>>

-----------------------------------------------------------------------------

Init ==
  /\ file = Created
  /\ artifacts = {1}
  /\ temps = {}
  /\ lock = Free
  /\ at = [c \in Client |-> "idle"]
  /\ op = [c \in Client |-> "none"]
  /\ view = [c \in Client |-> Created]

\* What a process does once it has called an operation.
Operation(c) == \/ Acquire(c) \/ TimesOut(c) \/ Fetch(c) \/ Compare(c) \/ CreateRevision(c)
                \/ WriteTemporary(c) \/ Replace(c) \/ Raise(c) \/ Release(c)

Next == \E c \in Client : \/ Load(c)
                          \/ \E o \in Op : Call(c, o)
                          \/ Operation(c)
                          \/ Crash(c)

\* A process that runs goes on with its operation: nothing in it waits
\* without a deadline.
Fairness == \A c \in Client : WF_vars(Operation(c))

Spec     == Init /\ [][Next]_vars
FairSpec == Spec /\ Fairness

-----------------------------------------------------------------------------

StateType == [log : Seq(Client), gen : Nat, revs : Nat]

\* Types, and who holds the state lock: the one process inside an operation.
TypeOK ==
  /\ file \in StateType
  /\ artifacts \subseteq Nat
  /\ temps \subseteq Client
  /\ lock \in Client \cup {Free}
  /\ at \in [Client -> Waiting \cup Holding]
  /\ op \in [Client -> Op \cup {"none"}]
  /\ view \in [Client -> StateType]
  /\ \A c \in Client : at[c] \in Holding <=> lock = c

\* The store is an atomic register: no interleaving of update(), save(),
\* lock-free loads, timeouts and crashes loses an update, repeats one or shows
\* a value that never was.
Atomic == INSTANCE AtomicStore WITH log <- file.log, seen <- [c \in Client |-> view[c].log]
ImplementsAtomicStore == Atomic!Spec

\* A revision process.md lists can be read back: its artifact was stored before
\* the state that names it (create_revision inside the mutator of `add`).
RevisionsAreStored == 1..file.revs \subseteq artifacts

\* Every call returns unless its process dies: also when a holder of the lock
\* dies, or others keep taking it (FileLock.acquire, __exit__).
CallsReturn == \A c \in Client : at[c] = "lock" ~> at[c] \in {"idle", "dead"}

-----------------------------------------------------------------------------
(* Why the register is atomic.                                             *)

\* A state with the current generation is the current state, and so is the one
\* a process is about to build on.
StoreInv ==
  \A c \in Client : /\ view[c].gen <= file.gen
                    /\ view[c].gen = file.gen => view[c] = file
                    /\ at[c] \in {"create", "write", "replace"} => view[c] = file

\* And the artifact of a revision about to be listed exists.
RevisionsInv ==
  /\ RevisionsAreStored
  /\ \A c \in Client : at[c] \in {"write", "replace"} /\ op[c] = "add" =>
       view[c].revs + 1 \in artifacts

=============================================================================
