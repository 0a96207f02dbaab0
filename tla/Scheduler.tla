----------------------------- MODULE Scheduler -----------------------------
(***************************************************************************)
(* Scheduler: the validation of the task graph (Kahn's algorithm) and the  *)
(* greedy choice of the next wave, as the controller uses them: a new      *)
(* Scheduler over the active tasks before each wave, whose tasks then end  *)
(* COMPLETED or blocked unless the wave is cut off; and, when nothing is   *)
(* runnable or the run was stopped, a resume that sets tasks to RETRYING.  *)
(*                                                                         *)
(* The code is sequential; each turn of its two loops is a step so that    *)
(* the loops' invariants can be stated.  Tasks and dependencies are spoken *)
(* of by places in the list, the order the loops go through it; once ids   *)
(* are known to differ a place is as good as an id.  RUNNING stands for    *)
(* VERIFYING and REVIEWING too, BLOCKED for INTEGRATION_BLOCKED.           *)
(*                                                                         *)
(* An operator X_Y is a mutant of X, which Next does not use: the code     *)
(* with a plausible bug Y that a property must catch.                      *)
(***************************************************************************)
EXTENDS Scopes, Positions, Waves, Functions

CONSTANTS
  TaskLists,   \* lists of task specs to schedule
  Lock,        \* names of resource locks
  Files,       \* files a task may write
  MaxWorkers   \* RunConfig.max_workers

TaskSpec == [id : Nat, deps : Seq(Nat), scopes : SUBSET Scope, locks : SUBSET Lock,
             parallel : BOOLEAN]

ASSUME FileAssumption   == Files \subseteq Path
ASSUME ListAssumption   == \A list \in TaskLists : list \in Seq(TaskSpec)
ASSUME WorkerAssumption == MaxWorkers \in Nat \ {0}

VARIABLES
  tasks,     \* the task list
  stat,      \* their statuses
  indegree,  \* _validate: dependencies of each task not visited yet
  queue,     \* _validate: tasks to visit
  visited,   \* _validate: how many were
  next,      \* next_wave: the task to consider
  selected,  \* next_wave: the tasks of the wave, so far
  pc

vars == <<tasks, stat, indegree, queue, visited, next, selected, pc>>

Ids         == DOMAIN tasks
DepsOf(t)   == {tasks[t].deps[i] : i \in DOMAIN tasks[t].deps}
Completed   == {t \in Ids : stat[t] = "COMPLETED"}
Blocked     == {t \in Ids : stat[t] = "BLOCKED"}
Running     == {t \in Ids : stat[t] = "RUNNING"}

UniqueIds == \A t, u \in Ids : tasks[t].id = tasks[u].id => t = u

\* How often t lists d: depends_on may repeat an id.
Mentions(t, d) == Cardinality({i \in DOMAIN tasks[t].deps : tasks[t].deps[i] = d})

-----------------------------------------------------------------------------

Compatible_GlobalRight(l, r) ==
  /\ tasks[l].parallel /\ tasks[r].parallel
  /\ tasks[l].locks \cap tasks[r].locks = {}
  /\ \A scope \in tasks[r].scopes : ~IsGlobal(scope)
  /\ \A lhs \in tasks[l].scopes, rhs \in tasks[r].scopes : ~Overlap(lhs, rhs)

Compatible(l, r) ==
  /\ tasks[l].parallel /\ tasks[r].parallel
  /\ tasks[l].locks \cap tasks[r].locks = {}
  /\ \A scope \in tasks[l].scopes \cup tasks[r].scopes : ~IsGlobal(scope)
  /\ \A lhs \in tasks[l].scopes, rhs \in tasks[r].scopes : ~Overlap(lhs, rhs)

\* Pairs of tasks compatible() refuses to run together.
Clashing == {pair \in Ids \X Ids : ~Compatible(pair[1], pair[2])}

Ready_Fresh == {t \in Ids : stat[t] \in {"PENDING", "READY"} /\ DepsOf(t) \subseteq Completed}

Ready == {t \in Ids : /\ stat[t] \in {"PENDING", "READY", "RETRYING"}
                      /\ DepsOf(t) \subseteq Completed}

-----------------------------------------------------------------------------

\* The loop of _run: a new Scheduler, unless every task is COMPLETED.
Construct ==
  /\ pc = "new"
  /\ Completed # Ids
  /\ UniqueIds
  /\ \A t \in Ids : DepsOf(t) \subseteq Ids
  /\ indegree' = [t \in Ids |-> Len(tasks[t].deps)]
  /\ queue' = InOrder({t \in Ids : tasks[t].deps = <<>>})
  /\ visited' = 0
  /\ pc' = "validate"
  /\ UNCHANGED <<tasks, stat, next, selected>>

\* ValidationError: two tasks have one id.
Duplicate ==
  /\ pc = "new"
  /\ Completed # Ids
  /\ ~UniqueIds
  /\ pc' = "refused"
  /\ UNCHANGED <<tasks, stat, indegree, queue, visited, next, selected>>

\* ValidationError: an unknown dependency.
Unknown ==
  /\ pc = "new"
  /\ Completed # Ids
  /\ UniqueIds
  /\ \E t \in Ids : ~(DepsOf(t) \subseteq Ids)
  /\ pc' = "refused"
  /\ UNCHANGED <<tasks, stat, indegree, queue, visited, next, selected>>

Visit_OnceEach ==
  /\ pc = "validate"
  /\ queue # <<>>
  /\ LET current == Head(queue)
         left    == [t \in Ids |-> indegree[t] - (IF current \in DepsOf(t) THEN 1 ELSE 0)]
     IN  /\ indegree' = left
         /\ queue' = Tail(queue) \o InOrder({t \in Ids : current \in DepsOf(t) /\ left[t] = 0})
  /\ visited' = visited + 1
  /\ UNCHANGED <<tasks, stat, next, selected, pc>>

\* Visiting a task takes it from the dependencies of each of its dependents,
\* as often as they mention it; the last one taken queues the dependent.
Visit ==
  /\ pc = "validate"
  /\ queue # <<>>
  /\ LET current == Head(queue)
         left    == [t \in Ids |-> indegree[t] - Mentions(t, current)]
     IN  /\ indegree' = left
         /\ queue' = Tail(queue) \o InOrder({t \in Ids : current \in DepsOf(t) /\ left[t] = 0})
  /\ visited' = visited + 1
  /\ UNCHANGED <<tasks, stat, next, selected, pc>>

\* ValidationError: a cycle; or the graph is accepted and next_wave begins.
Validated ==
  /\ pc = "validate"
  /\ queue = <<>>
  /\ pc' = IF visited = Len(tasks) THEN "select" ELSE "refused"
  /\ next' = 1
  /\ selected' = {}
  /\ UNCHANGED <<tasks, stat, indegree, queue, visited>>

Consider_Unlimited ==
  /\ pc = "select"
  /\ next \in Ids
  /\ next' = next + 1
  /\ selected' = IF next \in Ready /\ \A t \in selected : Compatible(next, t)
                 THEN selected \cup {next} ELSE selected
  /\ UNCHANGED <<tasks, stat, indegree, queue, visited, pc>>

Consider_StopAtClash ==
  /\ pc = "select"
  /\ next \in Ids
  /\ Cardinality(selected) < MaxWorkers
  /\ IF next \in Ready /\ \A t \in selected : Compatible(next, t)
     THEN selected' = selected \cup {next} /\ next' = next + 1
     ELSE selected' = selected /\ next' = IF next \in Ready THEN Len(tasks) + 1 ELSE next + 1
  /\ UNCHANGED <<tasks, stat, indegree, queue, visited, pc>>

Consider ==
  /\ pc = "select"
  /\ next \in Ids
  /\ Cardinality(selected) < MaxWorkers
  /\ next' = next + 1
  /\ selected' = IF next \in Ready /\ \A t \in selected : Compatible(next, t)
                 THEN selected \cup {next} ELSE selected
  /\ UNCHANGED <<tasks, stat, indegree, queue, visited, pc>>

\* next_wave returns: the wave runs, or the run is blocked without one.
Chosen ==
  /\ pc = "select"
  /\ next \notin Ids \/ Cardinality(selected) = MaxWorkers
  /\ pc' = IF selected = {} THEN "stalled" ELSE "run"
  /\ stat' = [t \in Ids |-> IF t \in selected THEN "RUNNING" ELSE stat[t]]
  /\ UNCHANGED <<tasks, indegree, queue, visited, next, selected>>

\* A task of the wave is integrated, or blocked.
Finish(t, target) ==
  /\ pc = "run"
  /\ t \in selected \cap Running
  /\ stat' = [stat EXCEPT ![t] = target]
  /\ pc' = IF selected \cap Running = {t} THEN "new" ELSE "run"
  /\ UNCHANGED <<tasks, indegree, queue, visited, next, selected>>

\* The wave is cut off; those of S had not begun and are as ready as before, the
\* others stay RUNNING.  After a crash the run is EXECUTING, and the next
\* controller goes on with the loop; an error or Ctrl+C records a stop.
CutOff(S, place) ==
  /\ pc = "run"
  /\ S \subseteq selected \cap Running
  /\ stat' = [t \in Ids |-> IF t \in S THEN "READY" ELSE stat[t]]
  /\ pc' = place
  /\ UNCHANGED <<tasks, indegree, queue, visited, next, selected>>

\* Of a run that is BLOCKED or PAUSED: those of S have attempts left.
Resume(S) ==
  /\ pc \in {"stalled", "stopped"}
  /\ S \subseteq Blocked \cup Running
  /\ stat' = [t \in Ids |-> IF t \in S THEN "RETRYING" ELSE stat[t]]
  /\ pc' = "new"
  /\ UNCHANGED <<tasks, indegree, queue, visited, next, selected>>

Init ==
  /\ tasks \in TaskLists
  /\ stat = [t \in Ids |-> "PENDING"]
  /\ indegree = [t \in Ids |-> 0]
  /\ queue = <<>> /\ visited = 0
  /\ next = 1 /\ selected = {}
  /\ pc = "new"

Next == \/ Construct \/ Duplicate \/ Unknown \/ Visit \/ Validated \/ Consider \/ Chosen
        \/ \E t \in Ids : Finish(t, "COMPLETED") \/ Finish(t, "BLOCKED")
        \/ \E S \in SUBSET Ids : CutOff(S, "new") \/ CutOff(S, "stopped") \/ Resume(S)

Spec == Init /\ [][Next]_vars

-----------------------------------------------------------------------------

Status == {"PENDING", "READY", "RUNNING", "RETRYING", "COMPLETED", "BLOCKED"}

\* Types, and a wave is never larger than max_workers.
TypeOK ==
  /\ tasks \in Seq(TaskSpec)
  /\ stat \in [Ids -> Status]
  /\ indegree \in [Ids -> Int]
  /\ queue \in Seq(Ids) /\ visited \in Nat
  /\ next \in Nat \ {0}
  /\ selected \in SUBSET Ids /\ IsFiniteSet(selected) /\ Cardinality(selected) <= MaxWorkers
  /\ pc \in {"new", "validate", "refused", "select", "run", "stalled", "stopped"}

\* Ids differ, no dependency is unknown, and no set of tasks waits for itself.
WellFounded ==
  /\ UniqueIds
  /\ \A t \in Ids : DepsOf(t) \subseteq Ids
  /\ \A S \in (SUBSET Ids) \ {{}} : \E t \in S : DepsOf(t) \cap S = {}

\* The validation refuses exactly the lists that have an id twice, an unknown
\* dependency or a cycle, also when depends_on repeats an id
\* (Scheduler._validate).
AcceptsExactlyWellFounded ==
  /\ pc = "refused" => ~WellFounded
  /\ pc \in {"select", "run", "stalled", "stopped"} => WellFounded

\* Two tasks of one wave share no resource lock and no path both may write
\* (Scheduler.compatible against scope_owns_path, which is what the integrator
\* enforces afterwards).
WavesAreIsolated ==
  pc = "run" =>
    \A t, u \in selected : t # u =>
      /\ tasks[t].locks \cap tasks[u].locks = {}
      /\ \A lhs \in tasks[t].scopes, rhs \in tasks[u].scopes :
           ~\E path \in Files : Owns(lhs, path) /\ Owns(rhs, path)

\* A task that may write a lock file, a root manifest or a migration runs
\* alone (is_global_scope).
GlobalRunsAlone ==
  pc = "run" =>
    \A t \in selected : (\E scope \in tasks[t].scopes : IsGlobal(scope)) => selected = {t}

\* What the loop returns is a wave as Controller understands it: ready tasks
\* without a clash, and nobody who could have joined is left out (next_wave).
ReturnsWave ==
  [][pc = "select" /\ pc' # "select" => IsWaveOf(selected', Ready, Clashing, MaxWorkers)]_vars

\* The run gives up without a wave only when every task left is blocked, was cut
\* off and not prepared for a retry, or waits, directly or not, for one of these:
\* no set of the others could go on by itself.  One that was resumed is among
\* the others.  (_run, next_wave; after a crash _run comes here without
\* _prepare_resumed_tasks, so that nothing need be blocked.)
StalledByStopped ==
  pc = "stalled" =>
    \A S \in SUBSET (Ids \ (Completed \cup Blocked \cup Running)) :
      S # {} => \E t \in S : ~(DepsOf(t) \subseteq S \cup Completed)

-----------------------------------------------------------------------------
(* The inductive invariants behind the first and the last of them.         *)

\* The tasks visited so far: nothing is left to wait for, and not in the queue.
Seen == {t \in Ids : indegree[t] = 0 /\ t \notin Range(queue)}

\* The indegree of a task counts the entries of its list that are not visited,
\* so that the queue has the tasks next in an order the graph allows.
KahnInv ==
  pc = "validate" =>
    /\ UniqueIds
    /\ \A t \in Ids : DepsOf(t) \subseteq Ids
    /\ IsInjective(queue) /\ \A i \in DOMAIN queue : indegree[queue[i]] = 0
    /\ \A t \in Ids : indegree[t] = Cardinality({i \in DOMAIN tasks[t].deps :
                                                   tasks[t].deps[i] \notin Seen})
    /\ visited = Cardinality(Seen)
    /\ \A S \in (SUBSET Seen) \ {{}} : \E t \in S : DepsOf(t) \cap S = {}

\* A run that stalled has nothing ready.
StallInv == pc = "stalled" => Ready = {}

=============================================================================
