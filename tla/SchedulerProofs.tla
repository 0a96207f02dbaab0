-------------------------- MODULE SchedulerProofs --------------------------
(***************************************************************************)
(* Proofs about Scopes and Scheduler, for any paths, tasks and number of   *)
(* workers: the overlap test is exact, and therefore no two tasks of a     *)
(* wave may write the same file.                                           *)
(***************************************************************************)
EXTENDS Scheduler, PositionProofs, SequenceTheorems

LEMMA DirectoryOwns ==
  ASSUME NEW dir \in Path, NEW name \in Segment
  PROVE  /\ Append(dir, name) \in Path
         /\ Begins(dir, Append(dir, name))
         /\ Len(dir) < Len(Append(dir, name))
<1>1. dir \in Seq(Segment)
  BY DEF Path
<1>2. /\ Append(dir, name) \in Seq(Segment)
      /\ Len(Append(dir, name)) = Len(dir) + 1
      /\ \A i \in 1..Len(dir) : Append(dir, name)[i] = dir[i]
  BY <1>1, AppendProperties
<1>3. Append(dir, name) # <<>>
  BY <1>1, AppendProperties
<1>4. QED BY <1>1, <1>2, <1>3 DEF Path, Begins

LEMMA SharedFileOverlaps ==
  ASSUME NEW lhs \in Scope, NEW rhs \in Scope, NEW path \in Path,
         Owns(lhs, path), Owns(rhs, path)
  PROVE  Overlap(lhs, rhs)
<1> USE DEF Scope, Overlap, Contains, Owns
<1>1. CASE ~lhs.dir /\ ~rhs.dir
  <2>1. lhs.path = rhs.path /\ lhs.dir = rhs.dir
    BY <1>1
  <2>2. lhs = rhs
    BY <2>1
  <2>3. QED BY <2>2
<1>2. CASE lhs.dir /\ ~rhs.dir
  BY <1>2
<1>3. CASE ~lhs.dir /\ rhs.dir
  BY <1>3
<1>4. CASE lhs.dir /\ rhs.dir
  <2>1. Len(lhs.path) \in Nat /\ Len(rhs.path) \in Nat /\ Len(path) \in Nat
    BY DEF Path
  <2>2. CASE Len(lhs.path) <= Len(rhs.path)
    BY <1>4, <2>1, <2>2 DEF Begins
  <2>3. CASE Len(rhs.path) <= Len(lhs.path)
    BY <1>4, <2>1, <2>3 DEF Begins
  <2>4. QED BY <2>1, <2>2, <2>3
<1>5. QED BY <1>1, <1>2, <1>3, <1>4

LEMMA ContainedSharesFile ==
  ASSUME NEW lhs \in Scope, NEW rhs \in Scope, Contains(lhs, rhs)
  PROVE  \E path \in Path : Owns(lhs, path) /\ Owns(rhs, path)
<1>1. lhs.path \in Path /\ rhs.path \in Path
  BY DEF Scope
<1>2. Len(lhs.path) \in Nat /\ Len(rhs.path) \in Nat
  BY <1>1 DEF Path
<1>3. CASE rhs.dir
  <2>1. PICK name \in Segment : TRUE
    BY SegmentAssumption
  <2> DEFINE below == Append(rhs.path, name)
  <2>2. below \in Path /\ Begins(rhs.path, below) /\ Len(rhs.path) < Len(below)
    BY <1>1, DirectoryOwns
  <2>3. Len(below) \in Nat
    BY <2>2 DEF Path
  <2>4. Begins(lhs.path, below) /\ Len(lhs.path) < Len(below)
    BY <1>2, <2>2, <2>3 DEF Contains, Begins
  <2>5. QED BY <1>3, <2>2, <2>4 DEF Owns, Contains
<1>4. CASE ~rhs.dir
  BY <1>1, <1>4 DEF Owns, Contains
<1>5. QED BY <1>3, <1>4

\* scopes_overlap is exact: two scopes overlap if and only if some path is
\* owned by both, for paths of any depth.
THEOREM OverlapIsExact ==
  ASSUME NEW lhs \in Scope, NEW rhs \in Scope
  PROVE  Overlap(lhs, rhs) <=> \E path \in Path : Owns(lhs, path) /\ Owns(rhs, path)
<1>1. ASSUME NEW path \in Path, Owns(lhs, path), Owns(rhs, path)
      PROVE  Overlap(lhs, rhs)
  BY <1>1, SharedFileOverlaps
<1>2. ASSUME lhs = rhs
      PROVE  \E path \in Path : Owns(lhs, path) /\ Owns(rhs, path)
  <2>1. lhs.path \in Path
    BY DEF Scope
  <2>2. CASE lhs.dir
    <3>1. Contains(lhs, rhs)
      BY <1>2, <2>1, <2>2 DEF Contains, Begins, Path
    <3>2. QED BY <3>1, ContainedSharesFile
  <2>3. CASE ~lhs.dir
    BY <1>2, <2>1, <2>3 DEF Owns
  <2>4. QED BY <2>2, <2>3
<1>3. QED BY <1>1, <1>2, ContainedSharesFile DEF Overlap

-----------------------------------------------------------------------------

\* The tasks of the wave were compatible when they were selected, and the task
\* list does not change.
WaveInv == /\ tasks \in Seq(TaskSpec)
           /\ selected \subseteq Ids
           /\ \A t, u \in selected : t # u => Compatible(t, u)

LEMMA CompatibleSymmetric ==
  ASSUME NEW t, NEW u, Compatible(t, u)
  PROVE  Compatible(u, t)
BY DEF Compatible, Overlap

LEMMA WaveInit == Init => WaveInv
BY ListAssumption DEF Init, WaveInv

LEMMA WaveNext == WaveInv /\ [Next]_vars => WaveInv'
<1> SUFFICES ASSUME WaveInv, [Next]_vars PROVE WaveInv'
  OBVIOUS
<1>1. UNCHANGED tasks
  BY DEF Next, vars, Construct, Duplicate, Unknown, Visit, Validated, Consider, Chosen,
         Finish, CutOff, Resume
<1>2. \A t, u : Compatible(t, u)' <=> Compatible(t, u)
  BY <1>1 DEF Compatible
<1>3. CASE UNCHANGED selected
  BY <1>1, <1>2, <1>3 DEF WaveInv, Ids
<1>4. CASE Validated
  BY <1>1, <1>4 DEF Validated, WaveInv
<1>5. CASE Consider
  <2>1. CASE next \in Ready /\ \A t \in selected : Compatible(next, t)
    <3>1. selected' = selected \cup {next} /\ next \in Ids
      BY <1>5, <2>1 DEF Consider
    <3>2. \A t \in selected : Compatible(next, t) /\ Compatible(t, next)
      BY <2>1, CompatibleSymmetric
    <3>3. \A t, u \in selected' : t # u => Compatible(t, u)
      BY <3>1, <3>2 DEF WaveInv
    <3>4. QED BY <1>1, <1>2, <3>1, <3>3 DEF WaveInv, Ids
  <2>2. CASE ~(next \in Ready /\ \A t \in selected : Compatible(next, t))
    BY <1>3, <1>5, <2>2 DEF Consider
  <2>3. QED BY <2>1, <2>2
<1>6. QED
  BY <1>3, <1>4, <1>5
  DEF Next, vars, Construct, Duplicate, Unknown, Visit, Chosen, Finish, CutOff, Resume

LEMMA WaveHolds == Spec => []WaveInv
BY WaveInit, WaveNext, PTL DEF Spec

\* No two tasks of a wave may write the same file or need the same lock: what
\* the integrator later accepts of one it will not accept of the other.
THEOREM WavesIsolated == Spec => []WavesAreIsolated
<1>1. WaveInv => WavesAreIsolated
  <2> SUFFICES ASSUME WaveInv, NEW t \in selected, NEW u \in selected, t # u
               PROVE  /\ tasks[t].locks \cap tasks[u].locks = {}
                      /\ \A lhs \in tasks[t].scopes, rhs \in tasks[u].scopes :
                           ~\E path \in Files : Owns(lhs, path) /\ Owns(rhs, path)
    BY DEF WavesAreIsolated
  <2>1. Compatible(t, u)
    BY DEF WaveInv
  <2>2. tasks[t] \in TaskSpec /\ tasks[u] \in TaskSpec
    BY DEF WaveInv, Ids
  <2>3. tasks[t].scopes \subseteq Scope /\ tasks[u].scopes \subseteq Scope
    BY <2>2 DEF TaskSpec
  <2>4. QED BY <2>1, <2>3, SharedFileOverlaps, FileAssumption DEF Compatible
<1>2. QED BY <1>1, WaveHolds, PTL

\* A task with a global scope never shares a wave.
THEOREM GlobalsRunAlone == Spec => []GlobalRunsAlone
<1>1. WaveInv => GlobalRunsAlone
  BY DEF WaveInv, GlobalRunsAlone, Compatible
<1>2. QED BY <1>1, WaveHolds, PTL

-----------------------------------------------------------------------------

\* Only ready tasks are selected, and one the loop has gone past was selected or
\* clashes with one that was.
ConsideredInv ==
  /\ tasks \in Seq(TaskSpec)
  /\ next \in Nat \ {0}
  /\ pc = "select" => selected \subseteq Ready
  /\ pc = "select" => \A t \in Ready : t < next =>
                        t \in selected \/ \E u \in selected : ~Compatible(t, u)

LEMMA ConsideredNext == ConsideredInv /\ [Next]_vars => ConsideredInv'
<1> SUFFICES ASSUME ConsideredInv, [Next]_vars PROVE ConsideredInv'
  OBVIOUS
<1>1. UNCHANGED tasks
  BY DEF Next, vars, Construct, Duplicate, Unknown, Visit, Validated, Consider, Chosen,
         Finish, CutOff, Resume
<1>2. \A t, u : Compatible(t, u)' <=> Compatible(t, u)
  BY <1>1 DEF Compatible
<1>3. ASSUME UNCHANGED next, pc' # "select" PROVE ConsideredInv'
  BY <1>1, <1>3 DEF ConsideredInv
<1>4. CASE Validated
  <2>1. next' = 1 /\ \A t \in Ids : ~(t < 1)
    BY <1>4 DEF Validated, ConsideredInv, Ids
  <2>2. Ready' \subseteq Ids /\ selected' = {}
    BY <1>1, <1>4 DEF Ready, Ids, Validated
  <2>3. QED BY <1>1, <2>1, <2>2 DEF ConsideredInv
<1>5. CASE Consider
  <2>1. Ready' = Ready /\ next' = next + 1 /\ selected \subseteq selected'
    BY <1>1, <1>5 DEF Consider, Ready, Completed, DepsOf, Ids
  <2>2. next \in Ready => next \in selected' \/ \E u \in selected' : ~Compatible(next, u)
    BY <1>5 DEF Consider
  <2>3. \A t \in Ready : t \in Nat
    BY DEF Ready, Ids, ConsideredInv
  <2>4. \A t \in Ready : t < next + 1 => t < next \/ t = next
    BY <2>3 DEF ConsideredInv
  <2>5. pc = "select" /\ pc' = pc
    BY <1>5 DEF Consider
  <2>6. \A t \in Ready' : t < next' =>
           t \in selected' \/ \E u \in selected' : ~Compatible(t, u)
    BY <2>1, <2>2, <2>4, <2>5 DEF ConsideredInv
  <2>7. selected' \subseteq Ready'
    BY <1>5, <2>1, <2>5 DEF Consider, ConsideredInv
  <2>8. QED BY <1>1, <1>2, <2>1, <2>6, <2>7 DEF ConsideredInv
<1>6. CASE UNCHANGED vars
  BY <1>1, <1>2, <1>6 DEF vars, ConsideredInv, Ready, Completed, DepsOf, Ids
<1>7. CASE Visit
  BY <1>1, <1>3, <1>7 DEF Visit
<1>8. QED
  BY <1>3, <1>4, <1>5, <1>6, <1>7
  DEF Next, Construct, Duplicate, Unknown, Chosen, Finish, CutOff, Resume

-----------------------------------------------------------------------------
(* Kahn's algorithm.                                                       *)

LEMMA TaskTypes ==
  ASSUME tasks \in Seq(TaskSpec)
  PROVE  /\ Len(tasks) \in Nat /\ Ids = 1..Len(tasks)
         /\ IsFiniteSet(Ids) /\ Cardinality(Ids) = Len(tasks)
         /\ \A t \in Ids : /\ tasks[t].deps \in Seq(Nat)
                           /\ Len(tasks[t].deps) \in Nat
                           /\ DOMAIN tasks[t].deps = 1..Len(tasks[t].deps)
                           /\ IsFiniteSet(DOMAIN tasks[t].deps)
                           /\ Cardinality(DOMAIN tasks[t].deps) = Len(tasks[t].deps)
<1>1. Len(tasks) \in Nat /\ Ids = 1..Len(tasks)
  BY DEF Ids
<1>2. \A n \in Nat : IsFiniteSet(1..n) /\ Cardinality(1..n) = n
  BY FS_Interval
<1>3. \A t \in Ids : tasks[t].deps \in Seq(Nat)
  <2>1. \A t \in Ids : tasks[t] \in TaskSpec
    BY DEF Ids
  <2>2. QED BY <2>1 DEF TaskSpec
<1>4. \A t \in Ids : /\ Len(tasks[t].deps) \in Nat
                     /\ DOMAIN tasks[t].deps = 1..Len(tasks[t].deps)
  BY <1>3
<1>5. QED BY <1>1, <1>2, <1>3, <1>4

\* The tasks queued by a step, in the order of the list.
LEMMA QueuedTypes ==
  ASSUME tasks \in Seq(TaskSpec), NEW S \in SUBSET Ids
  PROVE  /\ InOrder(S) \in Seq(Ids) /\ IsInjective(InOrder(S)) /\ Range(InOrder(S)) = S
<1>1. /\ InOrder(S) \in Seq(S) /\ IsInjective(InOrder(S)) /\ Range(InOrder(S)) = S
  BY TaskTypes, InOrderLists
<1>2. QED BY <1>1

LEMMA MentionsType ==
  ASSUME tasks \in Seq(TaskSpec), NEW t \in Ids, NEW d
  PROVE  Mentions(t, d) \in Nat /\ (Mentions(t, d) = 0 <=> d \notin DepsOf(t))
<1> DEFINE E == {i \in DOMAIN tasks[t].deps : tasks[t].deps[i] = d}
<1>1. IsFiniteSet(E)
  BY TaskTypes, FS_Subset
<1>2. Cardinality(E) \in Nat /\ (Cardinality(E) = 0 <=> E = {})
  BY <1>1, FS_CardinalityType, FS_EmptySet
<1>3. E = {} <=> d \notin DepsOf(t)
  BY DEF DepsOf
<1>4. QED BY <1>2, <1>3 DEF Mentions

LEMMA TypeNext == TypeOK /\ [Next]_vars => TypeOK'
<1> SUFFICES ASSUME TypeOK, [Next]_vars PROVE TypeOK'
  OBVIOUS
<1>1. tasks' = tasks /\ Ids' = Ids /\ tasks \in Seq(TaskSpec)
  BY DEF TypeOK, Ids, Next, vars, Construct, Duplicate, Unknown, Visit, Validated, Consider, Chosen,
         Finish, CutOff, Resume
<1>2. CASE Construct
  <2>1. InOrder({t \in Ids : tasks[t].deps = <<>>}) \in Seq(Ids)
    BY <1>1, QueuedTypes
  <2>2. \A t \in Ids : Len(tasks[t].deps) \in Int
    BY <1>1, TaskTypes
  <2>3. indegree' \in [Ids -> Int] /\ queue' \in Seq(Ids)
    BY <1>2, <2>1, <2>2 DEF Construct
  <2>4. QED BY <1>1, <1>2, <2>3 DEF Construct, TypeOK
<1>3. CASE Visit
  <2>1. indegree' \in [Ids -> Int]
    <3>1. \A t \in Ids : indegree[t] - Mentions(t, Head(queue)) \in Int
      BY <1>1, MentionsType DEF TypeOK
    <3>2. QED BY <1>3, <3>1 DEF Visit
  <2>2. queue' \in Seq(Ids)
    <3>1. \A S \in SUBSET Ids : InOrder(S) \in Seq(Ids)
      BY <1>1, QueuedTypes
    <3>2. Tail(queue) \in Seq(Ids)
      BY <1>3, HeadTailProperties DEF Visit, TypeOK
    <3>3. \E S \in SUBSET Ids : queue' = Tail(queue) \o InOrder(S)
      BY <1>3 DEF Visit
    <3>4. QED BY <3>1, <3>2, <3>3, ConcatProperties
  <2>3. QED BY <1>1, <1>3, <2>1, <2>2 DEF Visit, TypeOK
<1>4. CASE Validated
  BY <1>1, <1>4, FS_EmptySet, WorkerAssumption DEF Validated, TypeOK
<1>5. CASE Consider
  <2>0. next' \in Nat \ {0} /\ UNCHANGED <<stat, indegree, queue, visited, pc>>
    BY <1>5 DEF Consider, TypeOK
  <2>1. CASE selected' = selected
    BY <1>1, <2>0, <2>1 DEF TypeOK
  <2>2. CASE selected' = selected \cup {next}
    <3>1. /\ IsFiniteSet(selected')
          /\ Cardinality(selected') \in {Cardinality(selected), Cardinality(selected) + 1}
      BY <2>2, FS_AddElement DEF TypeOK
    <3>2. Cardinality(selected) \in Nat
      BY FS_CardinalityType DEF TypeOK
    <3>3. Cardinality(selected') <= MaxWorkers
      BY <1>5, <3>1, <3>2, WorkerAssumption DEF Consider
    <3>4. selected' \subseteq Ids
      BY <1>5, <2>2 DEF Consider, TypeOK
    <3>5. QED BY <1>1, <2>0, <3>1, <3>3, <3>4 DEF TypeOK
  <2>3. QED BY <1>5, <2>1, <2>2 DEF Consider
<1>6. CASE Chosen
  BY <1>1, <1>6 DEF Chosen, TypeOK, Status
<1>7. CASE Unknown
  BY <1>1, <1>7 DEF Unknown, TypeOK
<1>8. ASSUME NEW t \in Ids, NEW target \in {"COMPLETED", "BLOCKED"}, Finish(t, target)
      PROVE  TypeOK'
  BY <1>1, <1>8 DEF Finish, TypeOK, Status
<1>9. ASSUME NEW S \in SUBSET Ids, CutOff(S, "new") \/ CutOff(S, "stopped") \/ Resume(S)
      PROVE  TypeOK'
  <2>1. stat' \in [Ids -> Status] /\ pc' \in {"new", "stopped"}
    BY <1>9 DEF CutOff, Resume, TypeOK, Status
  <2>2. QED BY <1>1, <1>9, <2>1 DEF CutOff, Resume, TypeOK
<1>10. CASE UNCHANGED vars
  BY <1>1, <1>10 DEF vars, TypeOK
<1>11. CASE Duplicate
  BY <1>1, <1>11 DEF Duplicate, TypeOK
<1>12. QED
  BY <1>2, <1>3, <1>4, <1>5, <1>6, <1>7, <1>8, <1>9, <1>10, <1>11 DEF Next

LEMMA TypeInit == Init => TypeOK
BY ListAssumption, FS_EmptySet, WorkerAssumption DEF Init, TypeOK, Status, Ids

\* The entries of a task's list that are not in a set.
Waits(t, S) == {i \in DOMAIN tasks[t].deps : tasks[t].deps[i] \notin S}

LEMMA WaitsTypes ==
  ASSUME tasks \in Seq(TaskSpec), NEW t \in Ids, NEW S
  PROVE  /\ IsFiniteSet(Waits(t, S)) /\ Cardinality(Waits(t, S)) \in Nat
         /\ Cardinality(Waits(t, S)) = 0 <=> DepsOf(t) \subseteq S
<1>1. IsFiniteSet(Waits(t, S))
  BY TaskTypes, FS_Subset DEF Waits
<1>2. Cardinality(Waits(t, S)) \in Nat /\ (Cardinality(Waits(t, S)) = 0 <=> Waits(t, S) = {})
  BY <1>1, FS_CardinalityType, FS_EmptySet
<1>3. Waits(t, S) = {} <=> DepsOf(t) \subseteq S
  BY DEF DepsOf, Waits
<1>4. QED BY <1>1, <1>2, <1>3

\* One more task visited.
LEMMA WaitsLess ==
  ASSUME tasks \in Seq(TaskSpec), NEW t \in Ids, NEW S, NEW c, c \notin S
  PROVE  Cardinality(Waits(t, S \cup {c})) = Cardinality(Waits(t, S)) - Mentions(t, c)
<1> DEFINE E == {i \in DOMAIN tasks[t].deps : tasks[t].deps[i] = c}
<1>1. Waits(t, S) \cap E = E /\ Waits(t, S) \ E = Waits(t, S \cup {c})
  BY DEF Waits
<1>2. IsFiniteSet(Waits(t, S))
  BY WaitsTypes
<1> HIDE DEF E
<1>3. Cardinality(Waits(t, S) \ E) = Cardinality(Waits(t, S)) - Cardinality(Waits(t, S) \cap E)
  BY <1>2, FS_Difference
<1>4. Cardinality(E) = Mentions(t, c)
  BY DEF E, Mentions
<1>5. QED BY <1>1, <1>3, <1>4

\* What the validation knows between two turns of its loop.
GraphInv == TypeOK /\ KahnInv /\ AcceptsExactlyWellFounded

LEMMA ConstructStep ==
  ASSUME GraphInv, Construct, TypeOK'
  PROVE  GraphInv'
<1> DEFINE S == {t \in Ids : tasks[t].deps = <<>>}
<1>1. /\ tasks' = tasks /\ Ids' = Ids /\ tasks \in Seq(TaskSpec)
      /\ indegree' = [t \in Ids |-> Len(tasks[t].deps)]
      /\ queue' = InOrder(S) /\ visited' = 0 /\ pc' = "validate"
      /\ \A t \in Ids : DepsOf(t) \subseteq Ids
  BY DEF Construct, GraphInv, TypeOK, Ids
<1>2. /\ IsInjective(queue') /\ Range(queue') = S
      /\ \A i \in DOMAIN queue' : queue'[i] \in S
  <2>1. S \in SUBSET Ids
    OBVIOUS
  <2> HIDE DEF S
  <2>2. IsInjective(queue') /\ Range(queue') = S
    BY <1>1, <2>1, QueuedTypes
  <2>3. QED BY <2>2 DEF Range
<1>3. \A t \in Ids : Len(tasks[t].deps) = 0 <=> t \in S
  BY <1>1, TaskTypes
<1>4. Seen' = {}
  BY <1>1, <1>2, <1>3 DEF Seen
<1>5. \A t \in Ids : indegree'[t] = Cardinality({i \in DOMAIN tasks[t].deps :
                                                   tasks[t].deps[i] \notin {}})
  <2>1. \A t \in Ids : {i \in DOMAIN tasks[t].deps : tasks[t].deps[i] \notin {}}
                         = DOMAIN tasks[t].deps
    OBVIOUS
  <2>2. \A t \in Ids : indegree'[t] = Cardinality(DOMAIN tasks[t].deps)
    BY <1>1, TaskTypes
  <2>3. QED BY <2>1, <2>2
<1>6. \A i \in DOMAIN queue' : indegree'[queue'[i]] = 0
  BY <1>1, <1>2, <1>3
<1>7. \A t \in Ids : DepsOf(t)' = DepsOf(t)
  BY <1>1 DEF DepsOf
<1>8. UniqueIds'
  BY <1>1 DEF Construct, UniqueIds
<1>9. KahnInv'
  BY <1>1, <1>2, <1>4, <1>5, <1>6, <1>7, <1>8, FS_EmptySet DEF KahnInv
<1>10. QED BY <1>1, <1>9 DEF GraphInv, AcceptsExactlyWellFounded

LEMMA VisitStep ==
  ASSUME GraphInv, Visit, TypeOK'
  PROVE  GraphInv'
<1>0. PICK c : c = Head(queue)
  OBVIOUS
<1>1. PICK left : left = [t \in Ids |-> indegree[t] - Mentions(t, c)]
  OBVIOUS
<1> DEFINE New == {t \in Ids : c \in DepsOf(t) /\ left[t] = 0}
<1>2. /\ tasks' = tasks /\ Ids' = Ids /\ tasks \in Seq(TaskSpec)
      /\ indegree' = left /\ queue' = Tail(queue) \o InOrder(New)
      /\ visited' = visited + 1 /\ pc = "validate" /\ pc' = "validate"
      /\ queue \in Seq(Ids) /\ queue # <<>> /\ indegree \in [Ids -> Int] /\ TypeOK
  BY <1>0, <1>1 DEF Visit, GraphInv, TypeOK, Ids
<1>3. /\ \A t \in Ids : DepsOf(t) \subseteq Ids
      /\ IsInjective(queue) /\ \A i \in DOMAIN queue : indegree[queue[i]] = 0
      /\ \A t \in Ids : indegree[t] = Cardinality(Waits(t, Seen))
      /\ visited = Cardinality(Seen)
      /\ \A S \in (SUBSET Seen) \ {{}} : \E t \in S : DepsOf(t) \cap S = {}
  BY <1>2 DEF GraphInv, KahnInv, Waits
<1>4. /\ c \in Ids /\ indegree[c] = 0 /\ c \notin Seen
      /\ Range(queue) = Range(Tail(queue)) \cup {c} /\ c \notin Range(Tail(queue))
      /\ Tail(queue) \in Seq(Ids) /\ IsInjective(Tail(queue))
  <2>1. /\ Tail(queue) \in Seq(Ids) /\ Len(queue) \in Nat /\ Len(queue) > 0
        /\ Len(Tail(queue)) = Len(queue) - 1 /\ c = queue[1]
        /\ \A i \in 1..Len(Tail(queue)) : Tail(queue)[i] = queue[i + 1]
    BY <1>0, <1>2, HeadTailProperties, EmptySeq, LenProperties
  <2>2. DOMAIN queue = 1..Len(queue) /\ DOMAIN Tail(queue) = 1..Len(queue) - 1
    BY <1>2, <2>1, LenProperties
  <2>3. 1 \in DOMAIN queue
    BY <2>1, <2>2
  <2>4. c \in Ids /\ indegree[c] = 0 /\ c \in Range(queue)
    <3>1. queue[1] \in Ids /\ indegree[queue[1]] = 0
      BY <1>2, <1>3, <2>3, ElementOfSeq, <2>2
    <3>2. QED BY <2>1, <2>3, <3>1 DEF Range
  <2>5. \A i \in DOMAIN Tail(queue) : i + 1 \in DOMAIN queue /\ i + 1 # 1
    BY <2>1, <2>2
  <2>6. IsInjective(Tail(queue))
    BY <1>3, <2>1, <2>2, <2>5 DEF IsInjective
  <2>7. c \notin Range(Tail(queue))
    BY <1>3, <2>1, <2>2, <2>3, <2>5 DEF IsInjective, Range
  <2>8. Range(queue) = Range(Tail(queue)) \cup {c}
    <3>1. \A i \in DOMAIN queue : i = 1 \/ i - 1 \in DOMAIN Tail(queue)
      BY <2>1, <2>2
    <3>2. \A i \in DOMAIN queue : i = 1 \/ queue[i] = Tail(queue)[i - 1]
      BY <2>1, <2>2, <3>1
    <3>3. Range(queue) \subseteq Range(Tail(queue)) \cup {c}
      BY <2>1, <3>1, <3>2 DEF Range
    <3>4. Range(Tail(queue)) \subseteq Range(queue)
      BY <2>1, <2>2, <2>5 DEF Range
    <3>5. QED BY <2>4, <3>3, <3>4
  <2>9. QED BY <2>1, <2>4, <2>6, <2>7, <2>8 DEF Seen
<1> HIDE DEF New
<1>5. /\ InOrder(New) \in Seq(Ids) /\ IsInjective(InOrder(New)) /\ Range(InOrder(New)) = New
  BY <1>2, QueuedTypes DEF New
<1>6. \A t \in Ids : indegree[t] = 0 => DepsOf(t) \subseteq Seen
  BY <1>2, <1>3, WaitsTypes
<1>7. \A t \in Ids : /\ Mentions(t, c) \in Nat
                     /\ Mentions(t, c) = 0 <=> c \notin DepsOf(t)
                     /\ left[t] = indegree[t] - Mentions(t, c)
  BY <1>1, <1>2, MentionsType
<1>8. \A t \in Ids : indegree[t] = 0 => c \notin DepsOf(t) /\ left[t] = 0 /\ t \notin New
  BY <1>4, <1>6, <1>7 DEF New
<1>9. Range(queue') = Range(Tail(queue)) \cup New
  <2>1. Range(Tail(queue) \o InOrder(New)) = Range(Tail(queue)) \cup Range(InOrder(New))
    BY <1>4, <1>5, RangeConcatenation
  <2>2. QED BY <1>2, <1>5, <2>1
<1>10. Seen' = Seen \cup {c}
  <2>1. ASSUME NEW t \in Ids
        PROVE  t \in Seen' <=> t \in Seen \cup {c}
    <3>1. t \in Seen' <=> left[t] = 0 /\ t \notin Range(Tail(queue)) /\ t \notin New
      BY <1>2, <1>9 DEF Seen
    <3>2. t \in Seen <=> indegree[t] = 0 /\ t \notin Range(Tail(queue)) /\ t # c
      BY <1>4 DEF Seen
    <3>3. CASE indegree[t] = 0
      BY <1>4, <1>8, <3>1, <3>2, <3>3
    <3>4. CASE indegree[t] # 0
      <4>1. left[t] = 0 => Mentions(t, c) # 0
        BY <1>2, <1>7, <3>4
      <4>2. left[t] = 0 => t \in New
        BY <1>7, <4>1 DEF New
      <4>3. QED BY <1>4, <3>1, <3>2, <3>4, <4>2
    <3>5. QED BY <3>3, <3>4
  <2>2. Seen' \subseteq Ids /\ Seen \cup {c} \subseteq Ids
    BY <1>2, <1>4 DEF Seen
  <2>3. QED BY <2>1, <2>2
<1>11. \A t \in Ids : indegree'[t] = Cardinality(Waits(t, Seen \cup {c}))
  BY <1>2, <1>3, <1>4, <1>7, WaitsLess
<1>12. \A t \in Ids : DepsOf(t)' = DepsOf(t)
  BY <1>2 DEF DepsOf
<1>13. visited' = Cardinality(Seen')
  <2>1. IsFiniteSet(Seen)
    BY <1>2, TaskTypes, FS_Subset DEF Seen
  <2>2. QED BY <1>2, <1>3, <1>4, <1>10, <2>1, FS_AddElement
<1>14. ASSUME NEW S \in (SUBSET (Seen \cup {c})) \ {{}}
       PROVE  \E t \in S : DepsOf(t) \cap S = {}
  <2>1. CASE S \ {c} = {}
    <3>1. S = {c} /\ DepsOf(c) \subseteq Seen
      BY <1>4, <1>6, <2>1
    <3>2. QED BY <1>4, <3>1
  <2>2. CASE S \ {c} # {}
    <3>1. PICK t \in S \ {c} : DepsOf(t) \cap (S \ {c}) = {}
      BY <1>3, <2>2
    <3>2. t \in Ids /\ indegree[t] = 0
      BY <3>1 DEF Seen
    <3>3. c \notin DepsOf(t)
      BY <1>8, <3>2
    <3>4. QED BY <3>1, <3>3
  <2>3. QED BY <2>1, <2>2
<1>15. IsInjective(queue') /\ \A i \in DOMAIN queue' : indegree'[queue'[i]] = 0
  <2> DEFINE a == Tail(queue)
             b == InOrder(New)
  <2>1. \A t \in Range(a) : t \in Ids /\ indegree[t] = 0
    <3>1. Range(a) \subseteq Range(queue)
      BY <1>4
    <3>2. \A t \in Range(queue) : t \in Ids /\ indegree[t] = 0
      BY <1>2, <1>3 DEF Range
    <3>3. QED BY <3>1, <3>2
  <2>2. Range(a) \cap Range(b) = {}
    BY <1>5, <1>8, <2>1
  <2> HIDE DEF a, b
  <2>3. /\ Len(a) \in Nat /\ Len(b) \in Nat /\ Len(a \o b) = Len(a) + Len(b)
        /\ DOMAIN a = 1..Len(a) /\ DOMAIN b = 1..Len(b) /\ DOMAIN (a \o b) = 1..Len(a \o b)
        /\ \A i \in 1..Len(a \o b) :
             (a \o b)[i] = IF i <= Len(a) THEN a[i] ELSE b[i - Len(a)]
    BY <1>4, <1>5, ConcatProperties, LenProperties DEF a, b
  <2>4. \A i \in DOMAIN (a \o b) :
          \/ i \in DOMAIN a /\ (a \o b)[i] = a[i]
          \/ i - Len(a) \in DOMAIN b /\ (a \o b)[i] = b[i - Len(a)] /\ i \in Nat
    BY <2>3
  <2>5. IsInjective(a) /\ IsInjective(b)
    BY <1>4, <1>5 DEF a, b
  <2>6. IsInjective(a \o b)
    <3> SUFFICES ASSUME NEW i \in DOMAIN (a \o b), NEW j \in DOMAIN (a \o b),
                        (a \o b)[i] = (a \o b)[j]
                 PROVE  i = j
      BY DEF IsInjective
    <3>1. CASE i \in DOMAIN a /\ (a \o b)[i] = a[i] /\ j \in DOMAIN a /\ (a \o b)[j] = a[j]
      BY <2>5, <3>1 DEF IsInjective
    <3>2. CASE /\ i - Len(a) \in DOMAIN b /\ (a \o b)[i] = b[i - Len(a)]
               /\ j - Len(a) \in DOMAIN b /\ (a \o b)[j] = b[j - Len(a)]
      <4>1. i - Len(a) = j - Len(a)
        BY <2>5, <3>2 DEF IsInjective
      <4>2. QED BY <2>3, <4>1
    <3>3. \A k \in DOMAIN a, l \in DOMAIN b : a[k] # b[l]
      BY <2>2 DEF Range
    <3>4. QED BY <2>4, <3>1, <3>2, <3>3
  <2>7. \A t \in Range(a) \cup Range(b) : left[t] = 0
    <3>1. \A t \in Range(b) : left[t] = 0
      BY <1>5 DEF b, New
    <3>2. QED BY <1>8, <2>1, <3>1
  <2>8. \A i \in DOMAIN (a \o b) : left[(a \o b)[i]] = 0
    BY <2>4, <2>7 DEF Range
  <2>9. QED BY <1>2, <2>6, <2>8 DEF a, b
<1>16. KahnInv'
  <2>1. \A t \in Ids : indegree'[t] = Cardinality({i \in DOMAIN tasks'[t].deps :
                                                     tasks'[t].deps[i] \notin Seen'})
    BY <1>2, <1>10, <1>11 DEF Waits
  <2>2. \A S \in (SUBSET Seen') \ {{}} : \E t \in S : DepsOf(t)' \cap S = {}
    <3> SUFFICES ASSUME NEW S \in (SUBSET Seen') \ {{}}
                 PROVE  \E t \in S : DepsOf(t)' \cap S = {}
      OBVIOUS
    <3>1. PICK t \in S : DepsOf(t) \cap S = {}
      BY <1>10, <1>14
    <3>2. t \in Ids
      BY <1>2, <3>1 DEF Seen
    <3>3. QED BY <1>12, <3>1, <3>2
  <2>3. \A t \in Ids : DepsOf(t)' \subseteq Ids
    BY <1>3, <1>12
  <2>4. UniqueIds'
    BY <1>2 DEF GraphInv, KahnInv, UniqueIds, Visit
  <2>5. QED BY <1>2, <1>13, <1>15, <2>1, <2>2, <2>3, <2>4 DEF KahnInv
<1>17. QED BY <1>2, <1>16 DEF GraphInv, AcceptsExactlyWellFounded

\* When the queue is empty every task was visited, or those left wait for each
\* other.
LEMMA ValidatedStep ==
  ASSUME GraphInv, Validated, TypeOK'
  PROVE  GraphInv'
<1>1. /\ tasks' = tasks /\ Ids' = Ids /\ tasks \in Seq(TaskSpec)
      /\ pc = "validate" /\ queue = <<>>
      /\ pc' = IF visited = Len(tasks) THEN "select" ELSE "refused"
  BY DEF Validated, GraphInv, TypeOK, Ids
<1>2. /\ \A t \in Ids : DepsOf(t) \subseteq Ids
      /\ \A t \in Ids : indegree[t] = Cardinality(Waits(t, Seen))
      /\ visited = Cardinality(Seen)
      /\ \A S \in (SUBSET Seen) \ {{}} : \E t \in S : DepsOf(t) \cap S = {}
  BY <1>1 DEF GraphInv, KahnInv, Waits
<1>3. \A t : DepsOf(t)' = DepsOf(t)
  BY <1>1 DEF DepsOf
<1>4. WellFounded' <=> WellFounded
  BY <1>1, <1>3 DEF WellFounded, UniqueIds
<1>5. Seen \subseteq Ids /\ IsFiniteSet(Ids) /\ Cardinality(Ids) = Len(tasks)
  BY <1>1, TaskTypes DEF Seen
<1>6. CASE Seen = Ids
  <2>1. visited = Len(tasks) /\ WellFounded
    BY <1>1, <1>2, <1>5, <1>6 DEF WellFounded, GraphInv, KahnInv
  <2>2. QED BY <1>1, <1>4, <2>1 DEF GraphInv, KahnInv, AcceptsExactlyWellFounded
<1>7. CASE Seen # Ids
  <2>1. visited # Len(tasks)
    BY <1>2, <1>5, <1>7, FS_Subset
  <2>2. ~WellFounded
    <3> DEFINE S == Ids \ Seen
    <3>1. S \in (SUBSET Ids) \ {{}}
      BY <1>5, <1>7
    <3>2. ASSUME NEW t \in S PROVE DepsOf(t) \cap S # {}
      <4>1. Range(queue) = {}
        BY <1>1 DEF Range
      <4>2. t \in Ids /\ indegree[t] # 0
        BY <3>2, <4>1 DEF Seen
      <4>3. ~(DepsOf(t) \subseteq Seen)
        BY <1>1, <1>2, <4>2, WaitsTypes
      <4>4. QED BY <1>2, <4>2, <4>3
    <3>3. QED BY <3>1, <3>2 DEF WellFounded
  <2>3. QED BY <1>1, <1>4, <2>1, <2>2 DEF GraphInv, KahnInv, AcceptsExactlyWellFounded
<1>8. QED BY <1>6, <1>7

LEMMA GraphNext == GraphInv /\ [Next]_vars => GraphInv'
<1> SUFFICES ASSUME GraphInv, [Next]_vars PROVE GraphInv'
  OBVIOUS
<1>1. TypeOK'
  BY TypeNext DEF GraphInv
<1>2. tasks' = tasks
  BY DEF Next, vars, Construct, Duplicate, Unknown, Visit, Validated, Consider, Chosen,
         Finish, CutOff, Resume
<1>3. \A t : DepsOf(t)' = DepsOf(t)
  BY <1>2 DEF DepsOf
<1>4. WellFounded' <=> WellFounded
  BY <1>2, <1>3 DEF WellFounded, UniqueIds, Ids
<1>5. CASE Duplicate \/ Unknown
  <2>1. ~WellFounded /\ pc' = "refused"
    BY <1>5 DEF Duplicate, Unknown, WellFounded
  <2>2. QED BY <1>1, <1>4, <2>1 DEF GraphInv, KahnInv, AcceptsExactlyWellFounded
<1>6. ASSUME \/ Consider \/ Chosen \/ \E t, target : Finish(t, target)
             \/ \E S : CutOff(S, "new") \/ CutOff(S, "stopped") \/ Resume(S)
      PROVE  GraphInv'
  <2>1. /\ pc \in {"select", "run", "stalled", "stopped"}
        /\ pc' \in {"select", "run", "stalled", "stopped", "new"}
    BY <1>6 DEF Consider, Chosen, Finish, CutOff, Resume
  <2>2. QED BY <1>1, <1>4, <2>1 DEF GraphInv, KahnInv, AcceptsExactlyWellFounded
<1>7. CASE UNCHANGED vars
  <2>1. UNCHANGED <<tasks, stat, indegree, queue, visited, pc>>
    BY <1>7 DEF vars
  <2>2. Seen' = Seen /\ Ids' = Ids
    BY <2>1 DEF Seen, Ids
  <2>3. KahnInv'
    BY <1>3, <2>1, <2>2 DEF GraphInv, KahnInv, UniqueIds
  <2>4. QED BY <1>1, <1>4, <2>1, <2>3 DEF GraphInv, AcceptsExactlyWellFounded
<1>8. QED BY <1>1, <1>5, <1>6, <1>7, ConstructStep, VisitStep, ValidatedStep DEF Next

LEMMA GraphHolds == Spec => []GraphInv
<1>1. Init => GraphInv
  BY TypeInit DEF Init, GraphInv, KahnInv, AcceptsExactlyWellFounded
<1>2. QED BY <1>1, GraphNext, PTL DEF Spec

\* The type invariant, of which the bound on a wave is a part.
THEOREM SchedulerTypeCorrect == Spec => []TypeOK
<1>1. GraphInv => TypeOK
  BY DEF GraphInv
<1>2. QED BY <1>1, GraphHolds, PTL

\* What the loop returns is a wave in the sense of Controller, which lets the run
\* go on with any such wave: nobody who could have joined is left out while there
\* is room.  This is where the two modules meet.
THEOREM WavesImplementController == Spec => ReturnsWave
<1>1. Init => ConsideredInv
  BY ListAssumption DEF Init, ConsideredInv
<1>2. ASSUME TypeOK, WaveInv, ConsideredInv, [Next]_vars
      PROVE  [pc = "select" /\ pc' # "select" =>
                IsWaveOf(selected', Ready, Clashing, MaxWorkers)]_vars
  <2> SUFFICES ASSUME pc = "select", pc' # "select"
               PROVE  IsWaveOf(selected', Ready, Clashing, MaxWorkers)
    OBVIOUS
  <2>1. Chosen
    BY <1>2 DEF Next, vars, Construct, Duplicate, Unknown, Visit, Validated, Consider, Finish,
                CutOff, Resume
  <2>2. /\ selected' = selected
        /\ Cardinality(selected) = MaxWorkers \/ \A t \in Ids : t < next
    BY <1>2, <2>1 DEF Chosen, ConsideredInv, Ids
  <2>3. /\ Ready \subseteq Ids /\ selected \subseteq Ready
        /\ Cardinality(selected) <= MaxWorkers
    BY <1>2 DEF TypeOK, ConsideredInv, Ready
  <2>4. \A t, u \in selected : t # u => <<t, u>> \notin Clashing
    BY <1>2 DEF WaveInv, Clashing
  <2>5. ASSUME Cardinality(selected) # MaxWorkers, NEW t \in Ready \ selected
        PROVE  \E u \in selected : <<t, u>> \in Clashing
    <3>1. \E u \in selected : ~Compatible(t, u)
      BY <1>2, <2>2, <2>3, <2>5 DEF ConsideredInv
    <3>2. QED BY <2>3, <3>1 DEF Clashing
  <2>6. QED BY <2>2, <2>3, <2>4, <2>5 DEF IsWaveOf
<1>3. QED
  BY <1>1, <1>2, ConsideredNext, WaveHolds, SchedulerTypeCorrect, PTL DEF Spec, ReturnsWave

\* The validation as it is written, a set of ids and then Kahn's algorithm,
\* accepts the lists of distinct tasks whose graph is well-founded and no others,
\* for any number of tasks and however often a task repeats a dependency.
THEOREM ValidationIsExact == Spec => []AcceptsExactlyWellFounded
<1>1. GraphInv => AcceptsExactlyWellFounded
  BY DEF GraphInv
<1>2. QED BY <1>1, GraphHolds, PTL

-----------------------------------------------------------------------------
(* When the run gives up.                                                  *)

LEMMA StallNext ==
  ASSUME TypeOK, ConsideredInv, StallInv, [Next]_vars
  PROVE  StallInv'
<1>1. tasks' = tasks /\ Ids' = Ids
  BY DEF Next, vars, Construct, Duplicate, Unknown, Visit, Validated, Consider, Chosen, Finish,
         CutOff, Resume, Ids
<1>2. CASE Chosen
  <2>1. CASE selected = {}
    <3>1. Cardinality(selected) # MaxWorkers
      BY <2>1, FS_EmptySet, WorkerAssumption
    <3>2. next \notin Ids /\ pc = "select" /\ pc' = "stalled"
      BY <1>2, <2>1, <3>1 DEF Chosen
    <3>3. \A t \in Ids : t < next
      BY <3>2 DEF ConsideredInv, Ids
    <3>4. Ready = {}
      BY <2>1, <3>2, <3>3 DEF ConsideredInv, Ready
    <3>5. stat' = stat
      BY <1>2, <2>1 DEF Chosen, TypeOK
    <3>6. Ready' = Ready
      BY <1>1, <3>5 DEF Ready, Completed, DepsOf
    <3>7. QED BY <3>4, <3>6 DEF StallInv
  <2>2. CASE selected # {}
    BY <1>2, <2>2 DEF Chosen, StallInv
  <2>3. QED BY <2>1, <2>2
<1>3. CASE UNCHANGED vars
  BY <1>1, <1>3 DEF vars, StallInv, Ready, Completed, DepsOf
<1>4. ASSUME ~Chosen, ~UNCHANGED vars PROVE pc' # "stalled"
  BY <1>4 DEF Next, Construct, Duplicate, Unknown, Visit, Validated, Consider, Finish, CutOff,
              Resume
<1>5. QED BY <1>2, <1>3, <1>4 DEF StallInv

\* The run only gives up when no task could go on without a resume: every one left
\* is blocked, was cut off, or waits for one that is or was.
THEOREM OnlyStoppedTasksStall == Spec => []StalledByStopped
<1>1. Init => ConsideredInv /\ StallInv
  BY ListAssumption DEF Init, ConsideredInv, StallInv
<1>2. GraphInv /\ ConsideredInv /\ StallInv /\ [Next]_vars => (ConsideredInv /\ StallInv)'
  BY ConsideredNext, StallNext DEF GraphInv
<1>3. GraphInv /\ StallInv => StalledByStopped
  <2> SUFFICES ASSUME GraphInv, StallInv, pc = "stalled",
                      NEW S \in SUBSET (Ids \ (Completed \cup Blocked \cup Running)), S # {},
                      \A t \in S : DepsOf(t) \subseteq S \cup Completed
               PROVE  FALSE
    BY DEF StalledByStopped
  <2>1. PICK t \in S : DepsOf(t) \cap S = {}
    <3>1. WellFounded /\ S \in (SUBSET Ids) \ {{}}
      BY DEF GraphInv, AcceptsExactlyWellFounded
    <3>2. QED BY <3>1 DEF WellFounded
  <2>2. t \in Ids /\ DepsOf(t) \subseteq Completed
    BY <2>1
  <2>3. stat[t] \in {"PENDING", "READY", "RETRYING"}
    <3>1. stat[t] \in Status /\ stat[t] \notin {"COMPLETED", "BLOCKED", "RUNNING"}
      BY <2>1, <2>2 DEF GraphInv, TypeOK, Completed, Blocked, Running
    <3>2. QED BY <3>1 DEF Status
  <2>4. QED BY <2>2, <2>3 DEF Ready, StallInv
<1>4. QED BY <1>1, <1>2, <1>3, GraphHolds, PTL DEF Spec

=============================================================================
