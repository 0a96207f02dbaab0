-------------------------- MODULE ControllerProofs --------------------------
(***************************************************************************)
(* What Controller guarantees for every set of tasks, every plan, every    *)
(* number of controllers and every bound.                                  *)
(***************************************************************************)
EXTENDS Controller, DescentProofs, SequenceTheorems, TLAPS

USE TaskIdAssumption, PlanAssumption, ConfigAssumption, BoundAssumption, NobodyAssumption

\* A run status reached by a legal transition is a run status.
LEMMA TransitionType ==
  ASSUME NEW target \in RunStatus, status \in RunStatus, Transition(target)
  PROVE  status' \in RunStatus
BY DEF Transition

\* Marking every revision APPLIED yields a sequence of revision statuses.
LEMMA AllAppliedType ==
  ASSUME revs \in Seq(RevisionStatus)
  PROVE  AllApplied \in Seq(RevisionStatus)
BY LenProperties, IsASeq DEF AllApplied, RevisionStatus

LEMMA TypeInit == Init => TypeOK
<1> SUFFICES ASSUME Init PROVE TypeOK
  OBVIOUS
<1>1. revs \in Seq(RevisionStatus)
  BY DEF Init, RevisionStatus
<1>2. QED BY <1>1 DEF Init, TypeOK, NoWorkers, RunStatus, RevisionStatus, TaskStatus, OwnerAt,
       WorkerAt, PhaseAt, AwaitingCodex

\* Ending a controller's run keeps the types of what it releases.
LEMMA LeaveType ==
  ASSUME TypeOK, pc # "none", NEW next \in PhaseAt \ {"owner"}, Leave(next)
  PROVE  /\ owner' \in Proc \cup {Nobody}
         /\ pc' \in OwnerAt \cup {"none"}
         /\ pc' = "none" <=> owner' = Nobody
         /\ wpc' \in [TaskId -> WorkerAt]
         /\ prompted' \in Nat /\ planned' \in Nat
         /\ phase' \in [Proc -> PhaseAt]
         /\ \A p \in Proc : phase'[p] = "owner" <=> owner' = p
         /\ snap' \in [Proc -> SUBSET TaskId]
         /\ launches' \in Nat
         /\ adder' \in {"idle", "checked"}
BY DEF TypeOK, Leave, NoWorkers, WorkerAt, PhaseAt

\* A step of the program counter keeps the types of what it moves.
LEMMA StepType ==
  ASSUME TypeOK, NEW from \in OwnerAt, NEW to \in OwnerAt, Step(from, to)
  PROVE  /\ owner' \in Proc \cup {Nobody}
         /\ pc' \in OwnerAt \cup {"none"}
         /\ pc' = "none" <=> owner' = Nobody
         /\ phase' \in [Proc -> PhaseAt]
         /\ \A p \in Proc : phase'[p] = "owner" <=> owner' = p
         /\ launches' \in Nat
         /\ adder' \in {"idle", "checked"}
BY DEF TypeOK, Step, OwnerAt, AwaitingCodex

\* So does a branch of the loop.
LEMMA LoadToType ==
  ASSUME TypeOK, NEW to \in OwnerAt, LoadTo(to), wpc' \in [TaskId -> WorkerAt]
  PROVE  TypeOK'
<1>1. Len(revs) \in Nat
  BY LenProperties DEF TypeOK
<1>2. Step("load", to) /\ "load" \in OwnerAt
  BY DEF LoadTo, OwnerAt
<1>3. QED BY <1>1, <1>2, StepType DEF LoadTo, TypeOK, runVars, taskVars, patchVars

\* Every action keeps the types.
LEMMA TypeNext == TypeOK /\ [Next]_vars => TypeOK'
<1> SUFFICES ASSUME TypeOK, [Next]_vars PROVE TypeOK'
  OBVIOUS
<1> USE DEF runVars, taskVars, patchVars
<1>1. ASSUME NEW t \in TaskId, RecoverApply(t) PROVE TypeOK'
  BY <1>1, StepType DEF RecoverApply, IsFirst, TypeOK, OwnerAt
<1>2. ASSUME NEW t \in TaskId, RecoverMark(t) PROVE TypeOK'
  BY <1>2, StepType DEF RecoverMark, Record, IsFirst, TypeOK, OwnerAt, TaskStatus
<1>3. CASE RecoverDone
  BY <1>3, StepType DEF RecoverDone, TypeOK, OwnerAt
<1>4. CASE LoadUnplanned
  BY <1>4, LoadToType DEF LoadUnplanned, TypeOK, OwnerAt, AwaitingCodex
<1>5. CASE LoadReplan
  BY <1>5, LoadToType DEF LoadReplan, TypeOK, OwnerAt, AwaitingCodex
<1>6. CASE LoadStopped
  BY <1>6, LoadToType DEF LoadStopped, TypeOK, OwnerAt
<1>7. ASSUME NEW W \in SUBSET TaskId, LoadScheduled(W) PROVE TypeOK'
  <2>1. wpc' \in [TaskId -> WorkerAt]
    BY <1>7 DEF LoadScheduled, WorkerAt
  <2>2. \E to \in OwnerAt : LoadTo(to)
    BY <1>7 DEF LoadScheduled, OwnerAt, AwaitingCodex
  <2>3. QED BY <2>1, <2>2, LoadToType
<1>8. CASE PlanEnter
  <2>1. Len(revs) \in Nat
    BY LenProperties DEF TypeOK
  <2>2. QED BY <1>8, <2>1, StepType, TransitionType DEF PlanEnter, TypeOK, OwnerAt, AwaitingCodex, RunStatus
<1>9. ASSUME NEW plan \in InitialPlans, PlanApply(plan) PROVE TypeOK'
  <2>1. IsPlan(plan)
    OBVIOUS
  <2>2. st' \in [TaskId -> TaskStatus \cup {"ABSENT"}] /\ att' \in [TaskId -> Nat]
    BY <1>9 DEF PlanApply, TaskStatus
  <2>3. deps' \in [TaskId -> SUBSET TaskId] /\ base' \in [TaskId -> SUBSET TaskId]
    BY <1>9, <2>1 DEF PlanApply, IsPlan
  <2>4. status' \in RunStatus /\ revs' \in Seq(RevisionStatus)
    BY <1>9, TransitionType, AllAppliedType DEF PlanApply, TypeOK, RunStatus
  <2>5. QED BY <1>9, <2>2, <2>3, <2>4, StepType DEF PlanApply, TypeOK, OwnerAt, AwaitingCodex
<1>10. CASE ReplanEnter
  <2>1. Len(revs) \in Nat
    BY LenProperties DEF TypeOK
  <2>2. QED BY <1>10, <2>1, StepType, TransitionType DEF ReplanEnter, TypeOK, OwnerAt, AwaitingCodex, RunStatus
<1>11. ASSUME NEW plan \in Replans, ReplanApply(plan) PROVE TypeOK'
  <2>1. IsPlan(plan)
    OBVIOUS
  <2>2. st' \in [TaskId -> TaskStatus \cup {"ABSENT"}]
    BY <1>11 DEF ReplanApply, TaskStatus
  <2>3. deps' \in [TaskId -> SUBSET TaskId] /\ dup' \subseteq TaskId
    BY <1>11, <2>1 DEF ReplanApply, IsPlan, TypeOK
  <2>4. status' \in RunStatus /\ revs' \in Seq(RevisionStatus)
    BY <1>11, TransitionType, AllAppliedType DEF ReplanApply, TypeOK, RunStatus
  <2>5. QED BY <1>11, <2>2, <2>3, <2>4, StepType DEF ReplanApply, TypeOK, OwnerAt, AwaitingCodex
<1>12. CASE ToReplanning
  BY <1>12, StepType, TransitionType DEF ToReplanning, TypeOK, OwnerAt, RunStatus
<1>13. CASE ResumeTasks
  BY <1>13, StepType, TransitionType DEF ResumeTasks, TypeOK, OwnerAt, RunStatus, TaskStatus
<1>14. CASE Prepare
  BY <1>14, StepType DEF Prepare, TypeOK, OwnerAt, RunStatus, TaskStatus
<1>15. CASE Gather
  BY <1>15, StepType DEF Gather, TypeOK, OwnerAt
<1>16. ASSUME NEW t \in TaskId, Worker(t) PROVE TypeOK'
  <2> USE DEF Work, TypeOK, WorkerAt, TaskStatus
  <2>1. CASE Begin(t)              BY <2>1 DEF Begin
  <2>2. CASE StartAttempt(t)
    <3>1. st' \in [TaskId -> TaskStatus \cup {"ABSENT"}]
      BY <2>2 DEF StartAttempt
    <3>2. att' \in [TaskId -> Nat]
      BY <2>2 DEF StartAttempt
    <3>3. QED BY <2>2, <3>1, <3>2 DEF StartAttempt
  <2>3. CASE AttemptsExhausted(t)  BY <2>3 DEF AttemptsExhausted
  <2>4. CASE ClaudeCompletes(t)    BY <2>4 DEF ClaudeCompletes, SetTask
  <2>5. CASE ClaudeStops(t)        BY <2>5 DEF ClaudeStops
  <2>6. CASE Verify(t)             BY <2>6 DEF Verify, SetTask
  <2>7. CASE ReviewPasses(t)       BY <2>7 DEF ReviewPasses, SetTask
  <2>8. CASE CaptureFails(t)       BY <2>8 DEF CaptureFails, SetTask
  <2>9. CASE ReviewBlocks(t)       BY <2>9 DEF ReviewBlocks
  <2>10. CASE ReviewRetries(t)     BY <2>10 DEF ReviewRetries, SetTask
  <2>11. QED BY <1>16, <2>1, <2>2, <2>3, <2>4, <2>5, <2>6, <2>7, <2>8, <2>9, <2>10 DEF Worker
<1>17. CASE ToIntegrating
  BY <1>17, StepType, TransitionType DEF ToIntegrating, TypeOK, OwnerAt, RunStatus
<1>18. ASSUME NEW t \in TaskId, IntegrateApply(t) PROVE TypeOK'
  BY <1>18, StepType DEF IntegrateApply, TypeOK, OwnerAt
<1>19. ASSUME NEW t \in TaskId, IntegrateMark(t) PROVE TypeOK'
  BY <1>19, StepType DEF IntegrateMark, Record, Handled, TypeOK, OwnerAt, TaskStatus, WorkerAt
<1>20. ASSUME NEW t \in TaskId, IntegrateConflict(t) PROVE TypeOK'
  BY <1>20, StepType DEF IntegrateConflict, SetTask, Handled, TypeOK, OwnerAt, TaskStatus, WorkerAt
<1>21. ASSUME NEW t \in TaskId, IntegrateBlocked(t) PROVE TypeOK'
  <2>1. st' \in [TaskId -> TaskStatus \cup {"ABSENT"}]
    BY <1>21 DEF IntegrateBlocked, SetTask, TypeOK, TaskStatus
  <2>2. wpc' \in [TaskId -> WorkerAt]
    BY <1>21 DEF IntegrateBlocked, Handled, TypeOK, WorkerAt
  <2>3. QED BY <1>21, <2>1, <2>2, StepType DEF IntegrateBlocked, TypeOK, OwnerAt
<1>22. CASE WaveEnd
  BY <1>22, StepType DEF WaveEnd, TypeOK, OwnerAt
<1>23. CASE ToScheduling
  BY <1>23, StepType, TransitionType DEF ToScheduling, TypeOK, OwnerAt, RunStatus
<1>24. CASE Complete
  BY <1>24, LeaveType DEF Complete, TypeOK, RunStatus, PhaseAt
<1>25. CASE FinalReviewFails
  BY <1>25, StepType DEF FinalReviewFails, TypeOK, OwnerAt, AwaitingCodex
<1>26. CASE Block
  BY <1>26, LeaveType, TransitionType DEF Block, TypeOK, RunStatus, PhaseAt
<1>27. CASE Raise
  BY <1>27, LeaveType DEF Raise, TypeOK, PhaseAt
<1>28. CASE Interrupt
  BY <1>28, LeaveType DEF Interrupt, TypeOK, PhaseAt
<1>29. ASSUME NEW p \in Proc, Launch(p) PROVE TypeOK'
  BY <1>29 DEF Launch, Pending, TypeOK, PhaseAt
<1>30. ASSUME NEW p \in Proc, Before(p) PROVE TypeOK'
  <2>1. CASE Acquire(p)
    BY <2>1 DEF Acquire, TypeOK, PhaseAt, OwnerAt
  <2>2. CASE Refused(p)
    BY <2>2 DEF Refused, TypeOK, PhaseAt
  <2>3. QED BY <1>30, <2>1, <2>2 DEF Before
<1>31. ASSUME NEW p \in Proc, After(p) PROVE TypeOK'
  BY <1>31, TransitionType DEF After, LateWrite, TypeOK, PhaseAt, RunStatus
<1>32. ASSUME NEW p \in Proc, Crash(p) PROVE TypeOK'
  <2>1. CASE owner = p
    BY <1>32, <2>1, LeaveType DEF Crash, TypeOK, PhaseAt
  <2>2. CASE owner # p
    BY <1>32, <2>2 DEF Crash, TypeOK, PhaseAt
  <2>3. QED BY <2>1, <2>2
<1>33. CASE Add
  <2>1. CASE AddCheck
    BY <2>1 DEF AddCheck, ctlVars, TypeOK
  <2>2. CASE AddAppend
    BY <2>2, TransitionType DEF AddAppend, ctlVars, TypeOK, RunStatus, RevisionStatus
  <2>3. CASE AddGivesUp
    BY <2>3 DEF AddGivesUp, ctlVars, TypeOK
  <2>4. QED BY <1>33, <2>1, <2>2, <2>3 DEF Add
<1>34. CASE UNCHANGED vars
  BY <1>34 DEF vars, ctlVars, TypeOK
<1>35. QED
  BY <1>1, <1>2, <1>3, <1>4, <1>5, <1>6, <1>7, <1>8, <1>9, <1>10, <1>11, <1>12, <1>13,
     <1>14, <1>15, <1>16, <1>17, <1>18, <1>19, <1>20, <1>21, <1>22, <1>23, <1>24, <1>25,
     <1>26, <1>27, <1>28, <1>29, <1>30, <1>31, <1>32, <1>33, <1>34
     DEF Next, OwnerStep, Recovery, Load, Planning, Wave, Integration, Ending

\* Every reachable state is well typed.
THEOREM TypeCorrect == Spec => []TypeOK
  BY TypeInit, TypeNext, PTL DEF Spec

-----------------------------------------------------------------------------
(* Accepted patches are recorded exactly.                                  *)

\* The transition table never takes a task out of COMPLETED, so a validated
\* move to another status leaves the set of completed tasks as it is.
LEMMA SetTaskCompleted ==
  ASSUME TypeOK, NEW t \in TaskId, NEW target \in TaskStatus \ {"COMPLETED"},
         SetTask(t, target)
  PROVE  Completed' = Completed
<1>1. TaskEdges["COMPLETED"] = {}
  BY DEF TaskEdges
<1>2. st[t] # "COMPLETED"
  BY <1>1 DEF SetTask, CanTask
<1>3. QED BY <1>2 DEF SetTask, Completed, TypeOK

\* A step that touches no task record and does not stop where a patch is about
\* to be recorded keeps RecordingInv.
LEMMA QuietStep ==
  ASSUME RecordingInv, UNCHANGED <<st, accepted, digest, tree>>,
         wpc' = wpc \/ wpc' = NoWorkers,
         \A p \in Proc : snap'[p] = snap[p] \/ snap'[p] = {},
         pc' \notin {"recovered", "applied"}, Unplanned' => Unplanned
  PROVE  RecordingInv'
BY DEF RecordingInv, AcceptedExactly, Completed, NoWorkers

\* The end of a controller's run is such a step.
LEMMA QuietLeave ==
  ASSUME RecordingInv, TypeOK, NEW next, Leave(next),
         UNCHANGED <<st, accepted, digest, tree>>, Unplanned' => Unplanned
  PROVE  RecordingInv'
BY QuietStep DEF Leave, TypeOK

\* A worker step changes no set of completed tasks.
LEMMA WorkerCompleted ==
  ASSUME TypeOK, NEW t \in TaskId, Worker(t)
  PROVE  Completed' = Completed
<1>1. CASE st' = st
  BY <1>1 DEF Completed
<1>2. CASE StartAttempt(t)
  BY <1>2 DEF StartAttempt, Completed, TypeOK
<1>3. CASE \E target \in TaskStatus \ {"COMPLETED"} : SetTask(t, target)
  BY <1>3, SetTaskCompleted
<1>4. QED
  BY <1>1, <1>2, <1>3 DEF Worker, Begin, AttemptsExhausted, ClaudeCompletes, ClaudeStops,
     Verify, ReviewPasses, CaptureFails, ReviewBlocks, ReviewRetries, TaskStatus

LEMMA RecordingInit == Init => RecordingInv
BY DEF Init, RecordingInv, AcceptedExactly, Completed, NoWorkers

LEMMA RecordingNext == TypeOK /\ RecordingInv /\ [Next]_vars => RecordingInv'
<1> SUFFICES ASSUME TypeOK, RecordingInv, [Next]_vars PROVE RecordingInv'
  OBVIOUS
<1> USE DEF runVars, taskVars, patchVars
<1>1. ASSUME NEW t \in TaskId, RecoverApply(t) PROVE RecordingInv'
  <2>1. \A u \in TaskId : IsFirst(u, snap[owner]) => u = t
    BY <1>1 DEF RecoverApply, IsFirst, TypeOK
  <2>2. Unplanned' => Unplanned
    BY <1>1 DEF RecoverApply, Step, Unplanned
  <2>3. QED BY <1>1, <2>1, <2>2 DEF RecoverApply, Step, RecordingInv, AcceptedExactly, Completed
<1>2. ASSUME NEW t \in TaskId, RecoverMark(t) PROVE RecordingInv'
  <2>1. t \in tree
    BY <1>2 DEF RecoverMark, Step, RecordingInv
  <2>2. ~Unplanned
    BY <1>2 DEF RecoverMark, Step, IsFirst, RecordingInv, TypeOK
  <2>3. ~Unplanned'
    BY <1>2, <2>2 DEF RecoverMark, Step, Unplanned
  <2>4. AcceptedExactly'
    BY <1>2, <2>1 DEF RecoverMark, Record, RecordingInv, AcceptedExactly, Completed, TypeOK
  <2>5. QED BY <1>2, <2>3, <2>4 DEF RecoverMark, Step, RecordingInv
<1>3. CASE RecoverDone
  BY <1>3, QuietStep DEF RecoverDone, Step, Unplanned
<1>4. CASE LoadUnplanned
  BY <1>4, QuietStep DEF LoadUnplanned, LoadTo, Step, Unplanned
<1>5. CASE LoadReplan
  BY <1>5, QuietStep DEF LoadReplan, LoadTo, Step, Unplanned
<1>6. CASE LoadStopped
  BY <1>6, QuietStep DEF LoadStopped, LoadTo, Step, Unplanned
<1>7. ASSUME NEW W \in SUBSET TaskId, LoadScheduled(W) PROVE RecordingInv'
  <2>1. /\ ~Unplanned'
        /\ pc' \notin {"recovered", "applied"}
        /\ UNCHANGED <<st, accepted, digest, tree>>
    BY <1>7 DEF LoadScheduled, LoadTo, Step, Unplanned
  <2>2. QED BY <2>1 DEF RecordingInv, AcceptedExactly, Completed
<1>8. CASE PlanEnter
  BY <1>8, QuietStep DEF PlanEnter, Step, Unplanned
<1>9. ASSUME NEW plan \in InitialPlans, PlanApply(plan) PROVE RecordingInv'
  <2>1. Completed = {}
    BY <1>9 DEF PlanApply, Step, Unplanned, RecordingInv, Completed
  <2>2. Completed' = {}
    BY <1>9 DEF PlanApply, Completed
  <2>3. ~Unplanned' /\ pc' = "load"
    BY <1>9 DEF PlanApply, Step, Transition, Unplanned
  <2>4. QED BY <1>9, <2>1, <2>2, <2>3 DEF PlanApply, RecordingInv, AcceptedExactly
<1>10. CASE ReplanEnter
  BY <1>10, QuietStep DEF ReplanEnter, Step, Transition, Unplanned
<1>11. ASSUME NEW plan \in Replans, ReplanApply(plan) PROVE RecordingInv'
  <2>1. Completed' = Completed
    BY <1>11 DEF ReplanApply, Completed, TypeOK
  <2>2. ~Unplanned' /\ pc' = "load"
    BY <1>11 DEF ReplanApply, Step, Transition, Unplanned
  <2>3. QED BY <1>11, <2>1, <2>2 DEF ReplanApply, RecordingInv, AcceptedExactly
<1>12. CASE ToReplanning
  BY <1>12, QuietStep DEF ToReplanning, Step, Transition, Unplanned
<1>13. CASE ResumeTasks
  <2>1. Completed' = Completed
    BY <1>13 DEF ResumeTasks, Resumable, Completed, TypeOK
  <2>2. ~Unplanned' /\ pc' = "load"
    BY <1>13 DEF ResumeTasks, Step, Transition, Unplanned
  <2>3. QED BY <1>13, <2>1, <2>2 DEF ResumeTasks, RecordingInv, AcceptedExactly
<1>14. CASE Prepare
  <2>1. Completed' = Completed
    BY <1>14 DEF Prepare, Completed, TypeOK
  <2>2. (Unplanned' => Unplanned /\ st' = st) /\ pc' = "wave"
    <3>1. Unplanned' => Unplanned
      BY <1>14 DEF Prepare, Step, Unplanned
    <3>2. Unplanned => st' = st
      BY <1>14 DEF Prepare, RecordingInv, TypeOK
    <3>3. QED BY <1>14, <3>1, <3>2 DEF Prepare, Step
  <2>3. QED BY <1>14, <2>1, <2>2 DEF Prepare, RecordingInv, AcceptedExactly
<1>15. CASE Gather
  BY <1>15, QuietStep DEF Gather, Step, Unplanned
<1>16. ASSUME NEW t \in TaskId, Worker(t) PROVE RecordingInv'
  <2>1. wpc[t] # "idle" /\ pc = "wave" /\ pc' = "wave" /\ UNCHANGED <<status, accepted, digest, tree>>
    BY <1>16 DEF Worker, Work, Begin, StartAttempt, AttemptsExhausted, ClaudeCompletes,
       ClaudeStops, Verify, ReviewPasses, CaptureFails, ReviewBlocks, ReviewRetries
  <2>2. ~Unplanned'
    BY <2>1 DEF RecordingInv, Unplanned
  <2>3. QED BY <1>16, <2>1, <2>2, WorkerCompleted DEF RecordingInv, AcceptedExactly
<1>17. CASE ToIntegrating
  BY <1>17, QuietStep DEF ToIntegrating, Step, Transition, Unplanned
<1>18. ASSUME NEW t \in TaskId, IntegrateApply(t) PROVE RecordingInv'
  <2>1. Outcomes' = Outcomes /\ \A u \in TaskId : IsFirst(u, Outcomes) => u = t
    BY <1>18 DEF IntegrateApply, IsFirst, Outcomes
  <2>2. Unplanned' => Unplanned
    BY <1>18 DEF IntegrateApply, Step, Unplanned
  <2>3. QED
    BY <1>18, <2>1, <2>2 DEF IntegrateApply, Step, IsFirst, RecordingInv, AcceptedExactly, Completed
<1>19. ASSUME NEW t \in TaskId, IntegrateMark(t) PROVE RecordingInv'
  <2>1. t \in tree
    BY <1>19 DEF IntegrateMark, Step, RecordingInv
  <2>2. ~Unplanned'
    BY <1>19 DEF IntegrateMark, Step, IsFirst, Outcomes, RecordingInv, Unplanned
  <2>3. AcceptedExactly'
    BY <1>19, <2>1 DEF IntegrateMark, Record, RecordingInv, AcceptedExactly, Completed, TypeOK
  <2>4. QED BY <1>19, <2>2, <2>3 DEF IntegrateMark, Step, RecordingInv
<1>20. ASSUME NEW t \in TaskId, IntegrateConflict(t) PROVE RecordingInv'
  <2>1. Completed' = Completed
    BY <1>20, SetTaskCompleted DEF IntegrateConflict, TaskStatus
  <2>2. ~Unplanned'
    BY <1>20 DEF IntegrateConflict, Step, RecordingInv, Unplanned
  <2>3. QED BY <1>20, <2>1, <2>2 DEF IntegrateConflict, Step, RecordingInv, AcceptedExactly
<1>21. ASSUME NEW t \in TaskId, IntegrateBlocked(t) PROVE RecordingInv'
  <2>1. Completed' = Completed
    <3>1. CASE st' = st
      BY <3>1 DEF Completed
    <3>2. CASE SetTask(t, "BLOCKED") \/ SetTask(t, "INTEGRATION_BLOCKED")
      BY <3>2, SetTaskCompleted DEF TaskStatus
    <3>3. QED BY <1>21, <3>1, <3>2 DEF IntegrateBlocked
  <2>2. ~Unplanned'
    BY <1>21 DEF IntegrateBlocked, Step, RecordingInv, Unplanned
  <2>3. QED BY <1>21, <2>1, <2>2 DEF IntegrateBlocked, Step, RecordingInv, AcceptedExactly
<1>22. CASE WaveEnd
  BY <1>22, QuietStep DEF WaveEnd, Step, Unplanned
<1>23. CASE ToScheduling
  BY <1>23, QuietStep DEF ToScheduling, Step, Transition, Unplanned
<1>24. CASE Complete
  <2>1. ~Unplanned' /\ pc' = "none"
    BY <1>24 DEF Complete, Leave, Unplanned
  <2>2. QED BY <1>24, <2>1 DEF Complete, RecordingInv, AcceptedExactly, Completed
<1>25. CASE FinalReviewFails
  BY <1>25, QuietStep DEF FinalReviewFails, Step, Unplanned
<1>26. CASE Block
  BY <1>26, QuietLeave DEF Block, Leave, Transition, Unplanned
<1>27. CASE Raise
  BY <1>27, QuietLeave DEF Raise, Leave, Unplanned
<1>28. CASE Interrupt
  BY <1>28, QuietLeave DEF Interrupt, Leave, Unplanned
<1>29. ASSUME NEW p \in Proc, Launch(p) PROVE RecordingInv'
  <2>1. Unplanned => Pending = {}
    BY DEF RecordingInv, Pending
  <2>2. pc = "recovered" => snap'[owner] = snap[owner]
    BY <1>29 DEF Launch, TypeOK, OwnerAt, AwaitingCodex
  <2>3. Outcomes' = Outcomes /\ (Unplanned' <=> Unplanned)
    BY <1>29 DEF Launch, Outcomes, Unplanned
  <2>4. QED
    BY <1>29, <2>1, <2>2, <2>3 DEF Launch, RecordingInv, AcceptedExactly, Completed, IsFirst, TypeOK
<1>30. ASSUME NEW p \in Proc, Before(p) PROVE RecordingInv'
  <2>1. CASE Acquire(p)
    BY <2>1, QuietStep DEF Acquire, Unplanned, TypeOK
  <2>2. CASE Refused(p)
    <3>1. pc = "recovered" => snap'[owner] = snap[owner]
      BY <2>2 DEF Refused, TypeOK
    <3>2. Outcomes' = Outcomes /\ (Unplanned' <=> Unplanned)
      BY <2>2 DEF Refused, Outcomes, Unplanned
    <3>3. QED
      BY <2>2, <3>1, <3>2 DEF Refused, RecordingInv, AcceptedExactly, Completed, IsFirst, TypeOK
  <2>3. QED BY <1>30, <2>1, <2>2 DEF Before
<1>31. ASSUME NEW p \in Proc, After(p) PROVE RecordingInv'
  <2>1. /\ Unplanned' => Unplanned
        /\ UNCHANGED <<st, accepted, digest, tree, wpc, snap, owner, pc>>
    BY <1>31 DEF After, LateWrite, Transition, Unplanned
  <2>2. QED BY <2>1 DEF RecordingInv, AcceptedExactly, Completed, IsFirst, Outcomes
<1>32. ASSUME NEW p \in Proc, Crash(p) PROVE RecordingInv'
  <2>1. CASE owner = p
    BY <1>32, <2>1, QuietLeave DEF Crash, Leave, Unplanned
  <2>2. CASE owner # p
    <3>1. Outcomes' = Outcomes /\ (Unplanned' <=> Unplanned)
      BY <1>32, <2>2 DEF Crash, Outcomes, Unplanned
    <3>2. pc = "recovered" => snap'[owner] = snap[owner]
      BY <1>32, <2>2 DEF Crash, TypeOK
    <3>3. QED
      BY <1>32, <2>2, <3>1, <3>2 DEF Crash, RecordingInv, AcceptedExactly, Completed, IsFirst, TypeOK
  <2>3. QED BY <2>1, <2>2
<1>33. CASE Add
  <2>1. /\ Unplanned' => Unplanned
        /\ UNCHANGED <<st, accepted, digest, tree, wpc, snap, owner, pc>>
    BY <1>33 DEF Add, AddCheck, AddAppend, AddGivesUp, Transition, Unplanned, ctlVars
  <2>2. QED BY <2>1 DEF RecordingInv, AcceptedExactly, Completed, IsFirst, Outcomes
<1>34. CASE UNCHANGED vars
  BY <1>34 DEF vars, ctlVars, RecordingInv, AcceptedExactly, Completed, IsFirst, Outcomes, Unplanned
<1>35. QED
  BY <1>1, <1>2, <1>3, <1>4, <1>5, <1>6, <1>7, <1>8, <1>9, <1>10, <1>11, <1>12, <1>13,
     <1>14, <1>15, <1>16, <1>17, <1>18, <1>19, <1>20, <1>21, <1>22, <1>23, <1>24, <1>25,
     <1>26, <1>27, <1>28, <1>29, <1>30, <1>31, <1>32, <1>33, <1>34
     DEF Next, OwnerStep, Recovery, Load, Planning, Wave, Integration, Ending

\* Whatever number of controllers overlap and whenever they crash: a task is
\* COMPLETED exactly when it is listed as accepted, and then its patch is in
\* the tree and in the checkpoint.
THEOREM AcceptedIsExact == Spec => []AcceptedExactly
<1>1. Init => TypeOK /\ RecordingInv
  BY TypeInit, RecordingInit
<1>2. TypeOK /\ RecordingInv /\ [Next]_vars => (TypeOK /\ RecordingInv)'
  BY TypeNext, RecordingNext
<1>3. RecordingInv => AcceptedExactly
  BY DEF RecordingInv
<1>4. QED BY <1>1, <1>2, <1>3, PTL DEF Spec

-----------------------------------------------------------------------------
(* What is accepted stays accepted.                                        *)

\* No step takes a task out of COMPLETED.
LEMMA CompletedGrows ==
  ASSUME TypeOK, RecordingInv, Next
  PROVE  Completed \subseteq Completed'
<1> USE DEF runVars, taskVars, patchVars
<1>1. CASE UNCHANGED st
  BY <1>1 DEF Completed
<1>2. ASSUME NEW t \in TaskId, RecoverMark(t) \/ IntegrateMark(t)
      PROVE  Completed \subseteq Completed'
  BY <1>2 DEF RecoverMark, IntegrateMark, Record, Completed, TypeOK
<1>3. ASSUME NEW plan \in InitialPlans, PlanApply(plan) PROVE Completed \subseteq Completed'
  BY <1>3 DEF PlanApply, Step, Unplanned, RecordingInv, Completed
<1>4. ASSUME NEW plan \in Replans, ReplanApply(plan) PROVE Completed \subseteq Completed'
  BY <1>4 DEF ReplanApply, Completed
<1>5. CASE ResumeTasks
  BY <1>5 DEF ResumeTasks, Resumable, Completed
<1>6. CASE Prepare
  BY <1>6 DEF Prepare, Completed
<1>7. ASSUME NEW t \in TaskId, Worker(t) PROVE Completed \subseteq Completed'
  BY <1>7, WorkerCompleted
<1>8. ASSUME NEW t \in TaskId, IntegrateConflict(t) \/ IntegrateBlocked(t)
      PROVE  Completed \subseteq Completed'
  BY <1>1, <1>8, SetTaskCompleted DEF IntegrateConflict, IntegrateBlocked, TaskStatus
<1>9. QED
  BY <1>1, <1>2, <1>3, <1>4, <1>5, <1>6, <1>7, <1>8
     DEF Next, OwnerStep, Recovery, Load, Planning, Wave, Integration, Ending, Before, After,
         Add, RecoverApply, RecoverDone, LoadUnplanned, LoadReplan, LoadStopped, LoadScheduled,
         LoadTo, PlanEnter, ReplanEnter, ToReplanning, Gather, ToIntegrating, IntegrateApply,
         WaveEnd, ToScheduling, Complete, FinalReviewFails, Block, Raise, Interrupt, Launch,
         Acquire, Refused, LateWrite, Crash, AddCheck, AddAppend, AddGivesUp

\* A task that is COMPLETED stays so, listed and in the tree, through replans,
\* retries, crashes and recoveries of any number of controllers.
THEOREM AcceptedIsPermanent == Spec => CompletedPermanent
<1>1. Init => TypeOK /\ RecordingInv
  BY TypeInit, RecordingInit
<1>2. TypeOK /\ RecordingInv /\ [Next]_vars => (TypeOK /\ RecordingInv)'
  BY TypeNext, RecordingNext
<1>3. ASSUME TypeOK, RecordingInv, TypeOK', RecordingInv', [Next]_vars
      PROVE  [\A t \in TaskId : st[t] = "COMPLETED" =>
                st'[t] = "COMPLETED" /\ t \in accepted' /\ t \in tree']_vars
  <2>1. CASE Next
    BY <1>3, <2>1, CompletedGrows DEF Completed, RecordingInv, AcceptedExactly
  <2>2. CASE UNCHANGED vars
    BY <2>2
  <2>3. QED BY <1>3, <2>1, <2>2
<1>4. QED BY <1>1, <1>2, <1>3, PTL DEF Spec, CompletedPermanent

-----------------------------------------------------------------------------
(* A crash anywhere can be recovered from, as long as no controller takes  *)
(* the lock with an outdated snapshot.                                     *)

CheckpointInv == CheckpointRecoverable /\ WorkersInv /\ PendingInv

LEMMA CheckpointInit == Init => CheckpointInv
BY DEF Init, CheckpointInv, CheckpointRecoverable, WorkersInv, PendingInv, Pending, NoWorkers

LEMMA WorkersNext == TypeOK /\ WorkersInv /\ [Next]_vars => WorkersInv'
<1> SUFFICES ASSUME TypeOK, WorkersInv, [Next]_vars PROVE WorkersInv'
  OBVIOUS
<1>1. CASE pc' = pc /\ wpc' = wpc
  BY <1>1 DEF WorkersInv
<1>2. CASE pc' = "none" /\ wpc' = NoWorkers
  BY <1>2 DEF WorkersInv, NoWorkers
<1>3. CASE /\ wpc' = wpc /\ \A t \in TaskId : wpc[t] = "idle"
           /\ pc' \in OwnerAt \ {"prepare", "wave"}
  BY <1>3 DEF WorkersInv
<1>4. ASSUME NEW W \in SUBSET TaskId, LoadScheduled(W) PROVE WorkersInv'
  BY <1>4 DEF LoadScheduled, LoadTo, Step, WorkersInv
<1>5. CASE Prepare
  BY <1>5 DEF Prepare, Step, WorkersInv
<1>6. ASSUME NEW t \in TaskId, Worker(t) PROVE WorkersInv'
  <2>1. pc' = "wave"
    BY <1>6 DEF Worker, Work, Begin, StartAttempt, AttemptsExhausted, ClaudeCompletes,
       ClaudeStops, Verify, ReviewPasses, CaptureFails, ReviewBlocks, ReviewRetries
  <2>2. QED BY <2>1 DEF WorkersInv
<1>7. CASE Gather
  BY <1>7 DEF Gather, Step, WorkersInv
<1>8. CASE ToIntegrating
  BY <1>8 DEF ToIntegrating, Step, WorkersInv
<1>9. ASSUME NEW t \in TaskId,
             IntegrateApply(t) \/ IntegrateMark(t) \/ IntegrateConflict(t) \/ IntegrateBlocked(t)
      PROVE  WorkersInv'
  BY <1>9 DEF IntegrateApply, IntegrateMark, IntegrateConflict, IntegrateBlocked, Handled,
     Step, WorkersInv, TypeOK
<1>10. CASE WaveEnd
  BY <1>10 DEF WaveEnd, Step, Outcomes, WorkersInv
<1>11. CASE \/ \E t \in TaskId : RecoverApply(t) \/ RecoverMark(t)
            \/ RecoverDone \/ LoadUnplanned \/ LoadReplan \/ LoadStopped
  BY <1>11, <1>3 DEF RecoverApply, RecoverMark, RecoverDone, LoadUnplanned, LoadReplan,
     LoadStopped, LoadTo, Step, WorkersInv, OwnerAt, AwaitingCodex
<1>12. CASE \/ Planning \/ ToScheduling \/ FinalReviewFails
  BY <1>12, <1>3 DEF Planning, PlanEnter, PlanApply, ReplanEnter, ReplanApply, ToReplanning,
     ResumeTasks, ToScheduling, FinalReviewFails, Step, WorkersInv, OwnerAt, AwaitingCodex
<1>13. CASE Complete \/ Block \/ Raise \/ Interrupt
  BY <1>13, <1>2 DEF Complete, Block, Raise, Interrupt, Leave
<1>14. ASSUME NEW p \in Proc, Launch(p) \/ Before(p) \/ After(p) \/ Crash(p)
       PROVE  WorkersInv'
  <2>1. CASE Acquire(p)
    BY <2>1, <1>3 DEF Acquire, WorkersInv, OwnerAt, TypeOK
  <2>2. CASE Launch(p) \/ Refused(p) \/ After(p)
    BY <2>2, <1>1 DEF Launch, Refused, After, LateWrite
  <2>3. CASE Crash(p)
    BY <2>3, <1>1, <1>2 DEF Crash, Leave
  <2>4. QED BY <1>14, <2>1, <2>2, <2>3 DEF Before
<1>15. CASE Add \/ UNCHANGED vars
  BY <1>15, <1>1 DEF Add, AddCheck, AddAppend, AddGivesUp, ctlVars, vars
<1>16. QED
  BY <1>4, <1>5, <1>6, <1>7, <1>8, <1>9, <1>10, <1>11, <1>12, <1>13, <1>14, <1>15
     DEF Next, OwnerStep, Recovery, Load, Wave, Integration, Ending

\* A worker's step changes the pending patches exactly by the one it captured.
LEMMA WorkerPending ==
  ASSUME TypeOK, NEW t \in TaskId, Worker(t),
         Pending = {u \in TaskId : wpc[u] = "accepted"}
  PROVE  /\ Pending' = {u \in TaskId : wpc'[u] = "accepted"}
         /\ Pending \subseteq Pending'
<1>1. t \notin Pending /\ wpc[t] # "accepted" /\ wpc \in [TaskId -> WorkerAt]
  BY DEF Worker, Work, Pending, Begin, StartAttempt, AttemptsExhausted, ClaudeCompletes,
     ClaudeStops, Verify, ReviewPasses, CaptureFails, ReviewBlocks, ReviewRetries, TypeOK
<1>2. CASE Begin(t) \/ AttemptsExhausted(t) \/ ClaudeStops(t) \/ ReviewBlocks(t)
  <2>1. st' = st
    BY <1>2 DEF Begin, AttemptsExhausted, ClaudeStops, ReviewBlocks
  <2>2. \E to \in WorkerAt \ {"accepted"} : wpc' = [wpc EXCEPT ![t] = to]
    BY <1>2 DEF Work, Begin, AttemptsExhausted, ClaudeStops, ReviewBlocks, WorkerAt
  <2>3. {u \in TaskId : wpc'[u] = "accepted"} = {u \in TaskId : wpc[u] = "accepted"}
    BY <1>1, <2>2
  <2>4. QED BY <2>1, <2>3 DEF Pending
<1>3. CASE StartAttempt(t)
  BY <1>1, <1>3 DEF StartAttempt, Work, Pending, TypeOK
<1>4. CASE ClaudeCompletes(t) \/ Verify(t) \/ CaptureFails(t) \/ ReviewRetries(t)
  <2>1. \E s \in TaskStatus \ {"READY_TO_INTEGRATE", "INTEGRATING"} : st' = [st EXCEPT ![t] = s]
    BY <1>4 DEF ClaudeCompletes, Verify, CaptureFails, ReviewRetries, SetTask, TaskStatus
  <2>2. \E to \in WorkerAt \ {"accepted"} : wpc' = [wpc EXCEPT ![t] = to]
    BY <1>4 DEF Work, ClaudeCompletes, Verify, CaptureFails, ReviewRetries, WorkerAt
  <2>3. {u \in TaskId : wpc'[u] = "accepted"} = {u \in TaskId : wpc[u] = "accepted"}
    BY <1>1, <2>2
  <2>4. Pending' = Pending
    BY <1>1, <2>1 DEF Pending, TypeOK
  <2>5. QED BY <2>3, <2>4
<1>5. CASE ReviewPasses(t)
  BY <1>1, <1>5 DEF ReviewPasses, SetTask, Work, Pending, TypeOK
<1>6. QED BY <1>2, <1>3, <1>4, <1>5 DEF Worker

\* Steps that change neither the records nor the tree.
LEMMA QuietPending ==
  ASSUME CheckpointRecoverable, PendingInv, UNCHANGED <<st, digest, tree>>,
         \/ UNCHANGED <<pc, wpc, owner>> /\ (pc # "none" => snap'[owner] = snap[owner])
         \/ pc' = "none"
         \/ /\ Pending = {}
            /\ pc' \notin {"none", "recover", "recovered", "wave", "to_integrating",
                           "integrate", "applied"}
  PROVE  CheckpointRecoverable' /\ PendingInv'
BY DEF CheckpointRecoverable, PendingInv, Pending

\* Fresh snapshots only restrict what controllers may do.
LEMMA FreshNextIsNext == [FreshNext]_vars => [Next]_vars
BY DEF FreshNext, FreshAcquire, Next, Before

LEMMA CheckpointNext ==
  ASSUME TypeOK, CheckpointInv, [FreshNext]_vars
  PROVE  CheckpointInv'
<1> SUFFICES CheckpointRecoverable' /\ PendingInv'
  BY WorkersNext, FreshNextIsNext DEF CheckpointInv
<1> USE DEF runVars, taskVars, patchVars
<1>1. CheckpointRecoverable /\ WorkersInv /\ PendingInv
  BY DEF CheckpointInv
<1>2. pc # "none" => owner \in Proc /\ phase[owner] = "owner"
  BY DEF TypeOK
<1>3. ASSUME NEW t \in TaskId, RecoverApply(t) PROVE CheckpointRecoverable' /\ PendingInv'
  <2>1. t \in Pending
    BY <1>1, <1>3 DEF RecoverApply, Step, IsFirst, PendingInv
  <2>2. QED BY <1>1, <1>2, <1>3, <2>1
            DEF RecoverApply, Step, CheckpointRecoverable, PendingInv, Pending
<1>4. ASSUME NEW t \in TaskId, RecoverMark(t) PROVE CheckpointRecoverable' /\ PendingInv'
  <2>1. Pending' = Pending \ {t}
    BY <1>4 DEF RecoverMark, Record, Pending, TypeOK
  <2>2. snap'[owner'] = snap[owner] \ {t}
    BY <1>4 DEF RecoverMark, Step, TypeOK
  <2>3. QED BY <1>1, <1>2, <1>4, <2>1, <2>2
            DEF RecoverMark, Record, Step, CheckpointRecoverable, PendingInv
<1>5. CASE RecoverDone
  BY <1>1, <1>5, QuietPending DEF RecoverDone, Step, PendingInv
<1>6. CASE LoadUnplanned \/ LoadReplan \/ LoadStopped
  BY <1>1, <1>6, QuietPending DEF LoadUnplanned, LoadReplan, LoadStopped, LoadTo, Step, PendingInv
<1>7. ASSUME NEW W \in SUBSET TaskId, LoadScheduled(W)
      PROVE  CheckpointRecoverable' /\ PendingInv'
  BY <1>1, <1>7, QuietPending DEF LoadScheduled, LoadTo, Step, PendingInv
<1>8. CASE \/ PlanEnter \/ ReplanEnter \/ ToReplanning \/ ToScheduling \/ FinalReviewFails
  BY <1>1, <1>8, QuietPending
     DEF PlanEnter, ReplanEnter, ToReplanning, ToScheduling, FinalReviewFails, Step, PendingInv
<1>9. ASSUME NEW plan \in InitialPlans, PlanApply(plan)
      PROVE  CheckpointRecoverable' /\ PendingInv'
  <2>1. Pending = {} /\ Pending' = {}
    BY <1>1, <1>9 DEF PlanApply, Step, PendingInv, Pending
  <2>2. QED BY <1>1, <1>2, <1>9, <2>1 DEF PlanApply, Step, CheckpointRecoverable, PendingInv
<1>10. ASSUME NEW plan \in Replans, ReplanApply(plan)
       PROVE  CheckpointRecoverable' /\ PendingInv'
  <2>1. Pending = {} /\ Pending' = {}
    BY <1>1, <1>10 DEF ReplanApply, Step, PendingInv, Pending
  <2>2. QED BY <1>1, <1>2, <1>10, <2>1 DEF ReplanApply, Step, CheckpointRecoverable, PendingInv
<1>11. CASE ResumeTasks
  <2>1. Pending = {} /\ Pending' = {}
    BY <1>1, <1>11 DEF ResumeTasks, Step, PendingInv, Pending
  <2>2. QED BY <1>1, <1>2, <1>11, <2>1 DEF ResumeTasks, Step, CheckpointRecoverable, PendingInv
<1>12. CASE Prepare
  <2>1. Pending = {} /\ Pending' = {} /\ {t \in TaskId : wpc'[t] = "accepted"} = {}
    BY <1>1, <1>12 DEF Prepare, Step, PendingInv, WorkersInv, Pending
  <2>2. QED BY <1>1, <1>2, <1>12, <2>1 DEF Prepare, Step, CheckpointRecoverable, PendingInv
<1>13. ASSUME NEW t \in TaskId, Worker(t) PROVE CheckpointRecoverable' /\ PendingInv'
  <2>1. pc = "wave" /\ UNCHANGED <<pc, owner, phase, snap, digest, tree>>
    BY <1>13 DEF Worker, Work, Begin, StartAttempt, AttemptsExhausted, ClaudeCompletes,
       ClaudeStops, Verify, ReviewPasses, CaptureFails, ReviewBlocks, ReviewRetries
  <2>2. /\ Pending' = {u \in TaskId : wpc'[u] = "accepted"}
        /\ Pending \subseteq Pending'
    BY <1>1, <1>13, <2>1, WorkerPending DEF PendingInv
  <2>3. QED BY <1>1, <1>2, <2>1, <2>2 DEF CheckpointRecoverable, PendingInv
<1>14. CASE Gather \/ ToIntegrating
  BY <1>1, <1>2, <1>14 DEF Gather, ToIntegrating, Step, CheckpointRecoverable, PendingInv, Pending
<1>15. ASSUME NEW t \in TaskId, IntegrateApply(t) PROVE CheckpointRecoverable' /\ PendingInv'
  <2>1. t \in Pending /\ Pending' = Pending
    BY <1>1, <1>15 DEF IntegrateApply, Step, PendingInv, Pending
  <2>2. QED BY <1>1, <1>2, <1>15, <2>1 DEF IntegrateApply, Step, CheckpointRecoverable, PendingInv
<1>16. ASSUME NEW t \in TaskId, IntegrateMark(t) PROVE CheckpointRecoverable' /\ PendingInv'
  <2>1. Pending' = Pending \ {t}
    BY <1>16 DEF IntegrateMark, Record, Pending, TypeOK
  <2>2. {u \in TaskId : wpc'[u] = "accepted"} = {u \in TaskId : wpc[u] = "accepted"} \ {t}
    BY <1>16 DEF IntegrateMark, Handled, TypeOK
  <2>3. QED BY <1>1, <1>2, <1>16, <2>1, <2>2
            DEF IntegrateMark, Record, Step, CheckpointRecoverable, PendingInv
<1>17. ASSUME NEW t \in TaskId, IntegrateConflict(t) PROVE CheckpointRecoverable' /\ PendingInv'
  <2>1. Pending' = Pending \ {t} /\ t \notin tree
    BY <1>17 DEF IntegrateConflict, SetTask, Pending, TypeOK
  <2>2. {u \in TaskId : wpc'[u] = "accepted"} = {u \in TaskId : wpc[u] = "accepted"} \ {t}
    BY <1>17 DEF IntegrateConflict, Handled, TypeOK
  <2>3. QED BY <1>1, <1>2, <1>17, <2>1, <2>2
            DEF IntegrateConflict, Step, CheckpointRecoverable, PendingInv
<1>18. ASSUME NEW t \in TaskId, IntegrateBlocked(t) PROVE CheckpointRecoverable' /\ PendingInv'
  <2>1. t \notin Pending
    BY <1>1, <1>18 DEF IntegrateBlocked, Step, PendingInv
  <2>2. Pending' = Pending
    BY <1>18, <2>1 DEF IntegrateBlocked, SetTask, Pending, TypeOK
  <2>3. {u \in TaskId : wpc'[u] = "accepted"} = {u \in TaskId : wpc[u] = "accepted"}
    BY <1>18 DEF IntegrateBlocked, Handled, TypeOK
  <2>4. QED BY <1>1, <1>2, <1>18, <2>2, <2>3
            DEF IntegrateBlocked, Step, CheckpointRecoverable, PendingInv
<1>19. CASE WaveEnd
  <2>1. Pending = {}
    BY <1>1, <1>19 DEF WaveEnd, Step, Outcomes, PendingInv
  <2>2. pc' \in {"to_scheduling", "to_replanning", "load"}
    BY <1>19 DEF WaveEnd, Step
  <2>3. QED BY <1>1, <1>19, <2>1, <2>2, QuietPending DEF WaveEnd, Step
<1>20. CASE Complete
  BY <1>20 DEF Complete, Leave, CheckpointRecoverable, PendingInv
<1>21. CASE Block \/ Raise \/ Interrupt
  BY <1>1, <1>21, QuietPending DEF Block, Raise, Interrupt, Leave
<1>22. ASSUME NEW p \in Proc, Launch(p) \/ Refused(p) \/ After(p)
       PROVE  CheckpointRecoverable' /\ PendingInv'
  <2>1. /\ UNCHANGED <<st, digest, tree, pc, wpc, owner>>
        /\ pc # "none" => snap'[owner] = snap[owner]
    BY <1>2, <1>22 DEF Launch, Refused, After, LateWrite, TypeOK
  <2>2. QED BY <1>1, <2>1, QuietPending
<1>23. ASSUME NEW p \in Proc, FreshAcquire(p) PROVE CheckpointRecoverable' /\ PendingInv'
  BY <1>1, <1>23 DEF FreshAcquire, Acquire, CheckpointRecoverable, PendingInv, Pending
<1>24. ASSUME NEW p \in Proc, Crash(p) PROVE CheckpointRecoverable' /\ PendingInv'
  <2>1. UNCHANGED <<st, digest, tree>>
    BY <1>24 DEF Crash
  <2>2. CASE owner = p
    BY <1>1, <1>24, <2>1, <2>2, QuietPending DEF Crash, Leave
  <2>3. CASE owner # p
    <3>1. UNCHANGED <<pc, wpc, owner>> /\ (pc # "none" => snap'[owner] = snap[owner])
      BY <1>2, <1>24, <2>3 DEF Crash, TypeOK
    <3>2. QED BY <1>1, <2>1, <3>1, QuietPending
  <2>4. QED BY <2>2, <2>3
<1>26. CASE Add \/ UNCHANGED vars
  BY <1>1, <1>26, QuietPending DEF Add, AddCheck, AddAppend, AddGivesUp, ctlVars, vars
<1>27. QED
  BY <1>3, <1>4, <1>5, <1>6, <1>7, <1>8, <1>9, <1>10, <1>11, <1>12, <1>13, <1>14, <1>15,
     <1>16, <1>17, <1>18, <1>19, <1>20, <1>21, <1>22, <1>23, <1>24, <1>26
     DEF FreshNext, OwnerStep, Recovery, Load, Planning, Wave, Integration, Ending

LEMMA CheckpointHolds == FreshSpec => [](TypeOK /\ CheckpointInv)
<1>1. Init => TypeOK /\ CheckpointInv
  BY TypeInit, CheckpointInit
<1>2. TypeOK /\ CheckpointInv /\ [FreshNext]_vars => (TypeOK /\ CheckpointInv)'
  BY TypeNext, CheckpointNext, FreshNextIsNext
<1>3. QED BY <1>1, <1>2, PTL DEF FreshSpec

\* However many controllers overlap, if none takes the lock with an outdated
\* snapshot, the tree never holds more than the checkpoint and the patches
\* recorded as pending, however the run was cut off: resume recovers it and
\* never has to refuse it (_recover_if_needed).
THEOREM CrashesAreRecoverable == FreshSpec => []CheckpointRecoverable
<1>1. CheckpointInv => CheckpointRecoverable
  BY DEF CheckpointInv
<1>2. QED BY <1>1, CheckpointHolds, PTL

\* And a replan never meets a worker in flight or an accepted patch that waits.
THEOREM ReplansAreSafe == FreshSpec => []ReplanAtSafeBoundary
<1>1. CheckpointInv => ReplanAtSafeBoundary
  BY DEF CheckpointInv, WorkersInv, PendingInv, ReplanAtSafeBoundary
<1>2. QED BY <1>1, CheckpointHolds, PTL

\* With one controller at a time every snapshot is fresh: what a process found
\* pending nobody can change before it takes the lock itself.
SingleController == \A p, q \in Proc : p = q

LoadedInv == \A p \in Proc : phase[p] = "loaded" => snap[p] = Pending

\* A step of the owner is a step of a process that has the lock.
LEMMA OwnerStepsOwned ==
  ASSUME OwnerStep \/ Interrupt
  PROVE  pc # "none"
BY DEF OwnerStep, Recovery, RecoverApply, RecoverMark, RecoverDone, Load, LoadUnplanned,
   LoadReplan, LoadStopped, LoadScheduled, LoadTo, Planning, PlanEnter, PlanApply, ReplanEnter,
   ReplanApply, ToReplanning, ResumeTasks, Wave, Prepare, Gather, Worker, Work, Begin,
   StartAttempt, AttemptsExhausted, ClaudeCompletes, ClaudeStops, Verify, ReviewPasses,
   CaptureFails, ReviewBlocks, ReviewRetries, Integration, ToIntegrating, WaveEnd, ToScheduling,
   IntegrateApply, IntegrateMark, IntegrateConflict, IntegrateBlocked, Ending, Complete,
   FinalReviewFails, Block, Raise, Interrupt, Step

\* Only the owner changes the records.
LEMMA RecordsNext ==
  ASSUME [Next]_vars, pc = "none"
  PROVE  Pending' = Pending
<1>1. ~OwnerStep /\ ~Interrupt
  BY OwnerStepsOwned
<1>2. st' = st
  BY <1>1 DEF Next, Launch, Before, Acquire, Refused, After, LateWrite, Crash, Add, AddCheck,
     AddAppend, AddGivesUp, vars, taskVars
<1>3. QED BY <1>2 DEF Pending

\* Only a launch loads the run, and what was loaded is kept until the lock is taken.
LEMMA OnlyLaunchLoads ==
  ASSUME TypeOK, [Next]_vars, NEW p \in Proc, ~Launch(p), phase'[p] = "loaded"
  PROVE  phase[p] = "loaded" /\ snap'[p] = snap[p]
<1>1. CASE UNCHANGED <<phase, snap>>
  BY <1>1
<1>2. ASSUME NEW next \in {"idle", "blocking", "pausing"}, Leave(next)
      PROVE  phase[p] = "loaded" /\ snap'[p] = snap[p]
  BY <1>2 DEF Leave, TypeOK
<1>3. ASSUME NEW t \in TaskId, RecoverMark(t) PROVE phase[p] = "loaded" /\ snap'[p] = snap[p]
  BY <1>3 DEF RecoverMark, Step, TypeOK, OwnerAt
<1>4. CASE Recovery
  BY <1>1, <1>3, <1>4 DEF Recovery, RecoverApply, RecoverDone, Step
<1>5. CASE Load
  BY <1>1, <1>5 DEF Load, LoadUnplanned, LoadReplan, LoadStopped, LoadScheduled, LoadTo, Step
<1>6. CASE Planning
  BY <1>1, <1>6 DEF Planning, PlanEnter, PlanApply, ReplanEnter, ReplanApply, ToReplanning,
     ResumeTasks, Step
<1>7. CASE Wave
  BY <1>1, <1>7 DEF Wave, Prepare, Gather, Step, Worker, Work, Begin, StartAttempt,
     AttemptsExhausted, ClaudeCompletes, ClaudeStops, Verify, ReviewPasses, CaptureFails,
     ReviewBlocks, ReviewRetries
<1>8. CASE Integration
  BY <1>1, <1>8 DEF Integration, ToIntegrating, WaveEnd, ToScheduling, IntegrateApply,
     IntegrateMark, IntegrateConflict, IntegrateBlocked, Step
<1>9. CASE Ending \/ Raise \/ Interrupt
  BY <1>1, <1>2, <1>9 DEF Ending, Complete, FinalReviewFails, Block, Raise, Interrupt, Step
<1>10. ASSUME NEW q \in Proc, Launch(q) \/ Before(q) \/ After(q) \/ Crash(q)
       PROVE  phase[p] = "loaded" /\ snap'[p] = snap[p]
  BY <1>2, <1>10 DEF Launch, Before, Acquire, Refused, After, LateWrite, Crash, TypeOK
<1>11. CASE Add \/ UNCHANGED vars
  BY <1>1, <1>11 DEF Add, AddCheck, AddAppend, AddGivesUp, ctlVars, vars
<1>12. QED
  BY <1>4, <1>5, <1>6, <1>7, <1>8, <1>9, <1>10, <1>11 DEF Next, OwnerStep

\* With one process at a time the code's assumption holds, and with it the
\* theorems of this module.
THEOREM LoneControllersAreFresh == SingleController => (Spec => FreshSpec)
<1> SUFFICES ASSUME SingleController PROVE Spec => FreshSpec
  OBVIOUS
<1>1. Init => TypeOK /\ LoadedInv
  BY TypeInit DEF Init, LoadedInv
<1>2. ASSUME TypeOK, LoadedInv, [Next]_vars PROVE LoadedInv'
  <2> SUFFICES ASSUME NEW p \in Proc, phase'[p] = "loaded" PROVE snap'[p] = Pending'
    BY DEF LoadedInv
  <2>1. CASE Launch(p)
    BY <1>2, <2>1 DEF Launch, Pending, TypeOK, taskVars
  <2>2. CASE ~Launch(p)
    <3>1. phase[p] = "loaded"
      BY <1>2, <2>2, OnlyLaunchLoads
    <3>2. snap'[p] = snap[p]
      BY <1>2, <2>2, OnlyLaunchLoads
    <3>3. pc = "none"
      BY <1>2, <3>1 DEF TypeOK, SingleController
    <3>4. QED BY <1>2, <3>1, <3>2, <3>3, RecordsNext DEF LoadedInv
  <2>3. QED BY <2>1, <2>2
<1>3. LoadedInv /\ [Next]_vars => [FreshNext]_vars
  BY DEF LoadedInv, Next, FreshNext, FreshAcquire, Before, Acquire
<1>4. TypeOK /\ LoadedInv /\ [Next]_vars => (TypeOK /\ LoadedInv)'
  BY <1>2, TypeNext
<1>5. QED BY <1>1, <1>3, <1>4, PTL DEF Spec, FreshSpec

-----------------------------------------------------------------------------
(* Dependencies come first, in the record and in the worktree.             *)

\* The steps that change a task record or start a worker; the others leave the
\* records alone and at most drop the workers.
LEMMA TaskSteps ==
  ASSUME [Next]_vars
  PROVE  \/ UNCHANGED taskVars /\ (wpc' = wpc \/ wpc' = NoWorkers)
         \/ \E W \in SUBSET TaskId : LoadScheduled(W)
         \/ \E plan \in InitialPlans : PlanApply(plan)
         \/ \E plan \in Replans : ReplanApply(plan)
         \/ ResumeTasks \/ Prepare
         \/ \E t \in TaskId : \/ Worker(t) \/ RecoverMark(t) \/ IntegrateMark(t)
                             \/ IntegrateConflict(t) \/ IntegrateBlocked(t)
<1>1. CASE UNCHANGED vars
  BY <1>1 DEF vars, ctlVars
<1>2. ASSUME NEW p \in Proc, Launch(p) \/ Before(p) \/ After(p) \/ Crash(p)
      PROVE  UNCHANGED taskVars /\ (wpc' = wpc \/ wpc' = NoWorkers)
  BY <1>2 DEF Launch, Before, Acquire, Refused, After, LateWrite, Crash, Leave
<1>3. CASE Add
  BY <1>3 DEF Add, AddCheck, AddAppend, AddGivesUp, ctlVars
<1>4. CASE Interrupt \/ Raise \/ Ending
  BY <1>4 DEF Interrupt, Raise, Ending, Complete, FinalReviewFails, Block, Leave
<1>5. CASE Recovery
  BY <1>5 DEF Recovery, RecoverDone, RecoverApply, taskVars
<1>6. CASE Load
  BY <1>6 DEF Load, LoadUnplanned, LoadReplan, LoadStopped, LoadTo
<1>7. CASE Planning
  BY <1>7 DEF Planning, PlanEnter, ReplanEnter, ToReplanning
<1>8. CASE Wave
  BY <1>8 DEF Wave, Gather
<1>9. CASE Integration
  BY <1>9 DEF Integration, ToIntegrating, WaveEnd, ToScheduling, IntegrateApply
<1>10. QED BY <1>1, <1>2, <1>3, <1>4, <1>5, <1>6, <1>7, <1>8, <1>9 DEF Next, OwnerStep

LEMMA DependencyNext ==
  ASSUME TypeOK, RecordingInv, CheckpointInv, DependencyInv, [Next]_vars
  PROVE  DependencyInv'
<1> USE DEF DependencyInv, DependencyOrder
<1>1. Completed \subseteq Completed'
  BY CompletedGrows DEF vars, taskVars, Completed
<1>2. CASE UNCHANGED taskVars /\ (wpc' = wpc \/ wpc' = NoWorkers)
  BY <1>1, <1>2 DEF taskVars, NoWorkers
<1>3. ASSUME NEW W \in SUBSET TaskId, LoadScheduled(W) PROVE DependencyInv'
  <2>1. UNCHANGED taskVars /\ \A t \in TaskId : wpc'[t] # "idle" => deps[t] \subseteq Completed
    BY <1>3 DEF LoadScheduled, LoadTo, IsWave, IsWaveOf, Ready
  <2>2. QED BY <1>1, <2>1 DEF taskVars
<1>4. ASSUME NEW plan \in InitialPlans, PlanApply(plan) PROVE DependencyInv'
  <2>1. \A t \in TaskId : wpc'[t] = "idle" /\ st'[t] \in {"PENDING", "ABSENT"}
    BY <1>4 DEF PlanApply, Step, CheckpointInv, WorkersInv
  <2>2. QED BY <2>1
<1>5. ASSUME NEW plan \in Replans, ReplanApply(plan) PROVE DependencyInv'
  <2>1. \A t \in TaskId : wpc'[t] = "idle"
    BY <1>5 DEF ReplanApply, Step, CheckpointInv, WorkersInv
  <2>2. ASSUME NEW t \in TaskId, st'[t] \notin {"ABSENT", "PENDING", "SUPERSEDED"}
        PROVE  deps'[t] \subseteq Completed'
    <3>1. st[t] = "COMPLETED" /\ t \notin DOMAIN plan
      BY <1>5, <2>2 DEF ReplanApply, Completed
    <3>2. deps'[t] = deps[t]
      BY <1>5, <3>1 DEF ReplanApply
    <3>3. QED BY <1>1, <3>1, <3>2
  <2>3. QED BY <2>1, <2>2
<1>6. CASE ResumeTasks
  BY <1>1, <1>6 DEF ResumeTasks, Resumable
<1>7. CASE Prepare
  BY <1>1, <1>7 DEF Prepare
<1>8. ASSUME NEW t \in TaskId, Worker(t) PROVE DependencyInv'
  <2>1. /\ wpc[t] # "idle" /\ deps' = deps
        /\ \A u \in TaskId : u # t => st'[u] = st[u] /\ wpc'[u] = wpc[u]
    BY <1>8 DEF Worker, Work, Begin, StartAttempt, AttemptsExhausted, ClaudeCompletes,
       ClaudeStops, Verify, ReviewPasses, CaptureFails, ReviewBlocks, ReviewRetries, SetTask,
       TypeOK
  <2>2. QED BY <1>1, <2>1
<1>9. ASSUME NEW t \in TaskId,
             IntegrateMark(t) \/ IntegrateConflict(t) \/ IntegrateBlocked(t)
      PROVE  DependencyInv'
  <2>1. /\ wpc[t] # "idle" /\ deps' = deps
        /\ \A u \in TaskId : u # t => st'[u] = st[u] /\ wpc'[u] = wpc[u]
    BY <1>9 DEF IntegrateMark, IntegrateConflict, IntegrateBlocked, IsFirst, Outcomes, Record,
       SetTask, Handled, TypeOK
  <2>2. QED BY <1>1, <2>1
<1>10. ASSUME NEW t \in TaskId, RecoverMark(t) PROVE DependencyInv'
  <2>1. t \in Pending
    BY <1>10 DEF RecoverMark, Step, IsFirst, CheckpointInv, PendingInv
  <2>2. deps[t] \subseteq Completed
    BY <2>1 DEF Pending
  <2>3. UNCHANGED <<deps, wpc>> /\ \A u \in TaskId : u # t => st'[u] = st[u]
    BY <1>10 DEF RecoverMark, Record, TypeOK
  <2>4. QED BY <1>1, <2>2, <2>3
<1>11. QED
  BY <1>2, <1>3, <1>4, <1>5, <1>6, <1>7, <1>8, <1>9, <1>10, TaskSteps

\* The worktree a worker starts in has what its task depends on.
LEMMA WorktreeNext ==
  ASSUME TypeOK, RecordingInv, CheckpointInv, DependencyInv, WorktreeInv, [Next]_vars
  PROVE  WorktreeInv'
<1> USE DEF WorktreeInv
<1>1. CASE UNCHANGED taskVars /\ (wpc' = wpc \/ wpc' = NoWorkers)
  BY <1>1 DEF taskVars, NoWorkers
<1>2. ASSUME NEW W \in SUBSET TaskId, LoadScheduled(W) PROVE WorktreeInv'
  <2>1. /\ UNCHANGED taskVars
        /\ \A t \in TaskId : wpc'[t] \in {"idle", "begin"}
        /\ \A t \in TaskId : st[t] = "ABSENT" => wpc'[t] = "idle"
    BY <1>2 DEF LoadScheduled, LoadTo, IsWave, IsWaveOf, Ready
  <2>2. QED BY <2>1 DEF taskVars
<1>3. ASSUME NEW plan \in InitialPlans, PlanApply(plan) PROVE WorktreeInv'
  <2>1. /\ wt' = {} /\ dup' = {}
        /\ \A t \in TaskId : wpc'[t] = "idle" /\ st'[t] \in {"PENDING", "ABSENT"}
    BY <1>3 DEF PlanApply, Step, CheckpointInv, WorkersInv
  <2>2. QED BY <2>1
<1>4. ASSUME NEW plan \in Replans, ReplanApply(plan) PROVE WorktreeInv'
  <2>1. /\ \A t \in TaskId : wpc'[t] = "idle"
        /\ UNCHANGED <<wt, base>>
    BY <1>4 DEF ReplanApply, Step, CheckpointInv, WorkersInv
  <2>2. ASSUME NEW t \in TaskId
        PROVE  /\ st'[t] = "ABSENT" => st[t] = "ABSENT"
               /\ t \in dup' => st'[t] = "SUPERSEDED"
               /\ st'[t] # "SUPERSEDED" => st[t] = "ABSENT" \/ deps'[t] = deps[t]
               /\ st'[t] # "SUPERSEDED" => st[t] = "ABSENT" \/ st'[t] = st[t]
               /\ st'[t] \notin {"RUNNING", "VERIFYING", "REVIEWING", "READY_TO_INTEGRATE"}
    BY <1>4 DEF ReplanApply, Completed
  <2>3. QED BY <2>1, <2>2
<1>5. CASE ResumeTasks
  BY <1>5 DEF ResumeTasks, Resumable
<1>6. CASE Prepare
  BY <1>6 DEF Prepare
<1>7. ASSUME NEW t \in TaskId, Worker(t) PROVE WorktreeInv'
  <2>1. /\ deps' = deps /\ dup' = dup
        /\ \A u \in TaskId : u # t => /\ st'[u] = st[u] /\ wpc'[u] = wpc[u]
                                      /\ u \in wt' <=> u \in wt
                                      /\ base'[u] = base[u]
    BY <1>7 DEF Worker, Work, Begin, StartAttempt, AttemptsExhausted, ClaudeCompletes,
       ClaudeStops, Verify, ReviewPasses, CaptureFails, ReviewBlocks, ReviewRetries, SetTask,
       TypeOK
  <2>2. wpc[t] # "idle" /\ st[t] # "ABSENT" /\ deps[t] \subseteq accepted
    BY <1>7 DEF Worker, Work, Begin, StartAttempt, AttemptsExhausted, ClaudeCompletes,
       ClaudeStops, Verify, ReviewPasses, CaptureFails, ReviewBlocks, ReviewRetries,
       DependencyInv, RecordingInv, AcceptedExactly
  <2>3. CASE Begin(t)
    <3>1. st' = st /\ t \in wt' /\ (t \in wt \/ base'[t] = accepted) /\ (t \in wt => base' = base)
      BY <2>3 DEF Begin, TypeOK
    <3>2. QED BY <2>1, <2>2, <3>1
  <2>4. CASE ~Begin(t)
    <3>1. t \in wt /\ UNCHANGED <<wt, base>>
      BY <1>7, <2>4 DEF Worker, Work, StartAttempt, AttemptsExhausted, ClaudeCompletes,
         ClaudeStops, Verify, ReviewPasses, CaptureFails, ReviewBlocks, ReviewRetries
    <3>2. /\ st'[t] # "ABSENT"
          /\ st[t] = "SUPERSEDED" => st'[t] = "SUPERSEDED"
      <4>1. CASE st' = st
        BY <2>2, <4>1
      <4>2. CASE StartAttempt(t)
        BY <2>2, <4>2 DEF StartAttempt, TypeOK
      <4>3. CASE \E target \in TaskStatus : SetTask(t, target)
        BY <2>2, <4>3 DEF SetTask, CanTask, TaskEdges, TaskStatus, TypeOK
      <4>4. QED
        BY <1>7, <2>4, <4>1, <4>2, <4>3 DEF Worker, AttemptsExhausted, ClaudeCompletes,
           ClaudeStops, Verify, ReviewPasses, CaptureFails, ReviewBlocks, ReviewRetries,
           TaskStatus
    <3>3. QED BY <2>1, <2>2, <3>1, <3>2
  <2>5. QED BY <2>3, <2>4
<1>8. ASSUME NEW t \in TaskId, RecoverMark(t) \/ IntegrateMark(t) PROVE WorktreeInv'
  <2>1. /\ UNCHANGED <<deps, base, dup>>
        /\ wt' = wt \ {t} /\ st'[t] = "COMPLETED"
        /\ \A u \in TaskId : u # t => st'[u] = st[u] /\ wpc'[u] = wpc[u]
    BY <1>8 DEF RecoverMark, IntegrateMark, Record, Handled, TypeOK
  <2>2. wpc'[t] = "idle"
    BY <1>8 DEF RecoverMark, IntegrateMark, Handled, Step, CheckpointInv, WorkersInv, TypeOK
  <2>3. st[t] # "SUPERSEDED"
    <3>1. CASE RecoverMark(t)
      BY <3>1 DEF RecoverMark, Step, IsFirst, CheckpointInv, PendingInv, Pending
    <3>2. CASE IntegrateMark(t)
      BY <3>2 DEF IntegrateMark, CanTask, TaskEdges
    <3>3. QED BY <1>8, <3>1, <3>2
  <2>4. QED BY <2>1, <2>2, <2>3
<1>9. ASSUME NEW t \in TaskId, IntegrateConflict(t) \/ IntegrateBlocked(t) PROVE WorktreeInv'
  <2>1. /\ UNCHANGED <<deps, base, dup, wt>>
        /\ wpc[t] # "idle" /\ wpc'[t] = "idle"
        /\ \A u \in TaskId : u # t => st'[u] = st[u] /\ wpc'[u] = wpc[u]
    BY <1>9 DEF IntegrateConflict, IntegrateBlocked, IsFirst, Outcomes, SetTask, Handled, TypeOK
  <2>2. /\ st'[t] = st[t] \/ st'[t] \in {"BLOCKED", "INTEGRATION_BLOCKED"}
        /\ st[t] = "SUPERSEDED" => st'[t] = "SUPERSEDED"
    BY <1>9 DEF IntegrateConflict, IntegrateBlocked, SetTask, CanTask, TaskEdges, TypeOK
  <2>3. QED BY <2>1, <2>2
<1>10. QED
  BY <1>1, <1>2, <1>3, <1>4, <1>5, <1>6, <1>7, <1>8, <1>9, TaskSteps

\* The invariants together.
DeliveryInv == TypeOK /\ RecordingInv /\ CheckpointInv /\ DependencyInv /\ WorktreeInv

LEMMA DeliveryHolds == FreshSpec => []DeliveryInv
<1>1. Init => DeliveryInv
  BY TypeInit, RecordingInit, CheckpointInit
     DEF Init, DeliveryInv, DependencyInv, DependencyOrder, WorktreeInv, NoWorkers
<1>2. DeliveryInv /\ [FreshNext]_vars => DeliveryInv'
  BY TypeNext, RecordingNext, CheckpointNext, DependencyNext, WorktreeNext, FreshNextIsNext
     DEF DeliveryInv
<1>3. QED BY <1>1, <1>2, PTL DEF FreshSpec

\* Whatever is replanned, retried or restarted, a task leaves PENDING only when
\* every task it depends on is COMPLETED.
THEOREM DependenciesComeFirst == FreshSpec => []DependencyOrder
<1>1. DeliveryInv => DependencyOrder
  BY DEF DeliveryInv, DependencyInv
<1>2. QED BY <1>1, DeliveryHolds, PTL

\* And a worker at work has their patches in its worktree.
THEOREM WorktreesHaveDependencies == FreshSpec => []WorktreeHasDependencies
<1>1. DeliveryInv => WorktreeHasDependencies
  BY DEF DeliveryInv, WorktreeInv, WorktreeHasDependencies
<1>2. QED BY <1>1, DeliveryHolds, PTL
-----------------------------------------------------------------------------
(* A run that is reported COMPLETED is done.                               *)

\* No other step of the owner ends a run as COMPLETED, or enters the final
\* review of one that is not done.
LEMMA OnlyCompleteCompletes ==
  ASSUME status # "COMPLETED", OwnerStep \/ Interrupt, ~Complete
  PROVE  /\ status' # "COMPLETED"
         /\ pc' = "finalize" => Active' = Completed' /\ dup' = {}
<1> USE DEF runVars, taskVars, patchVars
<1>1. ASSUME Load, pc' = "finalize" PROVE Active' = Completed' /\ dup' = {}
  <2>1. PICK W \in SUBSET TaskId : LoadScheduled(W)
    BY <1>1 DEF Load, LoadUnplanned, LoadReplan, LoadStopped, LoadTo, Step
  <2>2. Active = Completed /\ dup = {} /\ UNCHANGED <<st, dup>>
    BY <1>1, <2>1 DEF LoadScheduled, LoadTo, Step
  <2>3. QED BY <2>2 DEF Active, Completed
<1>2. CASE Load
  BY <1>1, <1>2 DEF Load, LoadUnplanned, LoadReplan, LoadStopped, LoadScheduled, LoadTo
<1>3. CASE Recovery
  BY <1>3 DEF Recovery, RecoverDone, RecoverApply, RecoverMark, Step
<1>4. CASE Planning
  BY <1>4 DEF Planning, PlanEnter, PlanApply, ReplanEnter, ReplanApply, ToReplanning,
     ResumeTasks, Transition, Step
<1>5. CASE Prepare \/ Gather
  BY <1>5 DEF Prepare, Gather, Step
<1>6. ASSUME NEW t \in TaskId, Worker(t) PROVE status' = status /\ pc' = "wave"
  BY <1>6 DEF Worker, Work, Begin, StartAttempt, AttemptsExhausted, ClaudeCompletes,
     ClaudeStops, Verify, ReviewPasses, CaptureFails, ReviewBlocks, ReviewRetries
<1>7. CASE Integration
  BY <1>7 DEF Integration, ToIntegrating, WaveEnd, ToScheduling, IntegrateApply,
     IntegrateMark, IntegrateConflict, IntegrateBlocked, Transition, Step
<1>8. CASE Ending \/ Raise \/ Interrupt
  BY <1>8 DEF Ending, FinalReviewFails, Block, Raise, Interrupt, Leave, Transition, Step
<1>9. QED BY <1>2, <1>3, <1>4, <1>5, <1>6, <1>7, <1>8 DEF OwnerStep, Wave

LEMMA DoneNext ==
  ASSUME TypeOK, CheckpointInv, DoneInv, [Next]_vars
  PROVE  DoneInv'
<1> USE DEF runVars, taskVars, patchVars
<1>1. status = "COMPLETED" /\ pc = "recover" => snap[owner] = {}
  BY DEF DoneInv, CompletedMeansDone, CheckpointInv, PendingInv, Pending, Active, Completed
<1>2. CASE Complete
  BY <1>2 DEF Complete, Leave, DoneInv, CompletedMeansDone, Active, Completed
<1>3. CASE (OwnerStep \/ Interrupt) /\ ~Complete /\ status # "COMPLETED"
  BY <1>3, OnlyCompleteCompletes DEF DoneInv, CompletedMeansDone
<1>4. ASSUME UNCHANGED <<st, dup, digest, tree>>,
             status' = "COMPLETED" =>
               status = "COMPLETED" /\ pc' \in {"none", "recover", "load", "finalize", "block"},
             pc' = "finalize" => pc = "finalize" \/ status = "COMPLETED"
      PROVE  DoneInv'
  BY <1>4 DEF DoneInv, CompletedMeansDone, Active, Completed
<1>5. CASE (OwnerStep \/ Interrupt) /\ ~Complete /\ status = "COMPLETED"
  <2>1. pc \in {"recover", "load", "finalize", "block"}
    <3>1. pc # "none"
      BY <1>5, OwnerStepsOwned
    <3>2. QED BY <1>5, <3>1 DEF DoneInv
  <2>2. CASE Raise \/ Interrupt \/ Block
    BY <1>4, <1>5, <2>2 DEF Raise, Interrupt, Block, Leave, Transition
  <2>3. CASE Recovery
    BY <1>1, <1>4, <1>5, <2>1, <2>3
       DEF Recovery, RecoverDone, RecoverApply, RecoverMark, Step, IsFirst
  <2>4. ASSUME NEW W \in SUBSET TaskId, LoadScheduled(W) PROVE DoneInv'
    <3>1. Active = Completed /\ dup = {}
      BY <1>5 DEF DoneInv, CompletedMeansDone
    <3>2. pc' \in {"finalize", "block"}
      BY <2>4, <3>1 DEF LoadScheduled, LoadTo, Step, IsWave, IsWaveOf, Ready, Active, Completed
    <3>3. QED BY <1>4, <1>5, <2>4, <3>2 DEF LoadScheduled, LoadTo
  <2>5. CASE Load
    BY <1>5, <2>4, <2>5 DEF Load, LoadUnplanned, LoadReplan, LoadStopped
  <2>6. CASE FinalReviewFails
    BY <1>4, <1>5, <2>6 DEF FinalReviewFails, Step
  <2>7. ~Planning /\ ~Wave /\ ~Integration
    BY <2>1 DEF Planning, PlanEnter, PlanApply, ReplanEnter, ReplanApply, ToReplanning,
       ResumeTasks, Wave, Prepare, Gather, Worker, Work, Begin, StartAttempt, AttemptsExhausted,
       ClaudeCompletes, ClaudeStops, Verify, ReviewPasses, CaptureFails, ReviewBlocks,
       ReviewRetries, Integration, ToIntegrating, WaveEnd, ToScheduling, IntegrateApply,
       IntegrateMark, IntegrateConflict, IntegrateBlocked, Step
  <2>8. QED BY <1>5, <2>2, <2>3, <2>5, <2>6, <2>7 DEF OwnerStep, Ending
<1>6. ASSUME NEW p \in Proc, Launch(p) \/ Before(p) PROVE DoneInv'
  <2>1. /\ UNCHANGED <<status, st, dup, digest, tree>>
        /\ pc' = pc \/ pc' = "recover"
    BY <1>6 DEF Launch, Before, Acquire, Refused
  <2>2. QED BY <1>4, <2>1 DEF DoneInv
<1>7. ASSUME NEW p \in Proc, After(p) PROVE DoneInv'
  <2>1. /\ pc' = pc /\ UNCHANGED <<st, dup, digest, tree>>
        /\ status' = "COMPLETED" => status = "COMPLETED"
    BY <1>7 DEF After, LateWrite, Transition
  <2>2. QED BY <1>4, <2>1 DEF DoneInv
<1>8. ASSUME NEW p \in Proc, Crash(p) PROVE DoneInv'
  <2>1. pc' \in {pc, "none"} /\ UNCHANGED <<status, st, dup, digest, tree>>
    BY <1>8 DEF Crash, Leave
  <2>2. QED BY <1>4, <2>1 DEF DoneInv
<1>9. CASE Add \/ UNCHANGED vars
  <2>1. /\ UNCHANGED <<pc, st, dup, digest, tree>>
        /\ status' = "COMPLETED" => status = "COMPLETED"
    BY <1>9 DEF Add, AddCheck, AddAppend, AddGivesUp, Transition, ctlVars, vars
  <2>2. QED BY <1>4, <2>1 DEF DoneInv
<1>10. QED BY <1>2, <1>3, <1>5, <1>6, <1>7, <1>8, <1>9 DEF Next

\* COMPLETED is recorded only when every record that is not superseded is, and
\* stays true of the run until an `add` opens it again, also when a controller
\* that had loaded the run before goes through it once more.
THEOREM CompletedRunsAreDone == FreshSpec => []CompletedMeansDone
<1>1. Init => DoneInv
  BY DEF Init, DoneInv, CompletedMeansDone
<1>2. TypeOK /\ CheckpointInv /\ DoneInv /\ [FreshNext]_vars => DoneInv'
  BY DoneNext, FreshNextIsNext
<1>3. DoneInv => CompletedMeansDone
  BY DEF DoneInv
<1>4. QED BY <1>1, <1>2, <1>3, CheckpointHolds, PTL DEF FreshSpec

-----------------------------------------------------------------------------
(* Every step brings the run closer to its end, for any number of          *)
(* controllers, overlapping or not.                                        *)

\* The parts of LoopInv: the status while a plan is on its way, the records an
\* id has twice, the attempts and the bounds.
WayInv ==
  /\ pc \in {"plan_enter", "plan_call", "replan_enter", "replan_call", "resume_tasks"} =>
       status \notin Scheduled
  /\ pc = "to_replanning" => status \in {"PAUSED", "BLOCKED", "REPLAN_PENDING"}
DupInv    == \A t \in dup : st[t] \in {"SUPERSEDED", "COMPLETED"}
AttInv    == \A t \in TaskId : att[t] <= MaxAttempts
BudgetInv == /\ launches <= MaxLaunches
             /\ Len(revs) + (IF adder = "checked" THEN 1 ELSE 0) <= MaxRevisions

LEMMA WayNext ==
  ASSUME WayInv, [Next]_vars
  PROVE  WayInv'
<1> USE DEF WayInv, Scheduled
<1>1. CASE pc' = pc /\ status' \in {status, "PAUSED", "BLOCKED"}
  BY <1>1
<1>2. CASE pc' \notin {"plan_enter", "plan_call", "replan_enter", "replan_call",
                       "resume_tasks", "to_replanning"}
  BY <1>2
<1>3. CASE Recovery
  BY <1>2, <1>3 DEF Recovery, RecoverDone, RecoverApply, RecoverMark, Step
<1>4. CASE Load
  BY <1>4 DEF Load, LoadUnplanned, LoadReplan, LoadStopped, LoadScheduled, LoadTo, Step, runVars
<1>5. CASE Planning
  BY <1>5 DEF Planning, PlanEnter, PlanApply, ReplanEnter, ReplanApply, ToReplanning,
     ResumeTasks, Step, Transition
<1>6. CASE Wave
  BY <1>2, <1>6 DEF Wave, Prepare, Gather, Worker, Work, Begin, StartAttempt, AttemptsExhausted,
     ClaudeCompletes, ClaudeStops, Verify, ReviewPasses, CaptureFails, ReviewBlocks,
     ReviewRetries, Step
<1>7. CASE Integration
  BY <1>7 DEF Integration, ToIntegrating, WaveEnd, ToScheduling, IntegrateApply,
     IntegrateMark, IntegrateConflict, IntegrateBlocked, Step, runVars
<1>8. CASE Ending \/ Raise \/ Interrupt
  BY <1>2, <1>8 DEF Ending, Complete, FinalReviewFails, Block, Raise, Interrupt, Leave, Step
<1>9. ASSUME NEW p \in Proc, Launch(p) \/ Before(p) \/ After(p) \/ Crash(p) PROVE WayInv'
  BY <1>1, <1>2, <1>9 DEF Launch, Before, Acquire, Refused, After, LateWrite, Transition, Crash,
     Leave, runVars
<1>10. CASE Add \/ UNCHANGED vars
  BY <1>1, <1>10 DEF Add, AddCheck, AddAppend, AddGivesUp, Transition, ctlVars, runVars, vars
<1>11. QED
  BY <1>3, <1>4, <1>5, <1>6, <1>7, <1>8, <1>9, <1>10 DEF Next, OwnerStep

\* A task whose id has a second record is not moved on: its first record is where
\* no legal move starts.
LEMMA NoMoveOfDup ==
  ASSUME DupInv, NEW t \in TaskId, NEW target \in TaskStatus \ {"SUPERSEDED", "COMPLETED"},
         CanTask(st[t], target)
  PROVE  t \notin dup
BY DEF DupInv, CanTask, TaskEdges

LEMMA DupNext ==
  ASSUME TypeOK, DupInv, [Next]_vars
  PROVE  DupInv'
<1> USE DEF DupInv, TaskStatus
<1>1. CASE UNCHANGED taskVars
  BY <1>1 DEF taskVars
<1>2. ASSUME NEW t \in TaskId, t \notin dup, dup' = dup, NEW s, st' = [st EXCEPT ![t] = s]
      PROVE  DupInv'
  BY <1>2 DEF TypeOK
<1>3. ASSUME NEW t \in TaskId, NEW s \in TaskStatus \ {"SUPERSEDED", "COMPLETED"},
             dup' = dup, SetTask(t, s)
      PROVE  DupInv'
  BY <1>2, <1>3, NoMoveOfDup DEF SetTask
<1>4. ASSUME NEW W \in SUBSET TaskId, LoadScheduled(W) PROVE DupInv'
  BY <1>4 DEF LoadScheduled, LoadTo, taskVars
<1>5. ASSUME NEW plan \in InitialPlans, PlanApply(plan) PROVE DupInv'
  BY <1>5 DEF PlanApply
<1>6. ASSUME NEW plan \in Replans, ReplanApply(plan) PROVE DupInv'
  BY <1>6 DEF ReplanApply, IsPlan
<1>7. CASE ResumeTasks
  BY <1>7 DEF ResumeTasks, Resumable, TypeOK
<1>8. CASE Prepare
  BY <1>8 DEF Prepare, TypeOK
<1>9. ASSUME NEW t \in TaskId, Worker(t) PROVE DupInv'
  <2>1. dup' = dup
    BY <1>9 DEF Worker, Work, Begin, StartAttempt, AttemptsExhausted, ClaudeCompletes,
       ClaudeStops, Verify, ReviewPasses, CaptureFails, ReviewBlocks, ReviewRetries
  <2>2. CASE StartAttempt(t)
    BY <1>2, <2>1, <2>2 DEF StartAttempt
  <2>3. CASE st' = st
    BY <2>1, <2>3
  <2>4. QED
    BY <1>3, <1>9, <2>1, <2>2, <2>3 DEF Worker, Begin, AttemptsExhausted, ClaudeCompletes,
       ClaudeStops, Verify, ReviewPasses, CaptureFails, ReviewBlocks, ReviewRetries
<1>10. ASSUME NEW t \in TaskId, RecoverMark(t) \/ IntegrateMark(t) PROVE DupInv'
  BY <1>10 DEF RecoverMark, IntegrateMark, Record, TypeOK
<1>11. ASSUME NEW t \in TaskId, IntegrateConflict(t) \/ IntegrateBlocked(t) PROVE DupInv'
  BY <1>3, <1>11 DEF IntegrateConflict, IntegrateBlocked
<1>12. QED
  BY <1>1, <1>4, <1>5, <1>6, <1>7, <1>8, <1>9, <1>10, <1>11, TaskSteps

LEMMA AttNext ==
  ASSUME TypeOK, AttInv, [Next]_vars
  PROVE  AttInv'
<1> USE DEF AttInv
<1>1. CASE att' = att
  BY <1>1
<1>2. ASSUME NEW plan \in InitialPlans, PlanApply(plan) PROVE AttInv'
  BY <1>2 DEF PlanApply
<1>3. ASSUME NEW t \in TaskId, StartAttempt(t) PROVE AttInv'
  BY <1>3 DEF StartAttempt, TypeOK
<1>4. QED
  BY <1>1, <1>2, <1>3, TaskSteps DEF taskVars, LoadScheduled, LoadTo, ReplanApply, ResumeTasks,
     Prepare, Worker, Begin, AttemptsExhausted, ClaudeCompletes, ClaudeStops, Verify,
     ReviewPasses, CaptureFails, ReviewBlocks, ReviewRetries, RecoverMark, IntegrateMark,
     Record, IntegrateConflict, IntegrateBlocked

\* Only a launch counts as one, and only the append of an `add` makes the list of
\* requirements longer.
LEMMA BudgetKept ==
  ASSUME TypeOK, [Next]_vars, \A p \in Proc : ~Launch(p), ~Add
  PROVE  launches' = launches /\ Len(revs') = Len(revs) /\ adder' = adder
<1> USE DEF runVars
<1>1. Len(AllApplied) = Len(revs)
  BY LenProperties DEF AllApplied, TypeOK
<1>2. CASE Recovery
  BY <1>2 DEF Recovery, RecoverDone, RecoverApply, RecoverMark, Step
<1>3. CASE Load
  BY <1>3 DEF Load, LoadUnplanned, LoadReplan, LoadStopped, LoadScheduled, LoadTo, Step
<1>4. CASE Planning
  BY <1>1, <1>4 DEF Planning, PlanEnter, PlanApply, ReplanEnter, ReplanApply, ToReplanning,
     ResumeTasks, Step
<1>5. CASE Wave
  BY <1>5 DEF Wave, Prepare, Gather, Worker, Work, Begin, StartAttempt, AttemptsExhausted,
     ClaudeCompletes, ClaudeStops, Verify, ReviewPasses, CaptureFails, ReviewBlocks,
     ReviewRetries, Step
<1>6. CASE Integration
  BY <1>6 DEF Integration, ToIntegrating, WaveEnd, ToScheduling, IntegrateApply,
     IntegrateMark, IntegrateConflict, IntegrateBlocked, Step
<1>7. CASE Ending \/ Raise \/ Interrupt
  BY <1>7 DEF Ending, Complete, FinalReviewFails, Block, Raise, Interrupt, Leave, Step
<1>8. ASSUME NEW p \in Proc, Before(p) \/ After(p) \/ Crash(p)
      PROVE  launches' = launches /\ Len(revs') = Len(revs) /\ adder' = adder
  BY <1>8 DEF Before, Acquire, Refused, After, LateWrite, Crash, Leave
<1>9. CASE UNCHANGED vars
  BY <1>9 DEF vars, ctlVars
<1>10. QED
  BY <1>2, <1>3, <1>4, <1>5, <1>6, <1>7, <1>8, <1>9 DEF Next, OwnerStep

LEMMA BudgetNext ==
  ASSUME TypeOK, BudgetInv, [Next]_vars
  PROVE  BudgetInv'
<1>1. Len(revs) \in Nat
  BY LenProperties DEF TypeOK
<1>2. ASSUME NEW p \in Proc, Launch(p) PROVE BudgetInv'
  BY <1>1, <1>2 DEF Launch, BudgetInv, runVars, TypeOK
<1>3. CASE AddAppend
  <2>1. Len(revs') = Len(revs) + 1
    BY <1>3, AppendProperties DEF AddAppend, TypeOK, RevisionStatus
  <2>2. QED BY <1>1, <1>3, <2>1 DEF AddAppend, BudgetInv, ctlVars
<1>4. CASE AddCheck \/ AddGivesUp
  BY <1>1, <1>4 DEF AddCheck, AddGivesUp, BudgetInv, ctlVars, runVars
<1>5. CASE ~Add /\ \A p \in Proc : ~Launch(p)
  BY <1>5, BudgetKept DEF BudgetInv
<1>6. QED BY <1>2, <1>3, <1>4, <1>5 DEF Add

LEMMA LoopHolds == Spec => [](TypeOK /\ WorkersInv /\ LoopInv)
<1>1. Init => WorkersInv /\ WayInv /\ DupInv /\ AttInv /\ BudgetInv
  BY DEF Init, WorkersInv, WayInv, DupInv, AttInv, BudgetInv, NoWorkers
<1>2. WayInv /\ DupInv /\ AttInv /\ BudgetInv <=> LoopInv
  BY DEF WayInv, DupInv, AttInv, BudgetInv, LoopInv
<1>3. TypeOK /\ WorkersInv /\ LoopInv /\ [Next]_vars => (TypeOK /\ WorkersInv /\ LoopInv)'
  <2> SUFFICES ASSUME TypeOK, WorkersInv, LoopInv, [Next]_vars
               PROVE  (TypeOK /\ WorkersInv /\ LoopInv)'
    OBVIOUS
  <2>1. WayInv' /\ DupInv' /\ AttInv' /\ BudgetInv'
    BY <1>2, WayNext, DupNext, AttNext, BudgetNext
  <2>2. LoopInv'
    BY <2>1 DEF WayInv, DupInv, AttInv, BudgetInv, LoopInv
  <2>3. QED BY <2>2, TypeNext, WorkersNext
<1>4. QED BY <1>1, <1>2, <1>3, TypeInit, PTL DEF Spec

\* What is ahead of a run is counted in natural numbers.
LEMMA AheadIsNatural ==
  ASSUME TypeOK, LoopInv
  PROVE  /\ BudgetAhead \in [1..2 -> Nat] /\ PhasesAhead \in [Proc -> Nat]
         /\ PlanAhead \in [1..1 -> Nat] /\ TasksAhead \in [TaskId -> Nat]
         /\ LoopAhead \in [1..1 -> Nat] /\ AttemptsAhead \in [TaskId -> Nat]
         /\ StagesAhead \in [TaskId -> Nat]
<1>1. Len(revs) \in Nat
  BY LenProperties DEF TypeOK
<1>2. MaxLaunches - launches \in Nat /\ MaxRevisions - Len(revs) \in Nat
  BY <1>1 DEF TypeOK, LoopInv
<1>3. BudgetAhead \in [1..2 -> Nat]
  BY <1>2 DEF BudgetAhead
<1>4. PhasesAhead \in [Proc -> Nat]
  BY DEF TypeOK, PhaseAt, PhaseRank, PhasesAhead
<1>5. PlanAhead \in [1..1 -> Nat]
  BY DEF PlanAhead
<1>6. TasksAhead \in [TaskId -> Nat]
  BY DEF TasksAhead, TaskRank
<1>7. LoopAhead \in [1..1 -> Nat]
  BY DEF TypeOK, OwnerAt, AwaitingCodex, LoopRank, LoopAhead
<1>8. AttemptsAhead \in [TaskId -> Nat]
  BY DEF TypeOK, LoopInv, AttemptsAhead
<1>9. StagesAhead \in [TaskId -> Nat]
  BY DEF TypeOK, WorkerAt, WorkerRank, StagesAhead
<1>10. QED BY <1>3, <1>4, <1>5, <1>6, <1>7, <1>8, <1>9

\* A run comes closer when a launch or a requirement is used up.
LEMMA BudgetIsCloser ==
  ASSUME TypeOK, TypeOK',
         \/ launches' = launches + 1 /\ Len(revs') = Len(revs)
         \/ launches' = launches /\ Len(revs') = Len(revs) + 1
  PROVE  Closer(RunRank', RunRank)
<1>1. Len(revs) \in Nat
  BY LenProperties DEF TypeOK
<1>2. Lower(BudgetAhead', BudgetAhead)
  BY <1>1 DEF TypeOK, BudgetAhead, Lower
<1>3. QED BY <1>2, CloserOfSeven DEF RunRank

\* Or when a controller gets on.
LEMMA PhaseIsCloser ==
  ASSUME TypeOK, TypeOK', UNCHANGED <<launches, Len(revs)>>, NEW p \in Proc,
         PhaseRank[phase'[p]] < PhaseRank[phase[p]],
         \A q \in Proc : q # p => phase'[q] = phase[q]
  PROVE  Closer(RunRank', RunRank)
<1>1. BudgetAhead' = BudgetAhead
  BY DEF BudgetAhead
<1>2. PhasesAhead \in [Proc -> Int] /\ PhasesAhead' \in [Proc -> Int]
  BY DEF TypeOK, PhaseAt, PhaseRank, PhasesAhead
<1>3. /\ PhasesAhead'[p] < PhasesAhead[p]
      /\ \A q \in Proc : q # p => PhasesAhead'[q] = PhasesAhead[q]
  BY DEF PhasesAhead
<1>4. Lower(PhasesAhead', PhasesAhead)
  BY <1>2, <1>3 DEF Lower
<1>5. QED BY <1>1, <1>4, CloserOfSeven DEF RunRank

\* Or, the controllers being where they were, when a plan is applied.
LEMMA PlanIsCloser ==
  ASSUME UNCHANGED <<launches, Len(revs), phase>>, PlanAhead'[1] < PlanAhead[1]
  PROVE  Closer(RunRank', RunRank)
<1>1. BudgetAhead' = BudgetAhead /\ PhasesAhead' = PhasesAhead
  BY DEF BudgetAhead, PhasesAhead
<1>2. Lower(PlanAhead', PlanAhead)
  BY DEF PlanAhead, Lower
<1>3. QED BY <1>1, <1>2, CloserOfSeven DEF RunRank

\* Or when a task leaves the schedule and none enters it.
LEMMA TaskIsCloser ==
  ASSUME UNCHANGED <<launches, Len(revs), phase>>, PlanAhead'[1] <= PlanAhead[1],
         \A u \in TaskId : TaskRank(u)' <= TaskRank(u),
         NEW t \in TaskId, TaskRank(t)' < TaskRank(t)
  PROVE  Closer(RunRank', RunRank)
<1>1. BudgetAhead' = BudgetAhead /\ PhasesAhead' = PhasesAhead
  BY DEF BudgetAhead, PhasesAhead
<1>2. PlanAhead' = PlanAhead \/ Lower(PlanAhead', PlanAhead)
  BY DEF PlanAhead, Lower
<1>3. Lower(TasksAhead', TasksAhead)
  BY DEF TasksAhead, Lower
<1>4. QED BY <1>1, <1>2, <1>3, CloserOfSeven DEF RunRank

\* Or when the owner gets on in its turn of the loop and no task enters the schedule.
LEMMA LoopIsCloser ==
  ASSUME TypeOK, TypeOK', UNCHANGED <<launches, Len(revs), phase>>,
         PlanAhead'[1] <= PlanAhead[1],
         \A u \in TaskId : TaskRank(u)' = TaskRank(u),
         LoopRank[pc'] < LoopRank[pc]
  PROVE  Closer(RunRank', RunRank)
<1>1. BudgetAhead' = BudgetAhead /\ PhasesAhead' = PhasesAhead
  BY DEF BudgetAhead, PhasesAhead
<1>2. PlanAhead' = PlanAhead \/ Lower(PlanAhead', PlanAhead)
  BY DEF PlanAhead, Lower
<1>3. TasksAhead' = TasksAhead
  BY DEF TasksAhead
<1>4. Lower(LoopAhead', LoopAhead)
  <2>1. LoopRank[pc] \in Int /\ LoopRank[pc'] \in Int
    BY DEF TypeOK, OwnerAt, AwaitingCodex, LoopRank
  <2>2. QED BY <2>1 DEF LoopAhead, Lower
<1>5. QED BY <1>1, <1>2, <1>3, <1>4, CloserOfSeven DEF RunRank

\* Or when a worker starts an attempt or reaches the next stage of one.
LEMMA WorkerIsCloser ==
  ASSUME TypeOK, TypeOK', UNCHANGED <<launches, Len(revs), phase, status, pc>>,
         \A u \in TaskId : TaskRank(u)' = TaskRank(u),
         NEW t \in TaskId,
         \/ att'[t] = att[t] + 1
         \/ att'[t] = att[t] /\ WorkerRank[wpc'[t]] < WorkerRank[wpc[t]],
         \A u \in TaskId : u # t => att'[u] = att[u] /\ wpc'[u] = wpc[u]
  PROVE  Closer(RunRank', RunRank)
<1>1. /\ BudgetAhead' = BudgetAhead /\ PhasesAhead' = PhasesAhead
      /\ PlanAhead' = PlanAhead /\ LoopAhead' = LoopAhead
  BY DEF BudgetAhead, PhasesAhead, PlanAhead, LoopAhead
<1>2. TasksAhead' = TasksAhead
  BY DEF TasksAhead
<1>3. CASE att'[t] = att[t] + 1
  <2>1. AttemptsAhead \in [TaskId -> Int] /\ AttemptsAhead' \in [TaskId -> Int]
    BY DEF TypeOK, AttemptsAhead
  <2>2. /\ AttemptsAhead'[t] < AttemptsAhead[t]
        /\ \A u \in TaskId : u # t => AttemptsAhead'[u] = AttemptsAhead[u]
    BY <1>3 DEF TypeOK, AttemptsAhead
  <2>3. Lower(AttemptsAhead', AttemptsAhead)
    <3>1. \A u \in TaskId : AttemptsAhead'[u] <= AttemptsAhead[u]
      BY <2>1, <2>2
    <3>2. QED BY <2>1, <2>2, <3>1 DEF Lower
  <2>4. QED BY <1>1, <1>2, <2>3, CloserOfSeven DEF RunRank
<1>4. CASE att'[t] = att[t] /\ WorkerRank[wpc'[t]] < WorkerRank[wpc[t]]
  <2>1. AttemptsAhead' = AttemptsAhead
    BY <1>4 DEF AttemptsAhead
  <2>2. StagesAhead \in [TaskId -> Int] /\ StagesAhead' \in [TaskId -> Int]
    BY DEF TypeOK, WorkerAt, WorkerRank, StagesAhead
  <2>3. /\ StagesAhead'[t] < StagesAhead[t]
        /\ \A u \in TaskId : u # t => StagesAhead'[u] = StagesAhead[u]
    BY <1>4 DEF StagesAhead
  <2>4. Lower(StagesAhead', StagesAhead)
    BY <2>2, <2>3 DEF Lower
  <2>5. QED BY <1>1, <1>2, <2>1, <2>4, CloserOfSeven DEF RunRank
<1>5. QED BY <1>3, <1>4

\* The rank of a task whose record, worker and place in the recovery are kept.
LEMMA TaskRankKept ==
  ASSUME UNCHANGED <<wpc, st, dup, snap, owner>>,
         \/ {pc, pc'} \subseteq {"recover", "recovered"}
         \/ {pc, pc'} \cap {"recover", "recovered"} = {}
  PROVE  \A t \in TaskId : TaskRank(t)' = TaskRank(t)
BY DEF TaskRank

LEMMA RecoveryAdvances ==
  ASSUME TypeOK, TypeOK', UNCHANGED <<launches, Len(revs)>>, Recovery
  PROVE  Closer(RunRank', RunRank)
<1> USE DEF runVars, taskVars
<1>1. UNCHANGED <<status, phase, wpc, dup, owner>>
  BY DEF Recovery, RecoverDone, RecoverApply, RecoverMark, Record, Step
<1>2. PlanAhead' = PlanAhead /\ PlanAhead'[1] <= PlanAhead[1]
  BY <1>1 DEF PlanAhead
<1>3. CASE RecoverDone
  <2>1. /\ pc = "recover" /\ pc' = "load" /\ snap[owner] = {}
        /\ UNCHANGED <<st, snap>>
    BY <1>3 DEF RecoverDone, Step
  <2>2. \A t \in TaskId : TaskRank(t)' = TaskRank(t)
    BY <1>1, <2>1 DEF TaskRank
  <2>3. LoopRank[pc'] < LoopRank[pc]
    BY <2>1 DEF LoopRank
  <2>4. QED BY <1>1, <1>2, <2>2, <2>3, LoopIsCloser
<1>4. ASSUME NEW t \in TaskId, RecoverApply(t) PROVE Closer(RunRank', RunRank)
  <2>1. pc = "recover" /\ pc' = "recovered" /\ UNCHANGED <<st, snap>>
    BY <1>4 DEF RecoverApply, Step
  <2>2. \A u \in TaskId : TaskRank(u)' = TaskRank(u)
    BY <1>1, <2>1, TaskRankKept
  <2>3. LoopRank[pc'] < LoopRank[pc]
    BY <2>1 DEF LoopRank
  <2>4. QED BY <1>1, <1>2, <2>2, <2>3, LoopIsCloser
<1>5. ASSUME NEW t \in TaskId, RecoverMark(t) PROVE Closer(RunRank', RunRank)
  <2>1. pc = "recovered" /\ pc' = "recover" /\ t \in snap[owner] /\ owner \in Proc
    BY <1>5 DEF RecoverMark, Step, IsFirst, TypeOK
  <2>2. snap'[owner] = snap[owner] \ {t} /\ \A u \in TaskId : u # t => st'[u] = st[u]
    BY <1>5, <2>1 DEF RecoverMark, Record, TypeOK
  <2>3. TaskRank(t)' < TaskRank(t)
    <3>1. TaskRank(t) = 3
      BY <2>1 DEF TaskRank
    <3>2. t \notin snap'[owner']
      BY <1>1, <2>2
    <3>3. TaskRank(t)' \in {0, 1, 2}
      BY <3>2 DEF TaskRank
    <3>4. QED BY <3>1, <3>3
  <2>4. \A u \in TaskId : u # t => TaskRank(u)' = TaskRank(u)
    BY <1>1, <2>1, <2>2 DEF TaskRank
  <2>5. \A u \in TaskId : TaskRank(u)' <= TaskRank(u)
    BY <2>3, <2>4 DEF TaskRank
  <2>6. QED BY <1>1, <1>2, <2>3, <2>5, TaskIsCloser
<1>6. QED BY <1>3, <1>4, <1>5 DEF Recovery

\* A turn of the loop either ends the run, plans, or starts a wave of tasks that
\* are then no longer to be started.
LEMMA LoadAdvances ==
  ASSUME TypeOK, TypeOK', WorkersInv, UNCHANGED <<launches, Len(revs)>>, Load
  PROVE  Closer(RunRank', RunRank)
<1> USE DEF runVars, taskVars
<1>1. UNCHANGED <<status, phase, st, dup, snap, owner>> /\ pc = "load"
  BY DEF Load, LoadUnplanned, LoadReplan, LoadStopped, LoadScheduled, LoadTo, Step
<1>2. PlanAhead' = PlanAhead /\ PlanAhead'[1] <= PlanAhead[1]
  BY <1>1 DEF PlanAhead
<1>3. ASSUME wpc' = wpc,
             pc' \in {"plan_enter", "plan_call", "replan_enter", "replan_call",
                      "to_replanning", "resume_tasks", "finalize", "block"}
      PROVE  Closer(RunRank', RunRank)
  <2>1. \A u \in TaskId : TaskRank(u)' = TaskRank(u)
    BY <1>1, <1>3, TaskRankKept
  <2>2. LoopRank[pc'] < LoopRank[pc]
    BY <1>1, <1>3 DEF LoopRank
  <2>3. QED BY <1>1, <1>2, <2>1, <2>2, LoopIsCloser
<1>4. CASE LoadUnplanned \/ LoadReplan \/ LoadStopped
  BY <1>3, <1>4 DEF LoadUnplanned, LoadReplan, LoadStopped, LoadTo, Step
<1>5. ASSUME NEW W \in SUBSET TaskId, LoadScheduled(W) PROVE Closer(RunRank', RunRank)
  <2>1. \A u \in TaskId : wpc[u] = "idle"
    BY <1>1 DEF WorkersInv
  <2>2. wpc' = [u \in TaskId |-> IF u \in W THEN "begin" ELSE "idle"]
    BY <1>5 DEF LoadScheduled
  <2>3. CASE W = {}
    <3>1. wpc' = wpc
      BY <2>1, <2>2, <2>3 DEF TypeOK
    <3>2. pc' \in {"finalize", "block"}
      BY <1>5, <2>3 DEF LoadScheduled, LoadTo, Step
    <3>3. QED BY <1>3, <3>1, <3>2
  <2>4. CASE W # {}
    <3>1. IsWave(W) /\ pc' = "prepare"
      BY <1>5, <2>4 DEF LoadScheduled, LoadTo, Step
    <3>2. PICK t \in TaskId : t \in W
      BY <2>4
    <3>3. \A u \in W : st[u] \in {"PENDING", "READY", "RETRYING"} \/ u \in dup
      BY <3>1 DEF IsWave, IsWaveOf, Ready
    <3>4. ASSUME NEW u \in TaskId
          PROVE  TaskRank(u)' = IF u \in W THEN 1 ELSE TaskRank(u)
      <4>1. CASE u \in W
        BY <2>2, <3>1, <4>1 DEF TaskRank
      <4>2. CASE u \notin W
        <5>1. wpc[u] = "idle" /\ wpc'[u] = "idle" /\ st'[u] = st[u] /\ dup' = dup
          BY <1>1, <2>1, <2>2, <4>2
        <5>2. QED BY <1>1, <3>1, <4>2, <5>1 DEF TaskRank
      <4>3. QED BY <4>1, <4>2
    <3>5. \A u \in W : TaskRank(u) = 2
      BY <1>1, <2>1, <3>3 DEF TaskRank
    <3>6. \A u \in TaskId : TaskRank(u) \in Int
      BY DEF TaskRank
    <3>7. \A u \in TaskId : TaskRank(u)' <= TaskRank(u)
      BY <3>4, <3>5, <3>6
    <3>8. TaskRank(t)' < TaskRank(t)
      BY <3>2, <3>4, <3>5
    <3>9. QED BY <1>1, <1>2, <3>7, <3>8, TaskIsCloser
  <2>5. QED BY <2>3, <2>4
<1>6. QED BY <1>4, <1>5 DEF Load

\* A plan is entered once and applied once.
LEMMA PlanningAdvances ==
  ASSUME TypeOK, TypeOK', WayInv, UNCHANGED <<launches, Len(revs)>>, Planning
  PROVE  Closer(RunRank', RunRank)
<1> USE DEF runVars, taskVars
<1>1. phase' = phase
  BY DEF Planning, PlanEnter, PlanApply, ReplanEnter, ReplanApply, ToReplanning, ResumeTasks,
     Step
<1>2. CASE PlanEnter \/ ReplanEnter
  <2>1. /\ UNCHANGED <<wpc, st, dup, snap, owner>>
        /\ pc \in {"plan_enter", "replan_enter"} /\ pc' \in {"plan_call", "replan_call"}
        /\ status' \in {"PLANNING", "REPLANNING"}
    BY <1>2 DEF PlanEnter, ReplanEnter, Transition, Step
  <2>2. PlanAhead'[1] <= PlanAhead[1]
    BY <2>1 DEF PlanAhead, WayInv, Scheduled
  <2>3. \A u \in TaskId : TaskRank(u)' = TaskRank(u)
    BY <2>1, TaskRankKept
  <2>4. LoopRank[pc'] < LoopRank[pc]
    BY <2>1 DEF LoopRank
  <2>5. QED BY <1>1, <2>2, <2>3, <2>4, LoopIsCloser
<1>3. CASE \/ \E plan \in InitialPlans : PlanApply(plan)
           \/ \E plan \in Replans : ReplanApply(plan)
           \/ ResumeTasks
  <2>1. /\ pc \in {"plan_call", "replan_call", "resume_tasks"}
        /\ status' = "SCHEDULING"
    BY <1>3 DEF PlanApply, ReplanApply, ResumeTasks, Transition, Step
  <2>2. PlanAhead'[1] < PlanAhead[1]
    BY <2>1 DEF PlanAhead, WayInv, Scheduled
  <2>3. QED BY <1>1, <2>2, PlanIsCloser
<1>4. CASE ToReplanning
  <2>1. pc = "to_replanning" /\ status' = "REPLANNING"
    BY <1>4 DEF ToReplanning, Transition, Step
  <2>2. PlanAhead'[1] < PlanAhead[1]
    BY <2>1 DEF PlanAhead, WayInv, Scheduled
  <2>3. QED BY <1>1, <2>2, PlanIsCloser
<1>5. QED BY <1>2, <1>3, <1>4 DEF Planning

\* A worker at work is no longer to be started: it gets on with its attempts.
LEMMA WorkAdvances ==
  ASSUME TypeOK, TypeOK', UNCHANGED <<launches, Len(revs)>>, Wave
  PROVE  Closer(RunRank', RunRank)
<1> USE DEF runVars, taskVars
<1>1. phase' = phase /\ pc \notin {"recover", "recovered"} /\ pc' \notin {"recover", "recovered"}
  BY DEF Wave, Prepare, Gather, Worker, Work, Begin, StartAttempt, AttemptsExhausted,
     ClaudeCompletes, ClaudeStops, Verify, ReviewPasses, CaptureFails, ReviewBlocks,
     ReviewRetries, Step
<1>2. CASE Prepare
  <2>1. /\ wpc' = wpc /\ dup' = dup /\ pc = "prepare" /\ pc' = "wave"
        /\ \A u \in TaskId : wpc[u] # "idle" \/ st'[u] = st[u]
    BY <1>2 DEF Prepare, Step
  <2>2. \A u \in TaskId : TaskRank(u)' = TaskRank(u)
    BY <1>1, <2>1 DEF TaskRank
  <2>3. PlanAhead'[1] <= PlanAhead[1]
    BY <1>2 DEF Prepare, PlanAhead, Scheduled
  <2>4. LoopRank[pc'] < LoopRank[pc]
    BY <2>1 DEF LoopRank
  <2>5. QED BY <1>1, <2>2, <2>3, <2>4, LoopIsCloser
<1>3. CASE Gather
  <2>1. /\ UNCHANGED <<status, wpc, st, dup, snap, owner>>
        /\ pc = "wave" /\ pc' \in {"to_integrating", "integrate"}
    BY <1>3 DEF Gather, Step
  <2>2. \A u \in TaskId : TaskRank(u)' = TaskRank(u)
    BY <1>1, <2>1, TaskRankKept
  <2>3. PlanAhead' = PlanAhead /\ PlanAhead'[1] <= PlanAhead[1]
    BY <2>1 DEF PlanAhead
  <2>4. LoopRank[pc'] < LoopRank[pc]
    BY <2>1 DEF LoopRank
  <2>5. QED BY <1>1, <2>2, <2>3, <2>4, LoopIsCloser
<1>4. ASSUME NEW t \in TaskId, Worker(t) PROVE Closer(RunRank', RunRank)
  <2>1. /\ UNCHANGED <<status, pc, dup>> /\ wpc[t] # "idle" /\ wpc'[t] # "idle"
        /\ \A u \in TaskId : u # t => st'[u] = st[u] /\ att'[u] = att[u] /\ wpc'[u] = wpc[u]
    BY <1>4 DEF Worker, Work, Begin, StartAttempt, AttemptsExhausted, ClaudeCompletes,
       ClaudeStops, Verify, ReviewPasses, CaptureFails, ReviewBlocks, ReviewRetries, SetTask,
       TypeOK
  <2>2. \A u \in TaskId : TaskRank(u)' = TaskRank(u)
    BY <1>1, <2>1 DEF TaskRank
  <2>3. CASE StartAttempt(t)
    <3>1. att'[t] = att[t] + 1
      BY <2>3 DEF StartAttempt, TypeOK
    <3>2. QED BY <1>1, <2>1, <2>2, <3>1, WorkerIsCloser
  <2>4. CASE ~StartAttempt(t)
    <3>1. att'[t] = att[t] /\ WorkerRank[wpc'[t]] < WorkerRank[wpc[t]]
      BY <1>4, <2>4 DEF Worker, Work, Begin, AttemptsExhausted, ClaudeCompletes, ClaudeStops,
         Verify, ReviewPasses, CaptureFails, ReviewBlocks, ReviewRetries, TypeOK, WorkerRank
    <3>2. QED BY <1>1, <2>1, <2>2, <3>1, WorkerIsCloser
  <2>5. QED BY <2>3, <2>4
<1>5. QED BY <1>2, <1>3, <1>4 DEF Wave

\* And whatever its outcome, it has left the schedule once the outcome is handled.
LEMMA IntegrationAdvances ==
  ASSUME TypeOK, TypeOK', DupInv, UNCHANGED <<launches, Len(revs)>>, Integration
  PROVE  Closer(RunRank', RunRank)
<1> USE DEF runVars, taskVars
<1>1. UNCHANGED <<phase, snap, owner, dup>>
  BY DEF Integration, ToIntegrating, WaveEnd, ToScheduling, IntegrateApply, IntegrateMark,
     IntegrateConflict, IntegrateBlocked, Record, Step
<1>2. pc \notin {"recover", "recovered"} /\ pc' \notin {"recover", "recovered"}
  BY DEF Integration, ToIntegrating, WaveEnd, ToScheduling, IntegrateApply, IntegrateMark,
     IntegrateConflict, IntegrateBlocked, Step
<1>3. CASE \/ ToIntegrating \/ ToScheduling \/ WaveEnd
           \/ \E t \in TaskId : IntegrateApply(t)
  <2>1. UNCHANGED <<wpc, st>> /\ status' \in {status, "INTEGRATING", "SCHEDULING"}
    BY <1>3 DEF ToIntegrating, ToScheduling, WaveEnd, IntegrateApply, Transition
  <2>2. LoopRank[pc'] < LoopRank[pc]
    BY <1>3 DEF ToIntegrating, ToScheduling, WaveEnd, IntegrateApply, Step, LoopRank
  <2>3. \A u \in TaskId : TaskRank(u)' = TaskRank(u)
    BY <1>1, <1>2, <2>1, TaskRankKept
  <2>4. PlanAhead'[1] <= PlanAhead[1]
    BY <2>1 DEF PlanAhead, Scheduled
  <2>5. QED BY <1>1, <2>2, <2>3, <2>4, LoopIsCloser
<1>4. ASSUME NEW t \in TaskId,
             IntegrateMark(t) \/ IntegrateConflict(t) \/ IntegrateBlocked(t)
      PROVE  Closer(RunRank', RunRank)
  <2>1. /\ status' = status /\ wpc[t] # "idle" /\ wpc'[t] = "idle"
        /\ \A u \in TaskId : u # t => st'[u] = st[u] /\ wpc'[u] = wpc[u]
    BY <1>4 DEF IntegrateMark, IntegrateConflict, IntegrateBlocked, IsFirst, Outcomes, Record,
       SetTask, Handled, TypeOK
  <2>2. t \notin dup
    BY <1>4, NoMoveOfDup DEF IntegrateMark, IntegrateConflict, IntegrateBlocked, SetTask,
       TaskStatus, DupInv
  <2>3. st'[t] \in {"COMPLETED", "BLOCKED", "INTEGRATION_BLOCKED"}
    BY <1>4 DEF IntegrateMark, IntegrateConflict, IntegrateBlocked, Record, SetTask, TypeOK
  <2>4. TaskRank(t) = 1 /\ TaskRank(t)' = 0
    BY <1>1, <1>2, <2>1, <2>2, <2>3 DEF TaskRank
  <2>5. \A u \in TaskId : u # t => TaskRank(u)' = TaskRank(u)
    BY <1>1, <1>2, <2>1 DEF TaskRank
  <2>6. \A u \in TaskId : TaskRank(u)' <= TaskRank(u)
    <3>1. \A u \in TaskId : TaskRank(u) \in Int
      BY DEF TaskRank
    <3>2. QED BY <2>4, <2>5, <3>1
  <2>7. PlanAhead' = PlanAhead /\ PlanAhead'[1] <= PlanAhead[1]
    BY <2>1 DEF PlanAhead
  <2>8. QED BY <1>1, <2>4, <2>6, <2>7, TaskIsCloser
<1>5. QED BY <1>3, <1>4 DEF Integration

LEMMA EndingAdvances ==
  ASSUME TypeOK, TypeOK', UNCHANGED <<launches, Len(revs)>>, Ending \/ Raise \/ Interrupt
  PROVE  Closer(RunRank', RunRank)
<1> USE DEF runVars, taskVars
<1>1. CASE FinalReviewFails
  <2>1. /\ UNCHANGED <<phase, status, wpc, st, dup, snap, owner>>
        /\ pc = "finalize" /\ pc' = "block"
    BY <1>1 DEF FinalReviewFails, Step
  <2>2. \A u \in TaskId : TaskRank(u)' = TaskRank(u)
    BY <2>1, TaskRankKept
  <2>3. PlanAhead' = PlanAhead /\ PlanAhead'[1] <= PlanAhead[1]
    BY <2>1 DEF PlanAhead
  <2>4. LoopRank[pc'] < LoopRank[pc]
    BY <2>1 DEF LoopRank
  <2>5. QED BY <2>1, <2>2, <2>3, <2>4, LoopIsCloser
<1>2. CASE Complete \/ Block \/ Raise \/ Interrupt
  <2>1. owner \in Proc /\ phase[owner] = "owner"
    BY <1>2 DEF Complete, Block, Raise, Interrupt, TypeOK
  <2>2. \E next \in {"idle", "pausing", "blocking"} : phase' = [phase EXCEPT ![owner] = next]
    BY <1>2 DEF Complete, Block, Raise, Interrupt, Leave
  <2>3. /\ PhaseRank[phase'[owner]] < PhaseRank[phase[owner]]
        /\ \A q \in Proc : q # owner => phase'[q] = phase[q]
    BY <2>1, <2>2 DEF TypeOK, PhaseRank
  <2>4. QED BY <2>1, <2>3, PhaseIsCloser
<1>3. QED BY <1>1, <1>2 DEF Ending

\* A controller that takes the lock, is refused it, ends or dies is further on.
LEMMA ProcessAdvances ==
  ASSUME TypeOK, TypeOK', UNCHANGED <<launches, Len(revs)>>, NEW p \in Proc,
         Before(p) \/ After(p) \/ Crash(p)
  PROVE  Closer(RunRank', RunRank)
<1>1. \E next \in PhaseAt : phase' = [phase EXCEPT ![p] = next]
  BY DEF Before, Acquire, Refused, After, LateWrite, Crash, Leave, PhaseAt
<1>2. PhaseRank[phase'[p]] < PhaseRank[phase[p]]
  BY DEF Before, Acquire, Refused, After, LateWrite, Crash, Leave, PhaseAt, TypeOK, PhaseRank
<1>3. \A q \in Proc : q # p => phase'[q] = phase[q]
  BY <1>1 DEF TypeOK
<1>4. QED BY <1>2, <1>3, PhaseIsCloser

LEMMA StepAdvances ==
  ASSUME TypeOK, TypeOK', WorkersInv, LoopInv, Next, ~(adder' # adder /\ revs' = revs)
  PROVE  Closer(RunRank', RunRank)
<1>1. WayInv /\ DupInv
  BY DEF WayInv, DupInv, LoopInv
<1>2. ASSUME NEW p \in Proc, Launch(p) PROVE Closer(RunRank', RunRank)
  BY <1>2, BudgetIsCloser DEF Launch, runVars
<1>3. CASE Add
  <2>1. AddAppend
    BY <1>3 DEF Add, AddCheck, AddGivesUp, runVars
  <2>2. Len(revs') = Len(revs) + 1
    BY <2>1, AppendProperties DEF AddAppend, TypeOK, RevisionStatus
  <2>3. QED BY <2>1, <2>2, BudgetIsCloser DEF AddAppend, ctlVars
<1>4. CASE ~Add /\ \A p \in Proc : ~Launch(p)
  <2>1. UNCHANGED <<launches, Len(revs)>>
    BY <1>4, BudgetKept
  <2>2. QED
    BY <1>1, <1>4, <2>1, RecoveryAdvances, LoadAdvances, PlanningAdvances, WorkAdvances,
       IntegrationAdvances, EndingAdvances, ProcessAdvances DEF Next, OwnerStep
<1>5. QED BY <1>2, <1>3, <1>4

\* An `add` that only looks changes nothing of it.
LEMMA LookingAdds ==
  ASSUME TypeOK, Next, adder' # adder, revs' = revs
  PROVE  RunRank' = RunRank
<1>1. \A p \in Proc : ~Launch(p)
  BY DEF Launch
<1>2. Add
  BY <1>1, BudgetKept
<1>3. UNCHANGED <<runVars, taskVars, ctlVars>>
  <2>1. ~AddAppend
    BY AppendProperties, LenProperties DEF AddAppend, TypeOK, RevisionStatus
  <2>2. QED BY <1>2, <2>1 DEF Add, AddCheck, AddGivesUp
<1>4. QED
  BY <1>3 DEF RunRank, BudgetAhead, PhasesAhead, PlanAhead, TasksAhead, TaskRank, LoopAhead,
     AttemptsAhead, StagesAhead, runVars, taskVars, ctlVars

\* What is ahead of a run is counted in natural numbers: neither launches nor
\* requirements nor attempts are ever overdrawn.
THEOREM RunRankIsNatural ==
  Spec => [](/\ BudgetAhead \in [1..2 -> Nat] /\ PhasesAhead \in [Proc -> Nat]
             /\ PlanAhead \in [1..1 -> Nat] /\ TasksAhead \in [TaskId -> Nat]
             /\ LoopAhead \in [1..1 -> Nat] /\ AttemptsAhead \in [TaskId -> Nat]
             /\ StagesAhead \in [TaskId -> Nat])
BY AheadIsNatural, LoopHolds, PTL

\* Every step of a run brings it closer to the end of its controllers, for any
\* number of controllers, overlapping or not, and whatever is planned,
\* replanned, retried, refused, crashed and added meanwhile (_run).
THEOREM RunsAdvance == Spec => RunAdvances
<1>1. TypeOK /\ TypeOK' /\ WorkersInv /\ LoopInv /\ [Next]_vars =>
        [IF adder' # adder /\ revs' = revs THEN RunRank' = RunRank
         ELSE Closer(RunRank', RunRank)]_vars
  BY StepAdvances, LookingAdds
<1>2. QED BY <1>1, LoopHolds, PTL DEF Spec, RunAdvances
=============================================================================
