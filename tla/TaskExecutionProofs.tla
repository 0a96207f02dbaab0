------------------------ MODULE TaskExecutionProofs ------------------------
(***************************************************************************)
(* Proofs about TaskExecution, for any number of workers and any budgets.  *)
(***************************************************************************)
EXTENDS TaskExecution, DescentProofs, TLAPS

USE ConfigAssumption, BoundAssumption, SentinelAssumption DEF TaskStatus, WorkerAt

LEMMA InitWorkers == Init => WorkersInv
<1> SUFFICES ASSUME Init PROVE WorkersInv
  OBVIOUS
<1>1. /\ verified \in [Task -> BOOLEAN] /\ left \in BOOLEAN /\ up \in BOOLEAN
      /\ wpc = [t \in Task |-> "idle"]
  BY DEF Init, NoLocals
<1>2. /\ cont \in [Task -> 0..MaxRotations + 2] /\ try \in [Task -> {1, 2}]
      /\ att \in [Task -> 0..MaxAttempts] /\ rotations \in [Task -> Nat]
      /\ launches \in 0..MaxLaunches
  BY DEF Init, NoLocals
<1>3. TypeOK
  <2>1. /\ remembered \subseteq Task /\ lock \in Task \cup {NoTask}
        /\ answer \in Task \cup {NoTask, Leftover}
    BY DEF Init
  <2>2. QED BY <1>1, <1>2, <2>1 DEF Init, TypeOK
<1>4. \A t \in Task : rotations[t] = 0 /\ att[t] = 0
  BY DEF Init
<1>5. BudgetInv
  BY <1>1, <1>4 DEF BudgetInv, RotationsBounded
<1>6. QED BY <1>1, <1>3, <1>5 DEF WorkersInv, LockInv

\* A coroutine that moves leaves the controller and the others where they are.
LEMMA GoMoves ==
  ASSUME TypeOK, NEW t \in Task, NEW from, NEW to, Go(t, from, to)
  PROVE  /\ up /\ up' = up /\ launches' = launches /\ wpc[t] = from /\ wpc'[t] = to
         /\ \A u \in Task : u # t => wpc'[u] = wpc[u]
         /\ to \in WorkerAt => wpc' \in [Task -> WorkerAt]
BY DEF TypeOK, Go

\* One that does not start, work or review leaves the invariant as it is.
LEMMA QuietStep ==
  ASSUME WorkersInv, NEW t \in Task, NEW from,
         NEW to \in {"attempt", "verify", "lock", "blocked"},
         Go(t, from, to), from # "review",
         st' \in [Task -> TaskStatus],
         remembered' \subseteq Task, cont' = cont, try' \in [Task -> {1, 2}],
         verified' \in [Task -> BOOLEAN],
         rotations' \in [Task -> Nat], att' = att, RotationsBounded',
         \A u \in Task : u # t => rotations'[u] = rotations[u],
         UNCHANGED reviewVars
  PROVE  WorkersInv'
<1>1. TypeOK'
  BY GoMoves DEF WorkersInv, TypeOK, reviewVars
<1>2. BudgetInv'
  BY GoMoves DEF WorkersInv, BudgetInv
<1>3. LockInv'
  BY GoMoves DEF WorkersInv, LockInv, reviewVars
<1>4. QED BY <1>1, <1>2, <1>3, GoMoves DEF WorkersInv

LEMMA BeginStep ==
  ASSUME WorkersInv, NEW t \in Task, Begin(t)
  PROVE  WorkersInv'
<1>1. RotationsBounded'
  BY GoMoves DEF WorkersInv, BudgetInv, RotationsBounded, Begin
<1>2. QED BY <1>1, QuietStep DEF WorkersInv, TypeOK, Begin

LEMMA StartAttemptStep ==
  ASSUME WorkersInv, NEW t \in Task, StartAttempt(t)
  PROVE  WorkersInv'
<1>1. TypeOK'
  <2>1. wpc' \in [Task -> WorkerAt] /\ up' = up /\ launches' = launches
    BY GoMoves DEF WorkersInv, StartAttempt
  <2>2. st' \in [Task -> TaskStatus] /\ att' \in [Task -> 0..MaxAttempts]
    BY DEF WorkersInv, TypeOK, StartAttempt, SetTask
  <2>3. QED BY <2>1, <2>2 DEF WorkersInv, TypeOK, StartAttempt, reviewVars
<1>2. \A u \in Task : /\ att'[u] = IF u = t THEN att[t] + 1 ELSE att[u]
                      /\ rotations'[u] = rotations[u]
  BY DEF WorkersInv, TypeOK, StartAttempt
<1>3. \A u \in Task : att[u] \in Nat /\ rotations[u] \in Nat
  BY DEF WorkersInv, TypeOK
<1>4. BudgetInv'
  BY <1>2, <1>3, GoMoves DEF WorkersInv, BudgetInv, RotationsBounded, StartAttempt
<1>5. QED BY <1>1, <1>4, GoMoves DEF WorkersInv, LockInv, StartAttempt, reviewVars

\* What is remembered of an answer.
LEMMA RememberType ==
  ASSUME TypeOK, NEW t \in Task, NEW rotated \in BOOLEAN, Remember(t, rotated)
  PROVE  /\ rotations' \in [Task -> Nat]
         /\ rotations'[t] = rotations[t] + IF rotated THEN 1 ELSE 0
         /\ \A u \in Task : u # t => rotations'[u] = rotations[u]
BY DEF TypeOK, Remember

\* An answer of a worker at work keeps to the budget of the attempt, and to that
\* of the task if the work is to be verified.
LEMMA RememberBounded ==
  ASSUME WorkersInv, NEW t \in Task, NEW rotated \in BOOLEAN, Remember(t, rotated),
         NEW to \in {"claude", "verify", "blocked"}, Go(t, "claude", to), att' = att,
         to = "verify" => rotations'[t] <= MaxRotations
  PROVE  RotationsBounded'
<1>1. \A u \in Task : att[u] \in Nat /\ rotations[u] \in Nat
  BY DEF WorkersInv, TypeOK
<1>2. \A u \in Task : rotations'[u] <= MaxRotations + att'[u]
  BY <1>1, GoMoves, RememberType DEF WorkersInv, BudgetInv, RotationsBounded
<1>3. ASSUME NEW u \in Task, wpc'[u] \in {"verify", "lock", "review", "accepted"}
      PROVE  rotations'[u] <= MaxRotations
  <2>1. CASE u = t
    BY <1>3, <2>1, GoMoves DEF WorkersInv
  <2>2. CASE u # t
    BY <1>3, <2>2, GoMoves, RememberType DEF WorkersInv, BudgetInv, RotationsBounded
  <2>3. QED BY <2>1, <2>2
<1>4. QED BY <1>2, <1>3 DEF RotationsBounded

LEMMA ClaudeStep ==
  ASSUME WorkersInv, NEW t \in Task, Claude(t)
  PROVE  WorkersInv'
<1>1. CASE ClaudeFails(t)
  <2>1. PICK to \in {"claude", "blocked"} : Go(t, "claude", to)
    BY <1>1 DEF ClaudeFails
  <2>2. TypeOK'
    <3>1. wpc' \in [Task -> WorkerAt] /\ up' = up /\ launches' = launches
      BY <2>1, GoMoves DEF WorkersInv
    <3>2. try' \in [Task -> {1, 2}]
      BY <1>1 DEF WorkersInv, TypeOK, ClaudeFails
    <3>3. QED BY <1>1, <3>1, <3>2 DEF WorkersInv, TypeOK, ClaudeFails, recordVars, reviewVars
  <2>3. BudgetInv'
    BY <1>1, <2>1, GoMoves DEF WorkersInv, BudgetInv, RotationsBounded, ClaudeFails, recordVars
  <2>4. QED BY <1>1, <2>1, <2>2, <2>3, GoMoves DEF WorkersInv, LockInv, ClaudeFails, reviewVars
<1>2. ASSUME NEW rotated \in BOOLEAN, ClaudeCompletes(t, rotated) PROVE WorkersInv'
  <2>1. /\ Go(t, "claude", "verify") /\ Remember(t, rotated) /\ att' = att
        /\ ~OverBudget(t, rotated, TRUE)
    BY <1>2 DEF ClaudeCompletes
  <2>2. wpc[t] = "claude" /\ TypeOK
    BY <2>1, GoMoves DEF WorkersInv
  <2>3. RotationsBounded'
    <3>1. rotations'[t] <= MaxRotations
      BY <2>1, <2>2, RememberType DEF OverBudget, TypeOK
    <3>2. QED BY <2>1, <3>1, RememberBounded
  <2>4. /\ st' \in [Task -> TaskStatus]
        /\ try' \in [Task -> {1, 2}] /\ verified' \in [Task -> BOOLEAN]
        /\ remembered' \subseteq Task /\ cont' = cont /\ UNCHANGED reviewVars
    BY <1>2, <2>2 DEF ClaudeCompletes, SetTask, TypeOK
  <2>5. QED BY <2>1, <2>2, <2>3, <2>4, RememberType, QuietStep
<1>3. ASSUME NEW rotated \in BOOLEAN, ClaudeContinues(t, rotated) PROVE WorkersInv'
  <2>1. /\ Go(t, "claude", "claude") /\ Remember(t, rotated) /\ att' = att
        /\ ~OverBudget(t, rotated, FALSE) /\ cont[t] < MaxRotations + 2
        /\ cont' = [cont EXCEPT ![t] = @ + 1] /\ try' = [try EXCEPT ![t] = 1]
        /\ UNCHANGED <<st, remembered, verified, reviewVars>>
    BY <1>3 DEF ClaudeContinues
  <2>2. TypeOK
    BY DEF WorkersInv
  <2>3. TypeOK'
    <3>1. wpc' \in [Task -> WorkerAt] /\ up' = up /\ launches' = launches
      BY <2>1, <2>2, GoMoves
    <3>2. rotations' \in [Task -> Nat]
      BY <2>1, <2>2, RememberType
    <3>3. cont' \in [Task -> 0..MaxRotations + 2] /\ try' \in [Task -> {1, 2}]
      BY <2>1, <2>2 DEF TypeOK
    <3>4. QED BY <2>1, <2>2, <3>1, <3>2, <3>3 DEF TypeOK, reviewVars
  <2>4. rotations'[t] <= MaxRotations
    BY <2>1, <2>2, RememberType DEF OverBudget, TypeOK
  <2>5. wpc[t] = "claude" /\ att[t] \in Nat /\ rotations'[t] \in Nat
    BY <2>1, <2>2, <2>3, GoMoves DEF TypeOK
  <2>6. att[t] > 0 /\ rotations'[t] < MaxRotations + att[t]
    BY <2>4, <2>5 DEF WorkersInv, BudgetInv
  <2>7. RotationsBounded'
    BY <2>1, RememberBounded
  <2>8. BudgetInv'
    BY <2>1, <2>2, <2>6, <2>7, RememberType, GoMoves DEF WorkersInv, BudgetInv
  <2>9. QED BY <2>1, <2>2, <2>3, <2>8, GoMoves DEF WorkersInv, LockInv, reviewVars
<1>4. ASSUME NEW rotated \in BOOLEAN, ClaudeStops(t, rotated) PROVE WorkersInv'
  <2>1. Go(t, "claude", "blocked") /\ Remember(t, rotated) /\ att' = att
    BY <1>4 DEF ClaudeStops
  <2>2. wpc[t] = "claude" /\ TypeOK
    BY <2>1, GoMoves DEF WorkersInv
  <2>3. RotationsBounded'
    BY <2>1, RememberBounded
  <2>4. /\ try' \in [Task -> {1, 2}] /\ st' = st /\ verified' = verified
        /\ remembered' = remembered /\ cont' = cont /\ UNCHANGED reviewVars
    BY <1>4, <2>2 DEF ClaudeStops, TypeOK
  <2>5. QED BY <2>1, <2>2, <2>3, <2>4, RememberType, QuietStep DEF TypeOK
<1>5. QED BY <1>1, <1>2, <1>3, <1>4
  DEF Claude, ClaudeOverspends, ClaudeNeedsScope, ClaudeGivesUp

LEMMA VerifyStep ==
  ASSUME WorkersInv, NEW t \in Task, NEW passed \in BOOLEAN, Verify(t, passed)
  PROVE  WorkersInv'
<1>1. RotationsBounded'
  BY GoMoves DEF WorkersInv, BudgetInv, RotationsBounded, Verify
<1>2. verified' \in [Task -> BOOLEAN]
  BY DEF WorkersInv, TypeOK, Verify
<1>3. /\ Go(t, "verify", "lock") /\ cont' = cont /\ try' = try /\ rotations' = rotations
      /\ att' = att /\ remembered' = remembered /\ UNCHANGED reviewVars
      /\ st' \in [Task -> TaskStatus]
  BY DEF WorkersInv, TypeOK, Verify, SetTask
<1>4. QED BY <1>1, <1>2, <1>3, QuietStep DEF WorkersInv, TypeOK

LEMMA JudgeStep ==
  ASSUME WorkersInv, NEW t \in Task, NEW to \in {"attempt", "accepted", "blocked"}, Judge(t, to),
         st' \in [Task -> TaskStatus]
  PROVE  WorkersInv'
<1>1. /\ Go(t, "review", to) /\ lock' = NoTask /\ try' = [try EXCEPT ![t] = 1]
      /\ UNCHANGED <<att, remembered, rotations, cont, answer, left>>
  BY DEF Judge
<1>2. verified' \in [Task -> BOOLEAN]
  BY DEF Judge, WorkersInv, TypeOK
<1>3. TypeOK'
  BY <1>1, <1>2, GoMoves DEF WorkersInv, TypeOK
<1>4. BudgetInv'
  BY <1>1, GoMoves DEF WorkersInv, BudgetInv, RotationsBounded
<1>5. \A u \in Task : u # t => wpc[u] # "review"
  BY <1>1, GoMoves DEF WorkersInv, LockInv
<1>6. QED BY <1>1, <1>3, <1>4, <1>5, GoMoves DEF WorkersInv, LockInv

LEMMA ReviewStep ==
  ASSUME WorkersInv, NEW t \in Task, Review(t)
  PROVE  WorkersInv'
<1>1. CASE Acquire(t)
  <2>1. TypeOK'
    <3>1. wpc' \in [Task -> WorkerAt] /\ up' = up /\ launches' = launches
      BY <1>1, GoMoves DEF WorkersInv, Acquire
    <3>2. QED BY <1>1, <3>1 DEF WorkersInv, TypeOK, Acquire, recordVars
  <2>2. BudgetInv'
    BY <1>1, GoMoves DEF WorkersInv, BudgetInv, RotationsBounded, Acquire, recordVars
  <2>3. \A u \in Task : wpc[u] # "review"
    BY <1>1 DEF WorkersInv, LockInv, Acquire
  <2>4. QED BY <1>1, <2>1, <2>2, <2>3, GoMoves DEF WorkersInv, LockInv, Acquire
<1>2. CASE CodexWrites(t) \/ CodexRetries(t)
  <2>1. /\ Go(t, "review", "review") /\ answer' \in {t, NoTask} /\ try' \in [Task -> {1, 2}]
        /\ UNCHANGED <<recordVars, cont, verified, lock, left>>
    BY <1>2 DEF CodexWrites, CodexRetries, WorkersInv, TypeOK
  <2>2. TypeOK'
    <3>1. wpc' \in [Task -> WorkerAt] /\ up' = up /\ launches' = launches
      BY <2>1, GoMoves DEF WorkersInv
    <3>2. QED BY <2>1, <3>1 DEF WorkersInv, TypeOK, recordVars
  <2>3. BudgetInv'
    BY <2>1, GoMoves DEF WorkersInv, BudgetInv, RotationsBounded, recordVars
  <2>4. \A u \in Task : u # t => wpc[u] # "review"
    BY <2>1, GoMoves DEF WorkersInv, LockInv
  <2>5. QED BY <2>1, <2>2, <2>3, <2>4, GoMoves DEF WorkersInv, LockInv
<1>3. CASE ReviewPasses(t)
  BY <1>3, JudgeStep DEF ReviewPasses, SetTask, WorkersInv, TypeOK
<1>4. CASE CaptureFails(t)
  BY <1>4, JudgeStep DEF CaptureFails, SetTask, WorkersInv, TypeOK
<1>5. CASE ReviewBlocks(t)
  BY <1>5, JudgeStep DEF ReviewBlocks, WorkersInv, TypeOK
<1>6. CASE ReviewRetries(t)
  BY <1>6, JudgeStep DEF ReviewRetries, SetTask, WorkersInv, TypeOK
<1>7. QED BY <1>1, <1>2, <1>3, <1>4, <1>5, <1>6 DEF Review

\* The controller goes down, whatever becomes of the records and of a Codex.
LEMMA DownStep ==
  ASSUME WorkersInv, Down, left' \in BOOLEAN,
         st' \in [Task -> TaskStatus]
  PROVE  WorkersInv'
<1>1. /\ up' = FALSE /\ verified' \in [Task -> BOOLEAN]
      /\ wpc' = [t \in Task |-> "idle"]
  BY DEF Down, NoLocals
<1>2. cont' \in [Task -> 0..MaxRotations + 2] /\ try' \in [Task -> {1, 2}]
  BY DEF Down, NoLocals
<1>3. /\ lock' = NoTask /\ UNCHANGED <<remembered, att, rotations, answer, launches>>
  BY DEF Down
<1>4. TypeOK'
  BY <1>1, <1>2, <1>3 DEF WorkersInv, TypeOK
<1>5. BudgetInv'
  BY <1>1, <1>3 DEF WorkersInv, BudgetInv, RotationsBounded
<1>6. QED BY <1>1, <1>4, <1>5 DEF WorkersInv, LockInv

LEMMA NextWaveStep ==
  ASSUME WorkersInv, NEW W \in SUBSET Task, NextWave(W)
  PROVE  WorkersInv'
<1>1. st' \in [Task -> TaskStatus]
  BY DEF WorkersInv, TypeOK, NextWave
<1>2. /\ up' = TRUE /\ launches' = launches + 1 /\ launches < MaxLaunches
      /\ wpc' = [t \in Task |-> IF t \in W THEN "begin" ELSE "idle"]
      /\ UNCHANGED <<att, remembered, rotations, cont, try, verified, reviewVars>>
  BY DEF NextWave
<1>3. TypeOK'
  BY <1>1, <1>2 DEF WorkersInv, TypeOK, reviewVars
<1>4. BudgetInv'
  BY <1>2 DEF WorkersInv, BudgetInv, RotationsBounded
<1>5. QED BY <1>2, <1>3, <1>4 DEF WorkersInv, LockInv

LEMMA WorkersStep == WorkersInv /\ [Next]_vars => WorkersInv'
<1> SUFFICES ASSUME WorkersInv, [Next]_vars PROVE WorkersInv'
  OBVIOUS
<1>1. ASSUME NEW t \in Task, Worker(t) PROVE WorkersInv'
  <2>1. CASE Raise(t)
    BY <2>1, DownStep DEF Raise, WorkersInv, TypeOK
  <2>2. QED BY <1>1, <2>1, BeginStep, StartAttemptStep, ClaudeStep, ReviewStep, VerifyStep
    DEF Worker
<1>2. CASE WaveEnds
  <2>1. st' \in [Task -> TaskStatus]
    BY <1>2 DEF WaveEnds, WorkersInv, TypeOK
  <2>2. QED BY <1>2, <2>1, DownStep DEF WaveEnds, WorkersInv, TypeOK
<1>3. CASE Ends
  BY <1>3, DownStep DEF Ends, WorkersInv, TypeOK
<1>4. CASE LeftoverWrites
  <2>1. /\ left' = FALSE /\ answer' = Leftover
        /\ UNCHANGED <<recordVars, localVars, lock, up, launches>>
    BY <1>4 DEF LeftoverWrites
  <2>2. TypeOK'
    BY <2>1 DEF WorkersInv, TypeOK, recordVars, localVars
  <2>3. BudgetInv'
    BY <2>1 DEF WorkersInv, BudgetInv, RotationsBounded, recordVars, localVars
  <2>4. QED BY <2>1, <2>2, <2>3 DEF WorkersInv, LockInv, localVars
<1>5. CASE UNCHANGED vars
  <2>1. TypeOK'
    BY <1>5 DEF WorkersInv, TypeOK, vars, recordVars, localVars, reviewVars
  <2>2. BudgetInv'
    BY <1>5 DEF WorkersInv, BudgetInv, RotationsBounded, vars, recordVars, localVars
  <2>3. QED BY <1>5, <2>1, <2>2 DEF WorkersInv, LockInv, vars, localVars, reviewVars
<1>6. QED BY <1>1, <1>2, <1>3, <1>4, <1>5, NextWaveStep DEF Next

LEMMA WorkersAlways == Spec => []WorkersInv
<1>1. QED BY InitWorkers, WorkersStep, PTL DEF Spec

\* The type invariant: the continuations of a worker stay within their bound
\* (_execute_task).
THEOREM WorkersTypeCorrect == Spec => []TypeOK
<1>1. WorkersInv => TypeOK
  BY DEF WorkersInv
<1>2. QED BY <1>1, WorkersAlways, PTL

\* A task that has rotated too often is not verified or accepted any more, and
\* gets one fresh session per attempt that is left, however often its controller
\* is stopped and resumed (_run_claude_until_boundary).
THEOREM RotationsAreBounded == Spec => []RotationsBounded
<1>1. WorkersInv => RotationsBounded
  BY DEF WorkersInv, BudgetInv
<1>2. QED BY <1>1, WorkersAlways, PTL

\* No worker acts on the review of another worker (_codex_lock).
THEOREM ReviewsAreOwn == Spec => ReviewIsOwn
<1>1. WorkersInv /\ [Next]_vars =>
        [\A t \in Task : up' /\ wpc[t] = "review" /\ wpc'[t] # "review" =>
                           answer \in {t, Leftover}]_vars
  <2> SUFFICES ASSUME WorkersInv, Next, NEW t \in Task,
                      up', wpc[t] = "review", wpc'[t] # "review"
               PROVE  answer \in {t, Leftover}
    OBVIOUS
  <2>1. up /\ TypeOK
    BY DEF WorkersInv
  <2>2. ASSUME NEW u \in Task, Worker(u) PROVE answer # NoTask
    <3>1. ~Raise(u)
      BY DEF Raise, Down
    <3>2. ASSUME NEW from, NEW to, Go(u, from, to) PROVE u = t /\ from = "review" /\ to # "review"
      BY <2>1, <3>2, GoMoves
    <3>3. ~Begin(u) /\ ~StartAttempt(u) /\ \A passed \in BOOLEAN : ~Verify(u, passed)
      BY <3>2 DEF Begin, StartAttempt, Verify
    <3>4. ~Claude(u)
      <4>1. \A to : ~Go(u, "claude", to)
        BY <3>2
      <4>2. ~ClaudeFails(u)
        BY <4>1 DEF ClaudeFails
      <4>3. \A rotated : ~ClaudeCompletes(u, rotated) /\ ~ClaudeContinues(u, rotated)
        BY <4>1 DEF ClaudeCompletes, ClaudeContinues
      <4>4. \A rotated : ~ClaudeStops(u, rotated)
        BY <4>1 DEF ClaudeStops
      <4>5. QED BY <4>2, <4>3, <4>4
        DEF Claude, ClaudeOverspends, ClaudeNeedsScope, ClaudeGivesUp
    <3>5. ~Acquire(u) /\ ~CodexWrites(u) /\ ~CodexRetries(u)
      BY <3>2 DEF Acquire, CodexWrites, CodexRetries
    <3>6. \A to : Judge(u, to) => answer # NoTask
      BY DEF Judge
    <3>7. QED BY <2>2, <3>1, <3>3, <3>4, <3>5, <3>6
      DEF Worker, Review, ReviewPasses, CaptureFails, ReviewBlocks, ReviewRetries
  <2>3. ~WaveEnds /\ ~Ends
    BY DEF WaveEnds, Ends, Down
  <2>4. ~LeftoverWrites /\ \A W \in SUBSET Task : ~NextWave(W)
    BY <2>1 DEF LeftoverWrites, localVars, NextWave
  <2>5. answer # NoTask
    BY <2>2, <2>3, <2>4 DEF Next
  <2>6. QED BY <2>5 DEF WorkersInv, LockInv
<1>2. QED BY <1>1, WorkersAlways, PTL DEF Spec, ReviewIsOwn

-----------------------------------------------------------------------------
(* The workers implement those of Controller.                              *)

LEMMA StageNext == TypeOK /\ StageInv /\ [Next]_vars => StageInv'
<1> SUFFICES ASSUME TypeOK, StageInv, [Next]_vars PROVE StageInv'
  OBVIOUS
<1> USE DEF recordVars, localVars, reviewVars
<1>1. ASSUME \A t \in Task : wpc'[t] = "idle" PROVE StageInv'
  BY <1>1 DEF StageInv
<1>2. CASE WaveEnds \/ Ends \/ \E t \in Task : Raise(t)
  BY <1>1, <1>2 DEF WaveEnds, Ends, Raise, Down, NoLocals
<1>3. CASE LeftoverWrites \/ UNCHANGED vars
  BY <1>3 DEF LeftoverWrites, vars, StageInv
<1>4. ASSUME NEW W \in SUBSET Task, NextWave(W) PROVE StageInv'
  BY <1>4 DEF NextWave, StageInv
<1>5. ASSUME NEW t \in Task, Worker(t), ~Raise(t) PROVE StageInv'
  <2>1. \A u \in Task : u # t => st'[u] = st[u] /\ wpc'[u] = wpc[u]
    <3>1. \E from, to \in WorkerAt : Go(t, from, to)
      BY <1>5 DEF Worker, Claude, Review, Judge, Begin, StartAttempt, ClaudeFails,
         ClaudeCompletes, ClaudeContinues, ClaudeOverspends, ClaudeNeedsScope, ClaudeGivesUp,
         ClaudeStops, Verify, Acquire, CodexWrites, CodexRetries, ReviewPasses, CaptureFails,
         ReviewBlocks, ReviewRetries
    <3>2. st' = st \/ \E s \in TaskStatus : SetTask(t, s)
      BY <1>5 DEF Worker, Claude, Review, Begin, StartAttempt, ClaudeFails, ClaudeCompletes,
         ClaudeContinues, ClaudeOverspends, ClaudeNeedsScope, ClaudeGivesUp, ClaudeStops,
         Verify, Acquire, CodexWrites, CodexRetries, ReviewPasses, CaptureFails,
         ReviewBlocks, ReviewRetries
    <3>3. QED BY <3>1, <3>2, GoMoves DEF SetTask, TypeOK
  <2>2. CASE Begin(t) \/ Review(t)
    BY <2>1, <2>2 DEF Review, Go, SetTask, Judge, Begin, Acquire, CodexWrites, CodexRetries,
       ReviewPasses, CaptureFails, ReviewBlocks, ReviewRetries, StageInv, TypeOK
  <2>3. CASE StartAttempt(t) \/ \E passed \in BOOLEAN : Verify(t, passed)
    BY <2>1, <2>3 DEF Go, SetTask, StartAttempt, Verify, StageInv, TypeOK
  <2>4. CASE Claude(t)
    BY <2>1, <2>4 DEF Claude, Go, SetTask, ClaudeFails, ClaudeCompletes, ClaudeContinues,
       ClaudeOverspends, ClaudeNeedsScope, ClaudeGivesUp, ClaudeStops, StageInv, TypeOK
  <2>5. QED BY <1>5, <2>2, <2>3, <2>4 DEF Worker
<1>6. QED BY <1>2, <1>3, <1>4, <1>5 DEF Next

\* A coroutine that moves does so for Controller, too, if it is not to wait for
\* the lock or from waiting to reviewing.
LEMMA GoIsWork ==
  ASSUME TypeOK, NEW t \in Task, NEW from, NEW to, Go(t, from, to),
         NEW seen, NEW seenTo,
         seen = IF from = "lock" THEN "review" ELSE from,
         seenTo = IF to = "lock" THEN "review" ELSE to
  PROVE  /\ up /\ up'
         /\ CoarseWpc[t] = seen
         /\ CoarseWpc' = [CoarseWpc EXCEPT ![t] = seenTo]
         /\ CoarseWpc \in [Task -> {IF w = "lock" THEN "review" ELSE w : w \in WorkerAt}]
BY DEF Go, CoarseWpc, TypeOK

\* Such a move is one of Controller's Work.
LEMMA WorkSeen ==
  ASSUME TypeOK, NEW t \in Task, NEW from, NEW to, Go(t, from, to),
         NEW seen, NEW seenTo,
         seen = IF from = "lock" THEN "review" ELSE from,
         seenTo = IF to = "lock" THEN "review" ELSE to
  PROVE  C!Work(t, seen, seenTo)
<1>1. UNCHANGED <<up, launches>> /\ up
  BY DEF Go
<1>2. QED BY <1>1, GoIsWork DEF C!Work, C!runVars

LEMMA WorkerStep ==
  ASSUME TypeOK, StageInv, NEW t \in Task, Worker(t), up'
  PROVE  C!Worker(t) \/ UNCHANGED C!vars
<1> USE DEF recordVars, localVars, reviewVars
<1>1. CASE Begin(t)
  <2>1. C!Work(t, "begin", "attempt")
    BY <1>1, WorkSeen DEF Begin
  <2>2. C!Begin(t)
    BY <1>1, <2>1 DEF Begin, C!Begin
  <2>3. QED BY <2>2 DEF C!Worker
<1>2. CASE StartAttempt(t)
  <2>1. C!Work(t, "attempt", "claude") /\ st[t] \in {"READY", "RETRYING"}
    BY <1>2, WorkSeen DEF StartAttempt, Go, StageInv
  <2>2. C!StartAttempt(t)
    BY <1>2, <2>1 DEF StartAttempt, SetTask, C!StartAttempt
  <2>3. QED BY <2>2 DEF C!Worker
<1>3. ASSUME NEW rotated \in BOOLEAN, ClaudeCompletes(t, rotated) PROVE C!Worker(t)
  <2>1. C!Work(t, "claude", "verify") /\ st[t] = "RUNNING"
    BY <1>3, WorkSeen DEF ClaudeCompletes, Go, StageInv
  <2>2. C!ClaudeCompletes(t)
    BY <1>3, <2>1
       DEF ClaudeCompletes, SetTask, C!ClaudeCompletes, C!SetTask, C!CanTask, C!TaskEdges
  <2>3. QED BY <2>2 DEF C!Worker
<1>4. ASSUME NEW rotated \in BOOLEAN,
             ClaudeOverspends(t, rotated) \/ ClaudeNeedsScope(t, rotated)
               \/ ClaudeGivesUp(t, rotated)
      PROVE  C!Worker(t)
  <2>1. ClaudeStops(t, rotated)
    BY <1>4 DEF ClaudeOverspends, ClaudeNeedsScope, ClaudeGivesUp
  <2>2. C!Work(t, "claude", "blocked")
    BY <2>1, WorkSeen DEF ClaudeStops
  <2>3. C!ClaudeStops(t)
    BY <2>1, <2>2 DEF ClaudeStops, C!ClaudeStops
  <2>4. QED BY <2>3 DEF C!Worker
<1>5. CASE ClaudeFails(t) /\ try[t] # 1
  <2>1. C!Work(t, "claude", "blocked")
    BY <1>5, WorkSeen DEF ClaudeFails
  <2>2. C!ClaudeStops(t)
    BY <1>5, <2>1 DEF ClaudeFails, C!ClaudeStops
  <2>3. QED BY <2>2 DEF C!Worker
<1>6. ASSUME NEW passed \in BOOLEAN, Verify(t, passed) PROVE C!Worker(t)
  <2>1. C!Work(t, "verify", "review") /\ st[t] = "VERIFYING"
    BY <1>6, WorkSeen DEF Verify, Go, StageInv
  <2>2. C!Verify(t)
    BY <1>6, <2>1 DEF Verify, SetTask, C!Verify, C!SetTask, C!CanTask, C!TaskEdges
  <2>3. QED BY <2>2 DEF C!Worker
<1>7. ASSUME NEW to \in {"accepted", "blocked", "attempt"}, Judge(t, to)
      PROVE  C!Work(t, "review", to) /\ st[t] = "REVIEWING" /\ UNCHANGED <<att, remembered>>
  BY <1>7, WorkSeen DEF Judge, Go, StageInv
<1>8. CASE ReviewPasses(t)
  BY <1>7, <1>8 DEF ReviewPasses, SetTask, C!Worker, C!ReviewPasses, C!SetTask, C!CanTask,
     C!TaskEdges
<1>9. CASE CaptureFails(t)
  BY <1>7, <1>9 DEF CaptureFails, SetTask, C!Worker, C!CaptureFails, C!SetTask, C!CanTask,
     C!TaskEdges
<1>10. CASE ReviewBlocks(t)
  BY <1>7, <1>10 DEF ReviewBlocks, C!Worker, C!ReviewBlocks
<1>11. CASE ReviewRetries(t)
  BY <1>7, <1>11 DEF ReviewRetries, SetTask, C!Worker, C!ReviewRetries, C!SetTask, C!CanTask,
     C!TaskEdges
<1>12. CASE \/ ClaudeFails(t) /\ try[t] = 1
            \/ \E rotated \in BOOLEAN : ClaudeContinues(t, rotated)
            \/ Acquire(t) \/ CodexWrites(t) \/ CodexRetries(t)
  <2>1. PICK from, to \in WorkerAt :
          /\ Go(t, from, to)
          /\ from = to \/ (from = "lock" /\ to = "review")
          /\ UNCHANGED <<st, att, remembered>>
    BY <1>12 DEF ClaudeFails, ClaudeContinues, Acquire, CodexWrites, CodexRetries
  <2>2. CoarseWpc' = CoarseWpc /\ UNCHANGED <<up, launches>>
    BY <2>1, GoIsWork DEF Go, CoarseWpc, TypeOK
  <2>3. QED
    BY <2>1, <2>2 DEF C!vars, C!runVars, C!taskVars, C!patchVars, C!ctlVars
<1>13. CASE Raise(t)
  BY <1>13 DEF Raise, Down
<1>14. QED
  BY <1>1, <1>2, <1>3, <1>4, <1>5, <1>6, <1>8, <1>9, <1>10, <1>11, <1>12, <1>13
     DEF Worker, Claude, Review

\* What Controller takes a worker to do in one step is what the sessions, the
\* continuations, the retries and the serialised reviews do in many.
THEOREM WorkersImplementController == Spec => ImplementsWorker
<1>1. Init => WorkersInv /\ StageInv
  BY InitWorkers DEF Init, NoLocals, StageInv
<1>2. (WorkersInv /\ StageInv) /\ [Next]_vars => (WorkersInv /\ StageInv)'
  BY WorkersStep, StageNext DEF WorkersInv
<1>3. ASSUME WorkersInv, StageInv, [Next]_vars
      PROVE  [up /\ up' => \E t \in Task : C!Worker(t)]_(C!vars)
  <2>1. TypeOK
    BY <1>3 DEF WorkersInv
  <2>2. CASE up /\ up'
    <3>1. ASSUME NEW t \in Task, Worker(t)
          PROVE  [\E u \in Task : C!Worker(u)]_(C!vars)
      BY <1>3, <2>1, <2>2, <3>1, WorkerStep
    <3>2. CASE LeftoverWrites \/ UNCHANGED vars
      <4>1. UNCHANGED <<st, att, remembered, wpc, up, launches>>
        BY <3>2 DEF LeftoverWrites, vars, recordVars, localVars
      <4>2. CoarseWpc' = CoarseWpc
        BY <4>1 DEF CoarseWpc
      <4>3. QED
        BY <4>1, <4>2 DEF C!vars, C!runVars, C!taskVars, C!patchVars, C!ctlVars
    <3>3. CASE WaveEnds \/ Ends \/ \E W \in SUBSET Task : NextWave(W)
      BY <2>2, <3>3 DEF WaveEnds, Ends, Down, NextWave
    <3>4. QED BY <1>3, <2>2, <3>1, <3>2, <3>3 DEF Next
  <2>3. QED BY <2>2
<1>4. QED BY <1>1, <1>2, <1>3, PTL DEF Spec, ImplementsWorker

-----------------------------------------------------------------------------
(* A wave does not go on for ever.                                         *)

LEMMA Stages ==
  /\ Stage["idle"] = 0 /\ Stage["accepted"] = 0 /\ Stage["blocked"] = 0
  /\ Stage["attempt"] = 1 /\ Stage["review"] = 2 /\ Stage["lock"] = 3
  /\ Stage["verify"] = 4 /\ Stage["claude"] = 5 /\ Stage["begin"] = 6
BY DEF Stage

\* What is ahead is counted in natural numbers.
LEMMA AheadIsNatural ==
  TypeOK => /\ AttemptsAhead \in [Task -> Nat] /\ StagesAhead \in [Task -> Nat]
            /\ AnswersAhead \in [Task -> Nat] /\ TriesAhead \in [Task -> Nat]
            /\ LeftAhead \in [{1} -> Nat] /\ ReviewsAhead \in [Task -> Nat]
<1> SUFFICES ASSUME TypeOK
             PROVE  /\ AttemptsAhead \in [Task -> Nat] /\ StagesAhead \in [Task -> Nat]
                    /\ AnswersAhead \in [Task -> Nat] /\ TriesAhead \in [Task -> Nat]
                    /\ LeftAhead \in [{1} -> Nat] /\ ReviewsAhead \in [Task -> Nat]
  OBVIOUS
<1>1. AttemptsAhead \in [Task -> Nat]
  BY DEF TypeOK, AttemptsAhead
<1>2. StagesAhead \in [Task -> Nat]
  BY Stages DEF TypeOK, StagesAhead
<1>3. AnswersAhead \in [Task -> Nat]
  BY DEF TypeOK, AnswersAhead
<1>4. TriesAhead \in [Task -> Nat]
  BY DEF TypeOK, TriesAhead
<1>5. LeftAhead \in [{1} -> Nat]
  BY DEF LeftAhead
<1>6. ReviewsAhead \in [Task -> Nat]
  BY DEF ReviewsAhead
<1>7. QED BY <1>1, <1>2, <1>3, <1>4, <1>5, <1>6

\* A worker that gets to an earlier stage, at no cost of attempts, is closer.
LEMMA StageIsCloser ==
  ASSUME TypeOK, TypeOK', NEW t \in Task, NEW from \in WorkerAt, NEW to \in WorkerAt,
         Go(t, from, to), att' = att, Stage[to] < Stage[from]
  PROVE  Closer(WaveRank', WaveRank)
<1>1. AttemptsAhead' = AttemptsAhead
  BY DEF AttemptsAhead
<1>2. StagesAhead \in [Task -> Int] /\ StagesAhead' \in [Task -> Int]
  BY Stages DEF TypeOK, StagesAhead
<1>3. /\ wpc[t] = from /\ wpc'[t] = to /\ \A u \in Task : u # t => wpc'[u] = wpc[u]
  BY GoMoves
<1>4. StagesAhead'[t] < StagesAhead[t] /\ \A u \in Task : u # t => StagesAhead'[u] = StagesAhead[u]
  BY <1>3 DEF StagesAhead
<1>5. Lower(StagesAhead', StagesAhead)
  BY <1>2, <1>4, LowerAt
<1>6. QED BY <1>1, <1>5, CloserOfSix DEF WaveRank

\* Every move of a worker brings the wave closer, or writes the same review again.
LEMMA WorkerAdvances ==
  ASSUME WorkersInv, WorkersInv', NEW t \in Task, Worker(t), up'
  PROVE  Closer(WaveRank', WaveRank) \/ UNCHANGED vars
<1> USE DEF recordVars, localVars, reviewVars
<1>1. TypeOK /\ TypeOK' /\ LockInv
  BY DEF WorkersInv
<1>2. CASE Begin(t)
  BY <1>1, <1>2, StageIsCloser, Stages DEF Begin
<1>3. CASE StartAttempt(t)
  <2>1. att'[t] = att[t] + 1 /\ \A u \in Task : u # t => att'[u] = att[u]
    BY <1>1, <1>3 DEF StartAttempt, TypeOK
  <2>2. AttemptsAhead \in [Task -> Int] /\ AttemptsAhead' \in [Task -> Int]
    BY <1>1 DEF TypeOK, AttemptsAhead
  <2>3. /\ AttemptsAhead'[t] < AttemptsAhead[t]
        /\ \A u \in Task : u # t => AttemptsAhead'[u] = AttemptsAhead[u]
    BY <1>1, <2>1 DEF TypeOK, AttemptsAhead
  <2>4. Lower(AttemptsAhead', AttemptsAhead)
    BY <2>2, <2>3, LowerAt
  <2>5. QED BY <2>4, CloserOfSix DEF WaveRank
\* The second try of an adapter.
<1>4. ASSUME NEW at \in WorkerAt, Go(t, at, at), try[t] = 1, try' = [try EXCEPT ![t] = 2],
             UNCHANGED <<att, cont>>
      PROVE  Closer(WaveRank', WaveRank)
  <2>1. /\ AttemptsAhead' = AttemptsAhead /\ AnswersAhead' = AnswersAhead
        /\ StagesAhead' = StagesAhead
    BY <1>1, <1>4 DEF AttemptsAhead, AnswersAhead, StagesAhead, Go, TypeOK
  <2>2. TriesAhead \in [Task -> Int] /\ TriesAhead' \in [Task -> Int]
    BY <1>1 DEF TypeOK, TriesAhead
  <2>3. /\ TriesAhead'[t] < TriesAhead[t]
        /\ \A u \in Task : u # t => TriesAhead'[u] = TriesAhead[u]
    BY <1>1, <1>4 DEF TypeOK, TriesAhead
  <2>4. Lower(TriesAhead', TriesAhead)
    BY <2>2, <2>3, LowerAt
  <2>5. QED BY <2>1, <2>4, CloserOfSix DEF WaveRank
<1>5. CASE Claude(t)
  <2>1. CASE ClaudeFails(t) /\ try[t] = 1
    BY <1>4, <2>1 DEF ClaudeFails
  <2>2. CASE ClaudeFails(t) /\ try[t] # 1
    BY <1>1, <2>2, StageIsCloser, Stages DEF ClaudeFails
  <2>3. ASSUME NEW rotated \in BOOLEAN, ClaudeContinues(t, rotated)
        PROVE  Closer(WaveRank', WaveRank)
    <3>1. /\ Go(t, "claude", "claude") /\ cont' = [cont EXCEPT ![t] = @ + 1] /\ att' = att
      BY <2>3 DEF ClaudeContinues
    <3>2. AttemptsAhead' = AttemptsAhead /\ StagesAhead' = StagesAhead
      BY <1>1, <3>1 DEF AttemptsAhead, StagesAhead, Go, TypeOK
    <3>3. AnswersAhead \in [Task -> Int] /\ AnswersAhead' \in [Task -> Int]
      BY <1>1 DEF TypeOK, AnswersAhead
    <3>4. /\ AnswersAhead'[t] < AnswersAhead[t]
          /\ \A u \in Task : u # t => AnswersAhead'[u] = AnswersAhead[u]
      BY <1>1, <3>1 DEF TypeOK, AnswersAhead
    <3>5. Lower(AnswersAhead', AnswersAhead)
      BY <3>3, <3>4, LowerAt
    <3>6. QED BY <3>2, <3>5, CloserOfSix DEF WaveRank
  <2>4. ASSUME NEW rotated \in BOOLEAN, ClaudeCompletes(t, rotated)
        PROVE  Closer(WaveRank', WaveRank)
    BY <1>1, <2>4, StageIsCloser, Stages DEF ClaudeCompletes
  <2>5. ASSUME NEW rotated \in BOOLEAN, ClaudeStops(t, rotated)
        PROVE  Closer(WaveRank', WaveRank)
    BY <1>1, <2>5, StageIsCloser, Stages DEF ClaudeStops
  <2>6. QED BY <1>5, <2>1, <2>2, <2>3, <2>4, <2>5
    DEF Claude, ClaudeOverspends, ClaudeNeedsScope, ClaudeGivesUp
<1>6. ASSUME NEW passed \in BOOLEAN, Verify(t, passed) PROVE Closer(WaveRank', WaveRank)
  BY <1>1, <1>6, StageIsCloser, Stages DEF Verify
<1>7. CASE Acquire(t)
  BY <1>1, <1>7, StageIsCloser, Stages DEF Acquire
<1>8. CASE CodexWrites(t)
  <2>1. /\ Go(t, "review", "review") /\ answer' = t
        /\ UNCHANGED <<recordVars, cont, try, verified, lock, left>>
    BY <1>8 DEF CodexWrites
  <2>2. wpc' = wpc /\ wpc[t] = "review" /\ UNCHANGED <<up, launches>>
    BY <1>1, <2>1 DEF Go, TypeOK
  <2>3. CASE answer = t
    BY <2>1, <2>2, <2>3 DEF vars
  <2>4. CASE answer # t
    <3>1. /\ AttemptsAhead' = AttemptsAhead /\ StagesAhead' = StagesAhead
          /\ AnswersAhead' = AnswersAhead /\ TriesAhead' = TriesAhead /\ LeftAhead' = LeftAhead
      BY <2>1, <2>2 DEF AttemptsAhead, StagesAhead, AnswersAhead, TriesAhead, LeftAhead
    <3>2. ReviewsAhead \in [Task -> Int] /\ ReviewsAhead' \in [Task -> Int]
      BY DEF ReviewsAhead
    \* The others are not reviewing: the lock is held.
    <3>3. \A u \in Task : u # t => wpc[u] # "review"
      BY <1>1, <2>2 DEF LockInv
    <3>4. /\ ReviewsAhead'[t] < ReviewsAhead[t]
          /\ \A u \in Task : u # t => ReviewsAhead'[u] = ReviewsAhead[u]
      BY <2>1, <2>2, <2>4, <3>3 DEF ReviewsAhead
    <3>5. Lower(ReviewsAhead', ReviewsAhead)
      BY <3>2, <3>4, LowerAt
    <3>6. QED BY <3>1, <3>5, CloserOfSix DEF WaveRank
  <2>5. QED BY <2>3, <2>4
<1>9. CASE CodexRetries(t)
  BY <1>4, <1>9 DEF CodexRetries
<1>10. ASSUME NEW to \in {"accepted", "blocked", "attempt"}, Judge(t, to)
       PROVE  Closer(WaveRank', WaveRank)
  BY <1>1, <1>10, StageIsCloser, Stages DEF Judge
<1>11. CASE Raise(t)
  BY <1>11 DEF Raise, Down
<1>12. QED
  BY <1>2, <1>3, <1>5, <1>6, <1>7, <1>8, <1>9, <1>10, <1>11
     DEF Worker, Review, ReviewPasses, CaptureFails, ReviewBlocks, ReviewRetries

\* So does a Codex nobody waits for, as there is none after it.
LEMMA LeftoverAdvances ==
  ASSUME LeftoverWrites
  PROVE  Closer(WaveRank', WaveRank)
<1>1. left /\ ~left' /\ UNCHANGED <<att, wpc, cont, try>>
  BY DEF LeftoverWrites, recordVars, localVars
<1>2. /\ AttemptsAhead' = AttemptsAhead /\ StagesAhead' = StagesAhead
      /\ AnswersAhead' = AnswersAhead /\ TriesAhead' = TriesAhead
  BY <1>1 DEF AttemptsAhead, StagesAhead, AnswersAhead, TriesAhead
<1>3. LeftAhead = <<1>> /\ LeftAhead' = <<0>>
  BY <1>1 DEF LeftAhead
<1>4. Lower(<<0>>, <<1>>)
  BY DEF Lower
<1>5. QED BY <1>2, <1>3, <1>4, CloserOfSix DEF WaveRank

\* What is ahead of a wave is counted in natural numbers: the budgets of its
\* attempts, continuations and tries are never overdrawn.
THEOREM WaveRankIsNatural ==
  Spec => [](/\ AttemptsAhead \in [Task -> Nat] /\ StagesAhead \in [Task -> Nat]
             /\ AnswersAhead \in [Task -> Nat] /\ TriesAhead \in [Task -> Nat]
             /\ LeftAhead \in [{1} -> Nat] /\ ReviewsAhead \in [Task -> Nat])
<1>1. WorkersInv => TypeOK
  BY DEF WorkersInv
<1>2. QED BY <1>1, AheadIsNatural, WorkersAlways, PTL

\* Every step of a wave brings it closer to its end, by WaveRankIsNatural after
\* finitely many, for any number of workers, any budgets and any interleaving
\* (_execute_task and what it awaits).
THEOREM WavesAdvance == Spec => WaveAdvances
<1>1. WorkersInv /\ WorkersInv' /\ [Next]_vars =>
        [up /\ up' => Closer(WaveRank', WaveRank)]_vars
  <2> SUFFICES ASSUME WorkersInv, WorkersInv', Next, up, up', ~UNCHANGED vars
               PROVE  Closer(WaveRank', WaveRank)
    OBVIOUS
  <2>1. ~WaveEnds /\ ~Ends /\ \A W \in SUBSET Task : ~NextWave(W)
    BY DEF WaveEnds, Ends, Down, NextWave
  <2>2. QED BY <2>1, WorkerAdvances, LeftoverAdvances DEF Next
<1>2. QED BY <1>1, WorkersAlways, PTL DEF Spec, WaveAdvances
=============================================================================
