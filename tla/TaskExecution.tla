--------------------------- MODULE TaskExecution ---------------------------
(***************************************************************************)
(* The workers of a wave in detail: _execute_task with the adapters it     *)
(* calls.  Controller has one step where Claude works and one where Codex  *)
(* reviews; here are the sessions Claude is asked to continue, the answers *)
(* at response boundaries, the retries of a failed invocation, the lock    *)
(* that serialises the reviews, and the one file every review is read      *)
(* from.                                                                   *)
(*                                                                         *)
(* Abstracted: prompts, what an answer says beyond what the code branches  *)
(* on, and the subprocess behind an invocation (SubprocessRunner): it ends *)
(* with an answer or with an error.  Integration and planning are          *)
(* Controller's; between two waves a run is down here.                     *)
(*                                                                         *)
(* An operator X_Y is a mutant of X, the code with a plausible bug Y that  *)
(* a property must catch.  Next uses none of them.                         *)
(***************************************************************************)
EXTENDS Descent, Integers, FiniteSets

CONSTANTS
  Task,
  MaxAttempts,   \* RunConfig.max_task_attempts
  MaxRotations,  \* RunConfig.max_context_rotations
  MaxLaunches,   \* bound: waves begun
  NoTask,        \* the review lock is free; the review file does not exist
  Leftover       \* stands for the Codex of a controller that is gone

ASSUME ConfigAssumption   == MaxAttempts \in Nat \ {0} /\ MaxRotations \in Nat
ASSUME SentinelAssumption == {NoTask, Leftover} \cap Task = {} /\ NoTask # Leftover
ASSUME BoundAssumption    == MaxLaunches \in Nat
ASSUME TasksAssumption    == Task \subseteq Nat /\ IsFiniteSet(Task)

VARIABLES
  \* process.md
  st, att,     \* TaskRecord.status and attempt
  remembered,  \* tasks with a worktree_path
  rotations,   \* how many of TaskRecord.sessions are rotated
  \* the coroutines of the wave
  wpc,         \* where each is
  cont,        \* continuation_count
  try,         \* which of the two tries of an adapter this is
  verified,    \* every verification command passed
  \* the reviews
  lock,        \* holder of _codex_lock
  answer,      \* whose Codex wrote codex-review.json
  left,        \* a Codex is running whose controller is gone
  \* the controller
  up, launches

recordVars == <<st, att, remembered, rotations>>
localVars  == <<wpc, cont, try, verified>>
reviewVars == <<lock, answer, left>>
vars       == <<recordVars, localVars, reviewVars, up, launches>>

-----------------------------------------------------------------------------
(* A coroutine moves.                                                      *)

Go(t, from, to) == /\ up /\ wpc[t] = from
                   /\ wpc' = [wpc EXCEPT ![t] = to]
                   /\ UNCHANGED <<up, launches>>

SetTask(t, status) == st' = [st EXCEPT ![t] = status]

\* _existing_or_new_worktree.  continuation_count is set here, to 0, and not
\* again by a further attempt of the same coroutine.
Begin(t) ==
  /\ Go(t, "begin", "attempt")
  /\ remembered' = remembered \cup {t}
  /\ UNCHANGED <<st, att, rotations, cont, try, verified, reviewVars>>

\* The exhausted budget is not met here: only tasks with an attempt left are
\* resumed, and no id is planned twice.
StartAttempt(t) ==
  /\ att[t] < MaxAttempts
  /\ Go(t, "attempt", "claude")
  /\ SetTask(t, "RUNNING")
  /\ att' = [att EXCEPT ![t] = @ + 1]
  /\ UNCHANGED <<remembered, rotations, cont, try, verified, reviewVars>>

-----------------------------------------------------------------------------
(* Claude: _run_claude_until_boundary and ClaudeAdapter.execute.           *)

\* remember_session, of an answer at or above the context limit (rotated) or
\* below it.
\* The last session is continued by the next invocation exactly when it is not
\* rotated, so which one that is needs no variable.
Remember(t, rotated) == rotations' = [rotations EXCEPT ![t] = @ + IF rotated THEN 1 ELSE 0]

OverBudget_PerAttempt(t, rotated, completed) ==
  rotated /\ ~completed /\ cont[t] >= MaxRotations

\* The two conditions under which the rotation budget is called exhausted; the
\* first one counts the rotations of all attempts and ignores the answer.
OverBudget(t, rotated, completed) ==
  \/ rotations[t] + (IF rotated THEN 1 ELSE 0) > MaxRotations
  \/ rotated /\ ~completed /\ cont[t] >= MaxRotations

\* The task is done: verify it next.
ClaudeCompletes(t, rotated) ==
  /\ ~OverBudget(t, rotated, TRUE)
  /\ Go(t, "claude", "verify")
  /\ Remember(t, rotated)
  /\ SetTask(t, "VERIFYING")
  /\ try' = [try EXCEPT ![t] = 1]
  /\ UNCHANGED <<att, remembered, cont, verified, reviewVars>>

ClaudeContinues_Uncounted(t, rotated) ==
  /\ ~OverBudget(t, rotated, FALSE)
  /\ Go(t, "claude", "claude")
  /\ Remember(t, rotated)
  /\ try' = [try EXCEPT ![t] = 1]
  /\ UNCHANGED <<st, att, remembered, cont, verified, reviewVars>>

ClaudeContinues_OnceMore(t, rotated) ==
  /\ ~OverBudget(t, rotated, FALSE)
  /\ cont[t] <= MaxRotations + 2
  /\ Go(t, "claude", "claude")
  /\ Remember(t, rotated)
  /\ cont' = [cont EXCEPT ![t] = @ + 1]
  /\ try' = [try EXCEPT ![t] = 1]
  /\ UNCHANGED <<st, att, remembered, verified, reviewVars>>

\* It is not done: go on in the same session, or hand over to a fresh one.
ClaudeContinues(t, rotated) ==
  /\ ~OverBudget(t, rotated, FALSE)
  /\ cont[t] < MaxRotations + 2
  /\ Go(t, "claude", "claude")
  /\ Remember(t, rotated)
  /\ cont' = [cont EXCEPT ![t] = @ + 1]
  /\ try' = [try EXCEPT ![t] = 1]
  /\ UNCHANGED <<st, att, remembered, verified, reviewVars>>

ClaudeStops(t, rotated) ==
  /\ Go(t, "claude", "blocked")
  /\ Remember(t, rotated)
  /\ try' = [try EXCEPT ![t] = 1]
  /\ UNCHANGED <<st, att, remembered, cont, verified, reviewVars>>

\* The rotation budget is called exhausted, also of an answer that is complete.
ClaudeOverspends(t, rotated) ==
  /\ \E completed \in BOOLEAN : OverBudget(t, rotated, completed)
  /\ ClaudeStops(t, rotated)

\* Within the budget, the answer asks for another write scope.
ClaudeNeedsScope(t, rotated) ==
  /\ \E completed \in BOOLEAN : ~OverBudget(t, rotated, completed)
  /\ ClaudeStops(t, rotated)

\* One answer too many that is not complete.
ClaudeGivesUp(t, rotated) ==
  /\ ~OverBudget(t, rotated, FALSE)
  /\ cont[t] >= MaxRotations + 2
  /\ ClaudeStops(t, rotated)

\* A ProcessError: exit code, timeout, an error result or a broken contract.  The
\* second try is the same invocation; nothing is remembered of the session.
ClaudeFails(t) ==
  /\ IF try[t] = 1 THEN Go(t, "claude", "claude") ELSE Go(t, "claude", "blocked")
  /\ try' = [try EXCEPT ![t] = 3 - @]
  /\ UNCHANGED <<recordVars, cont, verified, reviewVars>>

-----------------------------------------------------------------------------
(* Verification and review.                                                *)

\* Verifier.run_all stops at the first command that fails or times out.
Verify(t, passed) ==
  /\ Go(t, "verify", "lock")
  /\ SetTask(t, "REVIEWING")
  /\ verified' = [verified EXCEPT ![t] = passed]
  /\ UNCHANGED <<att, remembered, rotations, cont, try, reviewVars>>

Acquire_Unlocked(t) ==
  /\ Go(t, "lock", "review")
  /\ lock' = t /\ answer' = NoTask
  /\ UNCHANGED <<recordVars, cont, try, verified, left>>

\* The review file is unlinked and Codex started.
Acquire(t) ==
  /\ lock = NoTask
  /\ Go(t, "lock", "review")
  /\ lock' = t /\ answer' = NoTask
  /\ UNCHANGED <<recordVars, cont, try, verified, left>>

\* Codex writes its last message where it was told to.
CodexWrites(t) ==
  /\ Go(t, "review", "review")
  /\ answer' = t
  /\ UNCHANGED <<recordVars, cont, try, verified, lock, left>>

CodexRetries_Endless(t) ==
  /\ Go(t, "review", "review")
  /\ try' = [try EXCEPT ![t] = 2]
  /\ answer' = NoTask
  /\ UNCHANGED <<recordVars, cont, verified, lock, left>>

\* A ProcessError: once more, from the unlink on.
CodexRetries(t) ==
  /\ try[t] = 1
  /\ Go(t, "review", "review")
  /\ try' = [try EXCEPT ![t] = 2]
  /\ answer' = NoTask
  /\ UNCHANGED <<recordVars, cont, verified, lock, left>>

\* Codex has exited: its answer is read, and the lock released.
Judge(t, to) ==
  /\ answer # NoTask
  /\ Go(t, "review", to)
  /\ lock' = NoTask
  /\ try' = [try EXCEPT ![t] = 1]
  /\ verified' = [verified EXCEPT ![t] = FALSE]
  /\ UNCHANGED <<att, remembered, rotations, cont, answer, left>>

ReviewPasses(t) == /\ verified[t]
                   /\ Judge(t, "accepted")
                   /\ SetTask(t, "READY_TO_INTEGRATE")

CaptureFails(t) == /\ verified[t]
                   /\ Judge(t, "blocked")
                   /\ SetTask(t, "INTEGRATION_BLOCKED")

\* Verdict BLOCKED, or not good enough and no attempt left.
ReviewBlocks(t) == Judge(t, "blocked") /\ UNCHANGED st

ReviewRetries_Unlimited(t) == Judge(t, "attempt") /\ SetTask(t, "RETRYING")

ReviewRetries(t) == /\ att[t] < MaxAttempts
                    /\ Judge(t, "attempt")
                    /\ SetTask(t, "RETRYING")

-----------------------------------------------------------------------------
(* The controller.                                                         *)

\* What the coroutines hold in their local variables before they begin.
NoLocals == [wpc      |-> [t \in Task |-> "idle"], cont |-> [t \in Task |-> 0],
             verified |-> [t \in Task |-> FALSE],  try  |-> [t \in Task |-> 1]]

Down == /\ up' = FALSE
        /\ wpc' = NoLocals.wpc /\ cont' = NoLocals.cont
        /\ verified' = NoLocals.verified /\ try' = NoLocals.try
        /\ lock' = NoTask
        /\ UNCHANGED <<remembered, att, rotations, answer, launches>>

\* A line longer than the runner reads, a review with impossible fields, a
\* command that cannot be started, a Codex that fails twice: the first exception
\* ends the wave and cancels its other coroutines.
Raise(t) ==
  /\ up /\ wpc[t] \in {"claude", "verify", "review"}
  /\ Down
  /\ UNCHANGED <<st, left>>

\* It dies, or is interrupted.  A Codex then under way may go on: that of a
\* controller that died, and one in a visible console after Ctrl+C.
Ends ==
  /\ up
  /\ left' \in {left, left \/ lock # NoTask}
  /\ Down
  /\ UNCHANGED st

\* Every outcome is there; _execute_wave goes on with them.
WaveEnds ==
  /\ up
  /\ \A t \in Task : wpc[t] \in {"idle", "accepted", "blocked"}
  /\ st' = [t \in Task |-> IF wpc[t] = "blocked" /\ st[t] # "INTEGRATION_BLOCKED"
                           THEN "BLOCKED" ELSE st[t]]
  /\ Down
  /\ UNCHANGED left

\* Written by the Codex nobody waits for.
LeftoverWrites ==
  /\ left
  /\ left' = FALSE /\ answer' = Leftover
  /\ UNCHANGED <<recordVars, localVars, lock, up, launches>>

Interrupted == {t \in Task : /\ st[t] \in {"RUNNING", "VERIFYING", "REVIEWING", "BLOCKED"}
                             /\ att[t] < MaxAttempts}

\* The next wave: after a resume the interrupted tasks are retried with the
\* others.  Which tasks are chosen is Scheduler's matter.
NextWave(W) ==
  /\ ~up /\ launches < MaxLaunches
  /\ W # {}
  /\ \E retried \in {{}, Interrupted} :
       /\ W \subseteq retried \cup {t \in Task : st[t] \in {"PENDING", "READY", "RETRYING"}}
       /\ st' = [t \in Task |-> CASE t \in retried -> "RETRYING"
                                  [] t \in W /\ st[t] = "PENDING" -> "READY"
                                  [] OTHER -> st[t]]
  /\ up' = TRUE /\ launches' = launches + 1
  /\ wpc' = [t \in Task |-> IF t \in W THEN "begin" ELSE "idle"]
  /\ UNCHANGED <<att, remembered, rotations, cont, try, verified, reviewVars>>

-----------------------------------------------------------------------------

Init ==
  /\ st = [t \in Task |-> "PENDING"] /\ att = [t \in Task |-> 0]
  /\ remembered = {} /\ rotations = [t \in Task |-> 0]
  /\ wpc = NoLocals.wpc /\ cont = NoLocals.cont
  /\ verified = NoLocals.verified /\ try = NoLocals.try
  /\ lock = NoTask /\ answer = NoTask /\ left = FALSE
  /\ up = FALSE /\ launches = 0

Claude(t) == \/ ClaudeFails(t)
             \/ \E rotated \in BOOLEAN : \/ ClaudeCompletes(t, rotated)
                                         \/ ClaudeContinues(t, rotated)
                                         \/ ClaudeOverspends(t, rotated)
                                         \/ ClaudeNeedsScope(t, rotated)
                                         \/ ClaudeGivesUp(t, rotated)
Review(t) == \/ Acquire(t) \/ CodexWrites(t) \/ CodexRetries(t)
             \/ ReviewPasses(t) \/ CaptureFails(t) \/ ReviewBlocks(t) \/ ReviewRetries(t)
Worker(t) == \/ Begin(t) \/ StartAttempt(t) \/ Claude(t) \/ Review(t) \/ Raise(t)
             \/ \E passed \in BOOLEAN : Verify(t, passed)

Next == \/ \E t \in Task : Worker(t)
        \/ \E W \in SUBSET Task : NextWave(W)
        \/ WaveEnds \/ LeftoverWrites \/ Ends

\* An invocation ends, by its timeout at the latest, and asyncio runs what can
\* run.  Assumed of the child and of the runner is what SubprocessRunner says.
Fairness == \A t \in Task : WF_vars(Worker(t))

Spec     == Init /\ [][Next]_vars
FairSpec == Spec /\ Fairness

-----------------------------------------------------------------------------

TaskStatus == {"PENDING", "READY", "RUNNING", "VERIFYING", "REVIEWING", "RETRYING",
               "READY_TO_INTEGRATE", "BLOCKED", "INTEGRATION_BLOCKED"}
WorkerAt   == {"idle", "begin", "attempt", "claude", "verify", "lock", "review",
               "accepted", "blocked"}

TypeOK ==
  /\ st \in [Task -> TaskStatus]
  /\ att \in [Task -> 0..MaxAttempts]
  /\ remembered \subseteq Task
  /\ rotations \in [Task -> Nat]
  /\ wpc \in [Task -> WorkerAt]
  /\ cont \in [Task -> 0..MaxRotations + 2]
  /\ verified \in [Task -> BOOLEAN]
  /\ try \in [Task -> {1, 2}]
  /\ lock \in Task \cup {NoTask} /\ answer \in Task \cup {NoTask, Leftover}
  /\ left \in BOOLEAN /\ up \in BOOLEAN /\ launches \in 0..MaxLaunches

\* However its attempts are interrupted and resumed, a task that has rotated
\* more often than it may is not verified, reviewed or accepted any more: the
\* count is of all sessions process.md lists (_run_claude_until_boundary).  It
\* is BLOCKED, but not for good, as sections 9 and 12 of the design have it: a
\* resume opens one more fresh session for each attempt that is left.
RotationsBounded ==
  \A t \in Task :
    /\ rotations[t] <= MaxRotations + att[t]
    /\ wpc[t] \in {"verify", "lock", "review", "accepted"} => rotations[t] <= MaxRotations

\* A worker never acts on the review of another worker of the wave, although
\* all reviews are read from one file; only a Codex whose controller is gone
\* can put in a word (_codex_lock, CodexAdapter._invoke_once).
ReviewIsOwn ==
  [][\A t \in Task : up' /\ wpc[t] = "review" /\ wpc'[t] # "review" => answer \in {t, Leftover}]_vars

\* Why these two hold: an invocation is made with a session to spare, and only
\* under the lock does a worker have a review to read.
BudgetInv ==
  /\ RotationsBounded
  /\ \A t \in Task : wpc[t] = "claude" => att[t] > 0 /\ rotations[t] < MaxRotations + att[t]
LockInv ==
  \A t \in Task : wpc[t] = "review" => lock = t /\ answer \in {t, NoTask, Leftover}
WorkersInv == TypeOK /\ BudgetInv /\ LockInv /\ (~up => \A t \in Task : wpc[t] = "idle")

\* Why the next one holds: where a worker is and what its record says agree, so
\* that no move of it is one the transition table refuses.
StageInv ==
  \A t \in Task :
    /\ wpc[t] \in {"begin", "attempt"} => st[t] \in {"READY", "RETRYING"}
    /\ wpc[t] = "claude"               => st[t] = "RUNNING"
    /\ wpc[t] = "verify"               => st[t] = "VERIFYING"
    /\ wpc[t] \in {"lock", "review"}   => st[t] = "REVIEWING"

\* To Controller, waiting for the lock is part of the review.
CoarseWpc == [t \in Task |-> IF wpc[t] = "lock" THEN "review" ELSE wpc[t]]

\* Every step of a worker, seen through the state Controller keeps of it, is
\* one step Controller allows its worker, or none: the adapters, sessions and
\* retries add nothing the composition of the run does not know.
C == INSTANCE Controller WITH
       TaskId <- Task, InitialPlans <- {}, Replans <- {}, Clash <- {},
       MaxWorkers <- Cardinality(Task), Proc <- {Leftover}, Nobody <- NoTask,
       MaxRevisions <- 1,
       status <- "EXECUTING", revs <- <<"APPLIED">>, thread <- TRUE,
       deps <- [t \in Task |-> {}], wt <- remembered,
       base <- [t \in Task |-> {}], dup <- {},
       accepted <- {}, digest <- {}, tree <- {},
       owner <- IF up THEN Leftover ELSE NoTask,
       pc <- IF up THEN "wave" ELSE "none",
       wpc <- CoarseWpc,
       prompted <- 1, phase <- [p \in {Leftover} |-> IF up THEN "owner" ELSE "idle"],
       snap <- [p \in {Leftover} |-> {}], adder <- "idle", planned <- 1

ImplementsWorker == [][up /\ up' => \E t \in Task : C!Worker(t)]_(C!vars)

\* What a wave still has before it, of each worker: attempts, the stages of this
\* attempt, answers it may call incomplete, a second try, and a review that is
\* not written yet.  A Codex nobody waits for can undo that last one, once.
Stage == [idle |-> 0, accepted |-> 0, blocked |-> 0, attempt |-> 1, review |-> 2,
          lock |-> 3, verify |-> 4, claude |-> 5, begin |-> 6]
AttemptsAhead == [t \in Task |-> MaxAttempts - att[t]]
StagesAhead   == [t \in Task |-> Stage[wpc[t]]]
AnswersAhead  == [t \in Task |-> MaxRotations + 2 - cont[t]]
TriesAhead    == [t \in Task |-> 2 - try[t]]
LeftAhead     == <<IF left THEN 1 ELSE 0>>
ReviewsAhead  == [t \in Task |-> IF wpc[t] = "review" /\ answer # t THEN 1 ELSE 0]
WaveRank      == <<AttemptsAhead, StagesAhead, AnswersAhead, TriesAhead, LeftAhead,
                   ReviewsAhead>>

\* No step of a wave is taken for nothing, so that a wave cannot go on for ever
\* however its workers interleave and its budgets, which are counted in four
\* different places, are set: a step that leaves one of them higher lowers one
\* that comes before it (_execute_task, _run_claude_until_boundary and the two
\* adapters).
WaveAdvances == [][up /\ up' => Closer(WaveRank', WaveRank)]_vars

\* A worker that began has an outcome, or its controller ends: neither retries
\* nor rotations nor the review lock keep it going or waiting for ever.
WorkerEnds == \A t \in Task : wpc[t] = "begin" ~> wpc[t] \in {"accepted", "blocked", "idle"}

=============================================================================
