# A verification of codex-claude in TLA+

codex-claude runs a coding job with two agents: Codex plans and reviews, Claude
implements. A Python controller turns the plan into tasks, runs each in a git
worktree of its own, and integrates the patches that pass review into the main
working tree. It runs none of `git commit`, `merge` or `push`. Everything it must
remember across a crash is in one file, `process.md`, plus artifacts under
`.git/codex-claude/<run-id>/`.

This directory holds the models of that program, the TLC runs that check them
and the proofs that extend the results to every value of the constants. Paths
below are relative to the directory above the package, so the controller is
`src/src/codex_claude/controller.py`; `PROJECT.json` maps each definition to its
lines.

## 1. Inventory

### Components

| Component | Source | State it keeps | Operations |
|---|---|---|---|
| Run controller | `controller.py` | none of its own but the ownership lock and its place in the loop; everything else is in `process.md` | `start`, `run`, `resume`, `add_requirement`; inside: recovery, planning, replanning, waves, integration, finalisation |
| Statuses | `state.py` | `RunState`: run status, revisions, tasks, digests, generation | `transition`, `append_revision`, `Plan.from_dict` and the other validators |
| Process store | `process_store.py`, `locking.py` | `process.md`, two lock files, a temporary file per write in flight | `load`, `save` (optimistic, by generation), `update` (under the lock), `create`, `archive` |
| Requirement revisions | `requirements.py` | immutable artifacts `R01`, `R02`, ... | `create_revision`, `read_revision` |
| Scheduler | `scheduler.py` | nothing that lasts: one is built before each wave | `_validate` (Kahn), `ready`, `compatible`, `next_wave` |
| Path policy | `security.py` | none | `normalize_repo_path`, `scope_owns_path`, `scopes_overlap`, `is_global_scope` |
| Patch integrator | `patch_integrator.py` | `patches/<task>.patch`, the main working tree | `capture`, `verify_artifact`, `check`, `is_already_applied`, `apply` |
| Worktree manager | `worktree_manager.py` | one worktree per task below a temporary directory | `create`, `cleanup` |
| Subprocess runner, terminal host | `subprocess_runner.py`, `terminal_host.py` | child processes, their pipes; the logs and the completion record of a visible console | `run`, `_stop`, `_run_visible_terminal`; `run_manifest`, `_pump` |
| Agents | `codex_adapter.py`, `claude_adapter.py` | thread and session ids, one answer file per kind of answer | plan, replan, review, final review; task execution with continuation over context limits |
| Verifier | `verifier.py` | none | runs the verification commands |
| Git inspector | `git_inspector.py` | none | preflight, `worktree_digest`, `diff_binary` |
| Command line, input, rules, rendering, config | the rest | none | pure functions and I/O |

### Interactions

* A *controller process* (`run` or `resume`) takes the ownership lock of the
  repository without waiting and keeps it until its loop ends. Inside the loop it
  alternates between loading `process.md`, awaiting agents and git, and short
  locked updates. The workers of a wave are coroutines of that process and use
  the same store.
* `add` takes no ownership lock. It may run beside a controller and change the
  list of revisions and the status between any two steps of the loop.
* `resume` loads the state *before* it owns the repository; `_pause` and
  `_block` write *after* they gave it up. Both therefore overlap with another
  controller.
* The main tree changes only by integration (and recovery). Its digest is
  checkpointed in `process.md`; a tree that differs is refused unless a patch is
  recorded as pending.

### What is hard here

* Crashes at any point, between the application of a patch and its record, in the
  middle of planning, in recovery itself.
* Decisions made on a state loaded earlier than the lock they act under.
* `add` at any moment; retries and replans in any order; two controllers.
* Waves: tasks that run together must not be able to touch the same file.
* The store under crashes, timeouts and processes that write at the same time.
* What git does to the tree, the worktrees and the artifacts, with a crash between
  any two commands or within one; worktrees that are older than the tree.
* Workers of a wave that share the one file Codex answers in.
* Everything the loop waits for: pipes that fill in both directions, children that
  hang, die early or leave a descendant, timeouts, Ctrl+C, a console that records
  its completion and goes.

`PROJECT.json` lists these as hazards at their lines, each with the properties
that would catch it or the reason why none does yet.

### What makes each component correct

* **Controller**: reported done means integrated; a crash anywhere can be
  resumed; nothing accepted is ever lost; dependencies come first, in the record
  and in the worktree; replanning only at a safe boundary; COMPLETED means every
  open task is; a controller, once launched, ends.
* **Store**: an atomic register; every listed revision can be read; calls return.
* **Scheduler and path policy**: exactly the well-founded graphs are accepted; no two
  tasks of a wave may write one path or hold one lock; waves as large as the
  limits allow; the run gives up only because of tasks that are blocked
  or were cut off.
* **Integrator and worktrees**: no part of the tree is of unknown origin; a patch
  goes on top of what it was made on; tasks of a wave do not conflict, unless one moves
  a file out of the scope of the other; what is recorded is on disk; work is not lost
  before it is integrated.
* **Worker**: attempts and continuations stay within their budgets, a task over its budget of
  rotations is not accepted, a review is read by the task it is about, and a worker comes to an outcome.
* **Subprocess runner**: a call ends, its result is complete, and it leaves no
  process behind but in the ways `StoppedIsReaped` lists.

## 2. Modules

| Module | Role |
|---|---|
| `Statuses` | the transition tables of `state.py` |
| `Waves` | what a wave is: the result `Scheduler` provides and `Controller` uses |
| `Descent`, `DescentProofs` | how far something still has to go, as a list of vectors of numbers; when it comes closer |
| `Controller` | one run: durable state, tree, controllers, workers, `add` |
| `MCController` | instances for TLC |
| `ControllerProofs` | theorems about `Controller` |
| `AtomicStore` | what `process.md` promises: an atomic register |
| `ProcessStore` | load, update, save under the state lock; implements `AtomicStore` |
| `MCProcessStore`, `ProcessStoreProofs` | instance and theorems |
| `Scopes` | paths, scopes, ownership and overlap |
| `Positions`, `PositionProofs` | sets of positions in a list: in order, and the last of them; that both exist |
| `Scheduler` | graph validation and the greedy wave, as the loop uses them |
| `MCScheduler`, `SchedulerProofs` | instance and theorems |
| `Integration` | tree, worktrees, patch artifacts and the commands of git on them |
| `MCIntegration`, `IntegrationProofs` | instance and theorems |
| `TaskExecution` | the workers of a wave: sessions, retries, reviews; implements the worker of `Controller` |
| `MCTaskExecution`, `TaskExecutionProofs` | instance and theorems |
| `SubprocessRunner` | one call of a child process, hidden or in a console |
| `MCSubprocessRunner`, `SubprocessRunnerProofs` | instance and theorems |

### Controller

The variables `status revs thread st att deps wt base dup accepted digest` are
the content of `process.md`; `tree` is the main working tree, as the set of
patches in it (the patch of a task is named by its id); `owner` is the ownership
lock; `pc`, `wpc`, `prompted` are the local state of the owner and its workers;
`phase` and `snap` say for each process whether it has loaded, owns or is on its
way out, and which tasks it found pending when it loaded. `base` (what a worktree
started from) and `planned` (revisions that were in an applied prompt) are
recorded for the properties.

A step is what one process does between two awaits or two store calls. A load
is a step (`Launch`, `load` steps of the loop, `Gather`, `WaveEnd`), a locked
update is another, and everything else may happen in between. That a locked
update may be one step is not assumed: `ProcessStore` shows it. Which wave may
be chosen is `IsWave`, which is `Waves!IsWaveOf` with a constant for the clash
relation; that `next_wave` returns such a set, with `compatible` for the clash relation, is
`ReturnsWave` of `Scheduler`. That a patch is applied, recorded or refused in one step, with no worktree or
artifact in sight, is `ImplementsLoops` of `Integration`.

`resume` computes the tasks to recover from the state it loaded before it had the
ownership lock and does not look again. `Spec` leaves it at that. `FreshSpec` are the
behaviours in which whoever takes the lock still knows the pending patches
(`FreshAcquire`); however many controllers load, wait, are refused, write late and
crash beside it makes no difference. The code ensures it when controllers do not
overlap, and otherwise relies on it.

| Code | Actions |
|---|---|
| `resume`/`run` up to the lock | `Launch`, `Acquire`, `Refused` |
| `_recover_if_needed` | `RecoverApply`, `RecoverMark`, `RecoverDone` |
| the branches of `_run` | `LoadUnplanned`, `LoadReplan`, `LoadStopped`, `LoadScheduled` |
| `_plan`, `apply_plan` | `PlanEnter`, `PlanApply` |
| `_replan`, `apply_replan` | `ReplanEnter`, `ReplanApply`, `ToReplanning` |
| `_prepare_resumed_tasks` | `ResumeTasks` |
| `_execute_wave` | `Prepare`, `Gather`, `ToIntegrating`, `IntegrateApply`, `IntegrateMark`, `IntegrateConflict`, `IntegrateBlocked`, `WaveEnd`, `ToScheduling` |
| `_execute_task` | `Begin`, `StartAttempt`, `AttemptsExhausted`, `ClaudeCompletes`, `ClaudeStops`, `Verify`, `ReviewPasses`, `ReviewRetries`, `ReviewBlocks`, `CaptureFails` |
| `_finalize`, `_block` | `Complete`, `FinalReviewFails`, `Block` |
| exceptions, Ctrl+C, death | `Raise`, `Interrupt`, `LateWrite`, `Crash` |
| `add_requirement` | `AddCheck`, `AddAppend`, `AddGivesUp` |

A replan may answer with the id of a task it supersedes. The code then has two
records of that id and looks up the first. `st` is the first record and `dup`
the ids with an active second one.

### ProcessStore

`file` is `process.md` as the sequence of updates in it, its generation and the
number of revisions it lists. A process loads without the lock, or calls an
operation: acquire or time out, load (`Fetch`) or compare generations
(`Compare`), store the artifact of a new revision (`CreateRevision`), write the
temporary file, replace, release. Any of these can fail (`Raise`), and a process
can die anywhere (`Crash`), which frees the operating system's lock and leaves
its temporary file.

### Scheduler

Each turn of the two loops is a step: `Visit` pops a task of Kahn's queue and
counts down its dependents, `Consider` looks at the next task of the list.
`Construct`, `Duplicate`, `Unknown`, `Validated` and `Chosen` are the ends of these loops;
`Finish`, `CutOff` and `Resume` are what the controller does with the result. A wave may be
cut off at any moment, which leaves tasks RUNNING (VERIFYING and REVIEWING are the same here).
After a crash the run is EXECUTING and the next controller goes straight on with the loop;
after an error or Ctrl+C it is recorded as stopped and resumed tasks are RETRYING. Tasks are spoken
of by their place in the list and carry their id in a field, so that two may have the same one.
`Scopes` models a path as its sequence of names, and a scope as a path with or
without a trailing slash, so that prefix tests on strings become prefix tests on
sequences.

### Integration

A *place* is a piece of a file together with the context git matches it by; a
tree gives every place its content. A patch says, for some places, which content
it expects and which it leaves (`PatchOf` is `git diff` in a worktree). It
applies if the tree has the first everywhere and is already applied if it has the
second everywhere: `Applies` is `git apply --check`, `AppliedIn` the reverse
check. A file that is not there has the content `Missing`, so that files can be made, removed
and moved. `capture` checks the scope on a listing in which git shows a moved file by its destination
only: `Listings` are what it may show, since whether git takes two files for one that moved
depends on how alike they are. The patch itself has every changed place. One thing is stricter here:
git moves a file without looking at its content, the patch of a move here expects the
content it had. `Checkpoint(n)` is the initial HEAD with the first `n` accepted patches replayed: a
place is as the last of them that touches it left it. `tree`, `dirs`, `base`, `work` and `artifact` are on disk, `st att patch
remembered accepted digest` in `process.md`.

| Code | Actions |
|---|---|
| `_validate_resume_artifacts`, ownership | `Resume` |
| `_recover_if_needed` | `Apply`, `RecoverConflict`, `Mark`, `RecoverDone` |
| `_prepare_resumed_tasks` | `ResumeTasks` |
| `_existing_or_new_worktree`, `WorktreeManager.create` | `Reuse`, `Create`, `CreateFails` |
| `_execute_task` | `StartAttempt`, `ClaudeEdits`, `ClaudeCompletes`, `ClaudeStops`, `ReviewRetries`, `ReviewBlocks`, `Ready` |
| `PatchIntegrator.capture` | `Capture`, `CaptureRefuses` |
| `PatchIntegrator.apply` | `Apply`, `ApplyTorn` (the machine dies in `git apply`) |
| `_execute_wave` | `StartWave`, `Gather`, `IntegrateConflict`, `OutcomeBlocked`, `Mark`, `WaveEnds` |
| death, error, Ctrl+C | `Ends` |

The controller may be started again without limit.

### TaskExecution

`wpc` says where the coroutine of each task is. An invocation of Claude is one
step with one of six outcomes, at a boundary that was rotated or not; the two
tries of an adapter are `try`, the continuations `cont`, the rotations of all
recorded sessions `rotations`. Reviews go through `lock` (`_codex_lock`) and
`answer`, the file `codex-review.json` with the task whose Codex wrote it last.
A Codex that outlives its controller (`left`) may write that file at any later moment.
Between two waves the run is down; the model does not say why.

`ImplementsWorker` maps the state to the variables of `Controller`, with waiting
for the lock seen as part of the review, and says that every step within a wave
is a step of `Controller!Worker` or stutters. So what `Controller` assumes of a
worker, one step where Claude works and one where Codex reviews, is what the
adapters, sessions and retries provide.

### SubprocessRunner

A prompt is a number of chunks, an output a number of lines, and a pipe holds `Cap`
of either. The child reads, prints, blocks on a full pipe, hangs, finishes, dies,
may close its stdin and run on (`ChildCloses`),
and may leave a descendant that keeps the pipe open. An interrupt may come wherever the code
awaits, also within `_stop`. `mode` is the hidden call or the
console of either agent.

| Code | Actions |
|---|---|
| `run` up to the spawn | `Start`, `CannotStart` |
| `stdin.write`, `drain` | `Write`, `Drained`, `DrainBroken` |
| `consume` | `Consume`, `ConsumeFails`, `ConsumeEnds` |
| the gather, its handlers | `Finish`, `TimesOut`, `Fails`, `Interrupt`, `Collect` |
| `_stop` | `Stop`, `Reaped`, `Kill`; for a host `StopHost`, `HostReaped` |
| `_run_visible_terminal` | `Poll`, `PollTimesOut`, `PollInterrupted`, `Read`, `Close` |
| `run_manifest`, `_pump` | `HostFeeds`, `HostPumps`, `HostJoins`, `HostRecords`, `HostCloses`, `HostFails`, `HostDies` |

`TaskExecution` and `Controller` use of this module that a call ends with a result
or an error, which is `CallEnds`.

## 3. Runs

| Run | Question | Size |
|---|---|---|
| `controller` | the safety properties and the progress of every step, two controllers with current snapshots, 3 tasks, replans that keep or change ids, 3 launches | 602 thousand states |
| `controller_overlap` | two controllers that overlap: what survives, and that every launched controller ends | 32 thousand |
| `store` | refinement of the register, revisions, termination; 3 processes | 287 thousand |
| `scheduler` | all lists of 3 tasks over 7 kinds of work and 32 dependency patterns, some with an id twice; waves cut off and resumed | 3.4 million |
| `integration` | tree, worktrees and artifacts; 3 tasks, 2 places, files made, moved and removed, any number of crashes | 1.5 million |
| `task` | two workers with sessions, retries and reviews; refinement of `Controller!Worker`; termination | 328 thousand |
| `runner` | one call in each mode, interrupted anywhere; termination | 26 thousand |
| `claim_*` | five statements of the documentation that the code does not meet | stop at the first counterexample |

### Properties

*Controller.* `AcceptedExactly`: COMPLETED, listed as accepted, in the digest and in
the tree go together. `CheckpointRecoverable`: what the tree has beyond the
checkpoint is recorded as pending, so a resume recovers it rather than refuses
the tree. `DependencyOrder` and `WorktreeHasDependencies`: dependencies first,
also when a worktree is reused after a restart. `ReplanAtSafeBoundary`: a replan
never discards a patch that passed review. `CompletedMeansDone`.
`CompletedPermanent`, an action property: accepted work is never taken back.
`RunAdvances`, an action property: every step brings the run closer to the end of its
controllers. What it counts (`RunRank`) is, in this order: launches and requirements left;
where each controller is; whether a plan is needed; tasks to recover, to start and to
integrate; the place in the loop; attempts left; the stages of the workers. `RunEnds`, liveness.

*Store.* `ImplementsAtomicStore` (refinement), `RevisionsAreStored`,
`CallsReturn` (liveness).

*Scheduler.* `AcceptsExactlyWellFounded`, `WavesAreIsolated`, `GlobalRunsAlone`,
`StalledByStopped`: without a wave to run, every open task is blocked, was cut off and not prepared
for a retry, or waits for one that is. A task that was resumed is none of these, so it is never
passed over. And `ReturnsWave`, an action property: what `next_wave` returns is a wave as
`Controller` assumes it, ready, isolated and as large as the limits allow.

*Integration.* `TreeAccountedFor`: the checkpoint is the initial HEAD with the
accepted patches, and the tree is the checkpoint with at most the first pending
patch, or a part of it, on top. `AcceptedInOrder`: a patch was accepted on top of
what it had been made on, or changes it the same way, also from a stale worktree.
`ConflictMeansStale`: git refuses a patch of a wave only if its worktree was
older than the wave or one of two tasks moved a file out of the scope of the other;
otherwise `compatible` and the scope check of `capture` keep the tasks of a wave apart.
Without the exception for moved files TLC finds it violated. `ArtifactsIntact`, and `WorkSurvives` (an action property):
no restart, retry or conflict removes or resets what Claude wrote.
`ImplementsLoops` (an action property): every step of the recovery and of the integration, with what
git does of it, is the step of `Controller` that has a patch in the tree or not at all.

*TaskExecution.* `RotationsBounded`: a task over its budget of rotations is never verified,
reviewed or accepted, over all interruptions, and uses at most one fresh session per attempt beyond
it. This is less than the design allows it (section 5). `ReviewIsOwn` (an action property): a worker never acts on the
review of another. `WaveAdvances` (an action property): every step lowers what the wave still
has before it (`WaveRank`: attempts, stages, continuations, tries of the adapters, a Codex left over, reviews).
`ImplementsWorker` (refinement), `WorkerEnds` (liveness).

*SubprocessRunner.* `ResultIsComplete`: a result is returned only of a child that
is gone, with every line it printed up to the limit. `CompletionNotMissed`: the
record is not overlooked when host and poll race. `StoppedIsReaped`: a hidden call leaves a
running child only if it was cut off while it wrote the prompt or within `_stop`, or if the child closed
its stdin under the prompt; the host of a console is gone after a timeout, and that of Claude
after a result or an interrupted poll too. `CallEnds` (liveness): every call ends, except in the ways
`Stuck` lists, which are outside the timeout of the code.

Every one of these has a mutant in `PROJECT.json`: a plausible bug in the code
(a dropped guard, a stale digest, an in-degree counted once per name), written as an
operator beside the definition it replaces, for which TLC finds the property violated.

### Bounds

* `controller`: the plans are two independent tasks and a chain of two, with
  two workers and two attempts, so that parallel workers, dependencies, retries
  and exhausted attempts all occur. The replans are one that reuses the id of a
  superseded task and one with a task of its own. `MaxRevisions = 2` allows one
  `add`, at any moment. `MaxLaunches = 3` allows a crash, a crash during the
  recovery from it, and a run to the end; with two processes a launch may also
  fall into the run of another, be refused, and write BLOCKED late. The processes are
  interchangeable (`SYMMETRY`): no property of the run tells them apart, and none is a liveness
  property. `Clash` is empty here: which tasks may not run together
  restricts waves only, and is the subject of `scheduler`.
* `controller_overlap` has two processes, of which one may load while the other
  still commits. With two, a stale snapshot and a late write already happen.
  One task per plan keeps the liveness check small.
* `store`: three processes give a holder, a waiter and one that commits in
  between. `MaxCommits = 3` bounds the updates together with the calls in
  flight.
* `scheduler`: lists of three include chains, diamonds' halves, cycles of two and
  three, unknown ids and repeated ones. The kinds of work include a directory, a
  file below it, a name that is a file for one and a directory for another, a
  shared lock, a manifest and a task that must run alone. A few lists have an id twice, next to each
  other or apart. Any part of a wave may be cut off, and any of the blocked and
  interrupted tasks resumed.
* `integration`: the first task writes both places, the second one and the third the
  other, so that tasks share a wave or exclude each other; the third may leave its scope. Two
  contents, of which one is `Missing`, let a retry differ from its first attempt, restore what was
  there and make a change another task has made; a file is made, removed, or moved from the one place
  to the other, out of the scope of another task of the wave too. Two attempts, so that a retry meets what the first one left.
* `task`: two workers contend for the lock and the file; two attempts; one
  rotation, so that three continuations and a second rotation occur; two waves, the
  second one a resume of an interrupted first.
* `runner`: three chunks and three lines over pipes of one, so that each side
  blocks on the other; an output limit of two, so that a line is cut.

* `claim_planning`: one revision and so no `add`: only an interruption can send the run to
  replanning.

Deadlock is not checked: a completed run, a dead process and an exhausted
bound do stop. That a controller cannot get stuck is `RunEnds`.

### Fairness

* `Controller`: weak fairness of the owner's next step as a whole, whose outcome
  may always be an exception (`Raise`), and of the lock attempts and late writes
  of each process. The state lock is waited for at most five seconds. Assumed
  beyond that are that git commands return and that an agent call ends;
  `SubprocessRunner` says when the latter holds: unless the call is `Stuck`. Nothing
  obliges anyone to launch, interrupt, crash or add. Bounded launches and `add`s are
  essential to `RunEnds` only in that an endless stream of new requirements can
  keep a run busy for ever.
* `TaskExecution`: weak fairness of each worker as a whole. A worker that waits for
  the lock is not starved: in a wave each holder ends its review, and only a worker
  that ran another attempt comes back, a bounded number of times.
* `SubprocessRunner`: weak fairness of each thing the event loop does, of the timers
  and of a child that is not hung. The child may hang, die or print what is not
  JSON at any time, and nothing is assumed of the host: a console may stand still for ever
  and the poll still ends by its timeout.
* `ProcessStore`: weak fairness of each process within an operation. A process
  that waits for the lock gives up after its deadline.
* `Scheduler` is sequential and has only safety properties.

## 4. Proofs

All theorems hold for any tasks, plans, processes and bounds that meet the named
assumptions of the modules, which say no more than the code validates:
non-empty plans whose dependencies are tasks of the plan, at least one worker
and one attempt.

* `TypeCorrect`: the type invariant, including that `pc` is "none" exactly when
  nobody owns the repository.
* `AcceptedIsExact` and `AcceptedIsPermanent` for any number of *overlapping*
  controllers. `AcceptedExactly` is not inductive: `RecoverMark` and
  `IntegrateMark` record a patch that an earlier step applied, and the first
  plan replaces the task list. `RecordingInv` adds that the patch about to be
  recorded is in the tree and that before the first plan nothing exists to be
  replaced.
* `CrashesAreRecoverable` and `ReplansAreSafe`, for `FreshSpec`, so for any number of overlapping
  controllers as long as none takes the lock with an outdated snapshot. The invariant
  (`CheckpointInv`) joins `CheckpointRecoverable` with `WorkersInv`, which
  says where workers can be for each place of the owner, and `PendingInv`, which says who
  accounts for the pending patches: the snapshot until recovery is over, the
  wave afterwards, and nobody in between.
* `DependenciesComeFirst`, `WorktreesHaveDependencies` and `CompletedRunsAreDone`, also for
  `FreshSpec`. A worker is chosen in one step and its record changes in later ones:
  `DependencyInv` adds that the dependencies of every worker are done, which lasts since nothing
  leaves COMPLETED. A worktree outlives attempts, restarts and replans: `WorktreeInv` says
  that it suits the record unless the record is superseded, and that a superseded one whose id
  is planned again cannot move. `DoneInv` adds that the final review
  is of a run that is done and that nobody is at work once it is COMPLETED.
* `LoneControllersAreFresh`: with one process at a time (`SingleController`) every behaviour
  of `Spec` is one of `FreshSpec`, so the five theorems hold of `Spec` then. Between a launch and the
  lock nobody else changes a record (`LoadedInv`).
* `RunsAdvance` and `RunRankIsNatural`, for `Spec`, so with outdated snapshots too: every step lowers
  `RunRank`, a list of vectors of natural numbers compared by its first difference, or is an `add` that
  only looks and leaves it as it is. `LoopInv` is what the steps need: planning is under way only in a run
  that needs it, the first record of an id that occurs twice cannot move, and no bound is overdrawn. There are finitely many
  tasks, and no more controllers have ever run than launches, so no behaviour goes on for ever without idling or
  looking.
* `WavesAdvance` and `WaveRankIsNatural`, the same for the workers of a wave with their retries,
  continuations and reviews, for any number of them and any budgets.
* `StoreTypeCorrect`, `StoreIsAtomic`, `ListedRevisionsAreStored`, for any
  number of processes. The refinement rests on `StoreInv`: a state with the
  current generation *is* the current state, which is what makes the comparison
  in `save` sufficient.
* `OverlapIsExact`: two scopes overlap, as `scopes_overlap` computes it, if and
  only if some path is owned by both, at any depth. `WavesIsolated`,
  `GlobalsRunAlone`, `WavesImplementController`: the greedy loop, for any list and limit. The last
  one is the interface between two modules: what `Scheduler` returns meets the definition `Controller` uses.
  `WaveInv` says that the tasks chosen so far are pairwise compatible and
  `ConsideredInv` that each ready task passed over clashes with one of them.
* `SchedulerTypeCorrect`, `ValidationIsExact`, `OnlyStoppedTasksStall`. `KahnInv` says that what has
  been visited or queued has nothing left to wait for and that the in-degree of every other task
  counts what it still waits for. Among the tasks seen no set waits
  for itself; when the queue runs dry, those not seen do wait for each other. `StallInv` says that
  a stalled run has nothing ready; so among the open tasks that are neither blocked nor cut off, and in every
  set of them, one waits for a task outside the set, since the accepted graph has no cycle.
* `RunnerTypeCorrect`, `ResultsComplete`, `CompletionsSeen`, `ChildrenReaped`: one call of the
  runner, for prompts, outputs and pipes of any size. `CallInv` adds to them that lines are neither lost
  nor invented between child, pipe and copy (`LinesInv`), that whoever says the child is through, the end
  of its stream, the host or the record, says so of one that is gone (`ThroughInv`), and which
  outcome is under way at each place (`OutcomeInv`).
* `WorkersTypeCorrect`, `RotationsAreBounded`, `ReviewsAreOwn`, for any number of workers and any
  budgets. `BudgetInv` says that Claude is only asked while a session is to spare, which
  `OverBudget` ensures after the fact; `LockInv` that a reviewer holds the lock and reads its own
  file or that of a Codex left over.
* `WorkersImplementController`: the refinement of `Controller!Worker`. `StageInv` ties the status of
  a record to where its worker is, so that no move meets a refusal of the transition table.
* `IntegrationTypeCorrect`, `TreeIsAccountedFor`, `PatchesAcceptedInOrder`, `ArtifactsAreIntact`,
  `ConflictsMeanStale`, `WorkAlwaysSurvives`, for any tasks, places and contents. `IntegrationInv`
  joins them with `RecordsInv` (what the records say of each other), `ControlInv` (where the owner is
  and what it has in hand), `DisjointInv` (tasks of a wave share no scope; their patches touch what is
  in their scopes and files they moved from elsewhere, `CapturedScope`) and
  `TreeInv` (the tree is the checkpoint, or on the way to the checkpoint with the patch in hand). That recording one
  more patch moves the checkpoint by exactly that patch is where the definition of
  `Checkpoint` by the last patch that touches a place pays: it needs no recursion.
* `LoopsImplementController`: `Controller!Recovery` and `Controller!Integration` are what git, the
  artifacts and the worktrees make of them. A tree is mapped to the set of the patches in it; a
  patch torn by a crash is not in it before the recovery has applied it again. `HandInv` says that the
  patch that has been applied is still the first of its loop when it is recorded. Left out are the
  steps in which git is cut off, and `ResumeTasks`, a step of its own in both modules.

Two things are stated without recursion because of what the prover can do: the replay of patches
(`Checkpoint`) and the order of a list of positions (`InOrder`). `PositionProofs` shows
that what these choose exists, by minimal counterexamples instead of induction.

Every safety property, action property and refinement of the passing runs is proved.

What `FreshSpec` excludes is real. In an instance with two controllers, TLC finds for `Spec` behaviours
that violate `CheckpointRecoverable`, `ReplanAtSafeBoundary`, `CompletedMeansDone` and, with a replan
that reuses an id, `DependencyOrder`: a controller that loaded while another one was at work takes
the lock after it, recovers nothing and goes on with the loop (section 5). What holds even then,
`AcceptedExactly`, `CompletedPermanent` and `RunAdvances`, is proved for `Spec`.

Liveness (`RunEnds`, `CallsReturn`, `WorkerEnds`, `CallEnds`) stays with TLC: the prover
has no rule for fairness or ENABLED. Of `RunEnds` and `WorkerEnds` the theorems above are the
well-founded half, that one cannot go on for ever; the other half, that under the
stated fairness one does not stop early, is what TLC adds. `CallEnds` has no such measure: a
console that is polled does not come closer to its end but by the clock.

## 5. Findings

Each is a run that ends in a counterexample. They are disagreements between
the documentation and the code; most need a crash, a second process or Ctrl+C at one
particular moment.

1. `claim_planning`: an interruption before or during the first planning. The
   documentation says the run re-enters planning. R01 is still QUEUED, so the
   resume takes the run to REPLANNING, where `_replan` refuses to work without a
   Codex thread. The run cannot be resumed.
2. `claim_applied`: `add` while Codex answers a replan. `apply_replan` marks
   every QUEUED revision APPLIED, also one that was in no prompt.
3. `claim_retry`: after a crash the run is EXECUTING. Tasks are prepared for a
   retry only when a run is PAUSED or BLOCKED, so the first resume blocks and it
   takes a second to retry.
4. `claim_capture`: a crash after `capture` wrote the patch artifact and before
   READY_TO_INTEGRATE was recorded. The retry passes its review, but its patch differs from the
   artifact and is refused: INTEGRATION_BLOCKED, which no resume leaves.
5. `claim_stop`: Ctrl+C while Codex works in a visible console. The call ends, the
   host and Codex do not.

What the models show besides, without a run of its own; the rotations and the moved files depart from
the design and the implementation plan below `src/docs/superpowers`, for the rest there is no document to
measure it by:

* A resume that loads just before another controller captures a patch recovers
  from the loaded state, without that patch; a later replan supersedes the
  task. `add` between the check for QUEUED revisions and the resume it belongs
  to leaves the revision QUEUED in a COMPLETED run. (`Controller`)
* A process that dies between writing the temporary file and replacing
  `process.md` leaves the former in the working tree, where the digest sees it.
  (`ProcessStore`)
* A retry in a stale worktree that makes the very change of an accepted patch is
  "already applied" and accepted; the replay of the accepted patches, which has no such
  test, then fails in every new worktree (`CreateFails`). After a torn `git
  apply` recovery refuses the patch each time (`RecoverConflict`) until someone
  repairs the tree. (`Integration`)
* Once the rotations of a task exceed the budget every further attempt fails at its
  first answer, complete or not. After as many incomplete answers as the budget allows
  rotations, the first rotation blocks. The design has a task that needs more than three rotations
  BLOCKED (sections 9 and 12), the plan at most three per task (Task 08.5). The task is BLOCKED, but
  a resume takes it up again if it has an attempt left, and since its last session was rotated
  (`controller.py:642-644`) opens another fresh one. (`TaskExecution`)
* `capture` lists changes by `git diff --name-only`, which follows moves: a file moved out of the scope of
  another task passes the scope check, and its deletion is part of the patch. The design (section 4.5,
  step 2) asks that the changed paths be within `writeScopes`. Two tasks of one wave can conflict in
  this way. (`Integration`)
* A crash after the last integration and before SCHEDULING leaves the run EXECUTING. After the
  recovery the final review is asked for, but EXECUTING cannot become COMPLETED
  (`controller.py:907`): the run is BLOCKED, and the next resume reviews it again. (`Controller`)
* `Stuck` and the outcomes "untyped", "broken" and "abandoned" of a call: a prompt nobody reads is
  written outside the timeout; a line longer than the reader takes and a pipe that breaks under the
  prompt are errors the adapters do not retry and the controller does not record. A child that breaks the
  pipe by closing its stdin runs on, as does one whose call is cancelled under the prompt or
  within `_stop`: a second Ctrl+C, or a wave cancelled in the grace period after a timeout. An answer of Claude
  that is refused, or a host that reports an error, leaves the console open. A descendant
  that keeps a stream open outlives `_stop` if the child itself is gone. (`SubprocessRunner`)

## 6. Not modelled, and why

* **`start` on top of an older run**, and `ProcessStore.create` and `archive`,
  which only `start` calls: `Init` is the run it has just created. The hazard of a
  crash between archive and unlink is listed; it needs a model of several runs in one
  directory, which shares nothing with those here.
* **Plan and replan invocations.** One step of `Controller` each. They go through
  `CodexAdapter._invoke` like a review but alone, with a file of their own.
* **The user.** Edits of the tree, the worktrees or the artifacts during a run are not
  modelled: `_validate_resume_artifacts` and the digests refuse them. An agent whose
  controller died goes on only in so far as it writes the review file
  (`LeftoverWrites`); that it also edits its worktree is not modelled.
* **Overlapping controllers** are in `Controller` only; `Integration`,
  `TaskExecution` and `SubprocessRunner` have one.
* **Rare ends of store calls.** A lock that is not obtained in time while a task is marked BLOCKED has
  `_mark_task_blocked` try INTEGRATION_BLOCKED instead, since a `LockError` is a `StateError`
  (`controller.py:832-835`); `IntegrateBlocked` leaves that out, and no property depends on which of the two it
  is. `save` raises the generation in the state of its caller before the write
  (`process_store.py:91-93`); `ProcessStore` has callers that keep their `expected_generation`
  apart from it. The program itself calls `save` nowhere.
* **Pump threads of the host** do not fail, not even where the console refuses a character, and stderr is like stdout. That a log cut at
  `maxOutputBytes` ends in a line that is not JSON is in `Read`; that it may lose the
  last event instead is an answer without a result event, which `TaskExecution` has among the
  errors of Claude.
* **Verifier, git inspector.** One step that passes or fails; the digest of a tree
  is the tree itself, so hash collisions are ignored, and untracked files a review
  does not see (`diff_binary` leaves them out) are not told apart.
* **Command line, rendering, configuration, rules, prompts, redaction,
  environment and command policy.** Pure functions over text.

## 7. Plan

Done: the modules above, in the order `Controller`, `ProcessStore`, `Scheduler`,
`Integration`, `TaskExecution`, `SubprocessRunner`, and their proofs; the theorems of `Controller`
for overlapping controllers; the progress of every step of a run and of a wave; what `Controller` assumes of
`Scheduler`, `TaskExecution` and `Integration`. Left:

1. `RunLifecycle`: `start`, `archive`, `create`, `add` and crashes between them.
2. What a run with an outdated snapshot still guarantees of the patches it overlooks, beyond
   that nothing accepted is lost.
