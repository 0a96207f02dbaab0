----------------------------- MODULE Controller -----------------------------
(***************************************************************************)
(* One run of codex-claude: the durable state in process.md, the main      *)
(* working tree, the controller processes that advance the run (`run` and  *)
(* `resume`), the worker coroutines of the current wave, and the `add`     *)
(* command that appends requirements beside them.                          *)
(*                                                                         *)
(* Every load of process.md and every locked update is a step of its own,  *)
(* because another process may commit between any two of them.  What one   *)
(* process does between two awaits or two store calls is one step.  That   *)
(* an update is one step is what ProcessStore shows; which waves the       *)
(* scheduler may choose is what Scheduler shows.                           *)
(*                                                                         *)
(* Abstracted: what agents write (a task's patch is the task's id, a tree  *)
(* is the set of patches it contains), sessions and continuations of       *)
(* Claude, and the git commands behind a patch, whose application is one   *)
(* atomic step here.  The temporary file of a crashed write, which would   *)
(* also count as a change of the tree, is left to ProcessStore.            *)
(*                                                                         *)
(* An operator X_Y is a mutant of X, the code with a plausible bug Y that   *)
(* a property must catch.  Next uses none of them.                         *)
(***************************************************************************)
EXTENDS Statuses, Waves, Descent, Integers, Sequences, FiniteSets

CONSTANTS
  TaskId,        \* task ids, as numbers so that sorting by id is <=
  InitialPlans,  \* plans Codex may answer to plan(): id -> depends_on
  Replans,       \* plans Codex may answer to replan()
  Clash,         \* pairs of ids Scheduler.compatible refuses to run together
  MaxWorkers,    \* RunConfig.max_workers
  MaxAttempts,   \* RunConfig.max_task_attempts
  Proc,          \* controller processes that may exist at one time
  Nobody,        \* the ownership lock is free
  MaxRevisions,  \* bound: requirement revisions, R01 included
  MaxLaunches    \* bound: controllers started over the life of the run

\* Plan.from_dict: tasks is non-empty and depends_on names tasks of the plan.
IsPlan(plan) == /\ DOMAIN plan # {}
                /\ DOMAIN plan \subseteq TaskId
                /\ plan \in [DOMAIN plan -> SUBSET DOMAIN plan]

ASSUME TaskIdAssumption   == TaskId \subseteq Nat /\ IsFiniteSet(TaskId)
ASSUME PlanAssumption     == \A plan \in InitialPlans \cup Replans : IsPlan(plan)
ASSUME ClashAssumption    == \A t, u \in TaskId : <<t, u>> \in Clash <=> <<u, t>> \in Clash
ASSUME ConfigAssumption   == MaxWorkers \in Nat \ {0} /\ MaxAttempts \in Nat \ {0}
ASSUME BoundAssumption    == MaxRevisions \in Nat \ {0} /\ MaxLaunches \in Nat
ASSUME NobodyAssumption   == Nobody \notin Proc

VARIABLES
  \* process.md
  status,    \* RunState.status
  revs,      \* status of each of RunState.revisions, in order
  thread,    \* codex_thread_id is not None
  st,        \* status of the first record with this id; "ABSENT" if none
  att,       \* its attempt counter
  deps,      \* depends_on of the last record with this id
  wt,        \* tasks with a worktree_path
  base,      \* patches the worktree of each of them started from
  dup,       \* ids a second, active PENDING record also carries
  accepted,  \* accepted_patch_ids
  digest,    \* working_tree_digest: the tree it was computed from
  \* the repository
  tree,      \* patches present in the main working tree
  \* the controllers
  owner,     \* holder of the repository ownership lock
  pc,        \* where the owner is
  wpc,       \* where the worker coroutine of each task of the wave is
  prompted,  \* revisions the owner put in the prompt Codex is answering
  phase,     \* each process: not running, before the lock, owner, after it
  snap,      \* patches each process saw pending when it loaded the state
  launches,  \* controllers launched so far (bound)
  \* the add command
  adder,     \* "idle", or "checked" between its check and its append
  \* history
  planned    \* revisions that were in the prompt of an applied plan

runVars   == <<status, revs, thread>>
taskVars  == <<st, att, deps, wt, base, dup>>
patchVars == <<accepted, digest, tree>>
ctlVars   == <<owner, pc, wpc, prompted, phase, snap, launches>>
vars      == <<runVars, taskVars, patchVars, ctlVars, adder, planned>>

AwaitingCodex == {"plan_call", "replan_call", "finalize"}
OwnerAt       == {"recover", "recovered", "load", "plan_enter", "replan_enter",
                  "to_replanning", "resume_tasks", "prepare", "wave",
                  "to_integrating", "integrate", "applied", "to_scheduling",
                  "block"} \cup AwaitingCodex
WorkerAt      == {"idle", "begin", "attempt", "claude", "verify", "review",
                  "accepted", "blocked"}
PhaseAt       == {"idle", "loaded", "owner", "pausing", "blocking"}

-----------------------------------------------------------------------------
(* The state as the code reads it.                                         *)

Completed == {t \in TaskId : st[t] = "COMPLETED"}

\* Accepted patches whose integration has not been recorded yet.
Pending == {t \in TaskId : st[t] \in {"READY_TO_INTEGRATE", "INTEGRATING"}}

\* Records not SUPERSEDED.  _task() finds the first record of an id, so of an
\* id in dup the controller lists the second record and touches the first.
Active == {t \in TaskId : st[t] \notin {"ABSENT", "SUPERSEDED"}} \cup dup

Ready_IgnoresDependencies ==
  {t \in TaskId : st[t] \in {"PENDING", "READY", "RETRYING"} \/ t \in dup}

Ready == {t \in TaskId :
            /\ st[t] \in {"PENDING", "READY", "RETRYING"} \/ t \in dup
            /\ deps[t] \subseteq Completed}

\* A result Scheduler.next_wave may return, over all orders of the task list.
IsWave(W) == IsWaveOf(W, Ready, Clash, MaxWorkers)

Queued == \E i \in DOMAIN revs : revs[i] = "QUEUED"

\* Worker outcomes gather() returned that are still to be integrated, and the
\* order the integration and the recovery loops take: sorted by id.
Outcomes      == {t \in TaskId : wpc[t] \in {"accepted", "blocked"}}
IsFirst(t, S) == t \in S /\ \A u \in S : t <= u

NoWorkers  == [t \in TaskId |-> "idle"]
AllApplied == [i \in 1..Len(revs) |-> "APPLIED"]

\* RunState.transition inside an update: a refused transition raises, so the
\* update commits nothing.
Transition(target) == CanRun(status, target) /\ status' = target

SetTask(t, target) == CanTask(st[t], target) /\ st' = [st EXCEPT ![t] = target]

-----------------------------------------------------------------------------
(* A controller starts, takes the ownership lock or is refused it.         *)

\* Controller.resume up to the lock (start has just created a PREPARING run
\* and reaches run() the same way): load, refuse a COMPLETED run, refuse a
\* tree that differs from the checkpoint unless an integration is pending.
\* The tasks to recover are taken from this load.  The tree is compared a while
\* after the load; since the tree and the digest only grow and the digest is
\* never ahead, a tree equal to the digest then was equal to it at the load.
Launch(p) ==
  /\ phase[p] = "idle"
  /\ launches < MaxLaunches
  /\ status # "COMPLETED"
  /\ tree = digest \/ Pending # {}
  /\ phase' = [phase EXCEPT ![p] = "loaded"]
  /\ snap' = [snap EXCEPT ![p] = Pending]
  /\ launches' = launches + 1
  /\ UNCHANGED <<runVars, taskVars, patchVars, owner, pc, wpc, prompted, adder, planned>>

Acquire(p) ==
  /\ phase[p] = "loaded"
  /\ owner = Nobody
  /\ owner' = p
  /\ pc' = "recover"
  /\ phase' = [phase EXCEPT ![p] = "owner"]
  /\ UNCHANGED <<runVars, taskVars, patchVars, wpc, prompted, snap, launches, adder, planned>>

\* FileLock with timeout 0 raises LockError, which run() turns into _block.
Refused(p) ==
  /\ phase[p] = "loaded"
  /\ owner # Nobody
  /\ phase' = [phase EXCEPT ![p] = "blocking"]
  /\ snap' = [snap EXCEPT ![p] = {}]
  /\ UNCHANGED <<runVars, taskVars, patchVars, owner, pc, wpc, prompted, launches, adder, planned>>

\* _pause and _block of run(): after the ownership lock is released.  An
\* illegal transition and a busy state lock are swallowed.
LateWrite(p, at, target) ==
  /\ phase[p] = at
  /\ phase' = [phase EXCEPT ![p] = "idle"]
  /\ \/ Transition(target)
     \/ status' = status
  /\ UNCHANGED <<revs, thread, taskVars, patchVars, owner, pc, wpc, prompted, snap,
                 launches, adder, planned>>

-----------------------------------------------------------------------------
(* Steps of the owner.  Step moves its program counter; Leave ends its run *)
(* and releases the ownership lock.                                        *)

Step(from, to) == /\ pc = from
                  /\ pc' = to
                  /\ UNCHANGED <<owner, phase, launches, adder>>

Leave_KeepsLock(next) == /\ owner' = owner
                         /\ pc' = "none"
                         /\ wpc' = NoWorkers
                         /\ prompted' = 0
                         /\ phase' = [phase EXCEPT ![owner] = next]
                         /\ snap' = [snap EXCEPT ![owner] = {}]
                         /\ UNCHANGED <<launches, adder, planned>>

Leave(next) == /\ owner' = Nobody
               /\ pc' = "none"
               /\ wpc' = NoWorkers
               /\ prompted' = 0
               /\ phase' = [phase EXCEPT ![owner] = next]
               /\ snap' = [snap EXCEPT ![owner] = {}]
               /\ UNCHANGED <<launches, adder, planned>>

Record_StaleDigest(t) == /\ st' = [st EXCEPT ![t] = "COMPLETED"]
                         /\ wt' = wt \ {t}
                         /\ accepted' = accepted \cup {t}
                         /\ UNCHANGED <<att, deps, base, dup, digest, tree>>

\* Recording an integrated patch: the record, accepted_patch_ids and the
\* digest of the tree as it is now, in one update.
Record(t) == /\ st' = [st EXCEPT ![t] = "COMPLETED"]
             /\ wt' = wt \ {t}
             /\ accepted' = accepted \cup {t}
             /\ digest' = tree
             /\ UNCHANGED <<att, deps, base, dup, tree>>

\* _recover_if_needed: apply skips a patch that is already in the tree.
RecoverApply(t) ==
  /\ Step("recover", "recovered")
  /\ IsFirst(t, snap[owner])
  /\ tree' = tree \cup {t}
  /\ UNCHANGED <<runVars, taskVars, accepted, digest, wpc, prompted, snap, planned>>

RecoverMark_NotListed(t) ==
  /\ Step("recovered", "recover")
  /\ IsFirst(t, snap[owner])
  /\ st' = [st EXCEPT ![t] = "COMPLETED"]
  /\ digest' = tree
  /\ snap' = [snap EXCEPT ![owner] = @ \ {t}]
  /\ UNCHANGED <<runVars, att, deps, wt, base, dup, accepted, tree, wpc, prompted, planned>>

\* recovered() assigns COMPLETED without consulting the transition table.
RecoverMark(t) ==
  /\ Step("recovered", "recover")
  /\ IsFirst(t, snap[owner])
  /\ Record(t)
  /\ snap' = [snap EXCEPT ![owner] = @ \ {t}]
  /\ UNCHANGED <<runVars, wpc, prompted, planned>>

RecoverDone_Skipped ==
  /\ Step("recover", "load")
  /\ UNCHANGED <<runVars, taskVars, patchVars, wpc, prompted, snap, planned>>

RecoverDone ==
  /\ Step("recover", "load")
  /\ snap[owner] = {}
  /\ UNCHANGED <<runVars, taskVars, patchVars, wpc, prompted, snap, planned>>

-----------------------------------------------------------------------------
(* The loop of _run: load process.md and branch on what it says.           *)

LoadTo(to) == /\ Step("load", to)
              /\ prompted' = Len(revs)
              /\ UNCHANGED <<runVars, taskVars, patchVars, snap, planned>>

LoadUnplanned == /\ \/ status = "PREPARING" /\ LoadTo("plan_enter")
                    \/ status = "PLANNING" /\ LoadTo("plan_call")
                 /\ UNCHANGED wpc

\* _replan raises at once without a Codex thread.
LoadReplan == /\ \/ status = "REPLAN_PENDING" /\ LoadTo("replan_enter")
                 \/ status = "REPLANNING" /\ LoadTo("replan_call")
              /\ UNCHANGED wpc

LoadStopped == /\ status \in {"PAUSED", "BLOCKED"}
               /\ LoadTo(IF Queued THEN "to_replanning" ELSE "resume_tasks")
               /\ UNCHANGED wpc

LoadScheduled_SomeCompleted(W) ==
  /\ status \in {"SCHEDULING", "EXECUTING", "INTEGRATING", "COMPLETED"}
  /\ IF Completed # {}
     THEN W = {} /\ LoadTo("finalize")
     ELSE IsWave(W) /\ LoadTo(IF W = {} THEN "block" ELSE "prepare")
  /\ wpc' = [t \in TaskId |-> IF t \in W THEN "begin" ELSE "idle"]

LoadScheduled(W) ==
  /\ status \in {"SCHEDULING", "EXECUTING", "INTEGRATING", "COMPLETED"}
  /\ IF Active # {} /\ dup = {} /\ Active = Completed
     THEN W = {} /\ LoadTo("finalize")
     ELSE IsWave(W) /\ LoadTo(IF W = {} THEN "block" ELSE "prepare")
  /\ wpc' = [t \in TaskId |-> IF t \in W THEN "begin" ELSE "idle"]

Block_Continues ==
  /\ Step("block", "load")
  /\ \/ Transition("BLOCKED")
     \/ status' = status
  /\ UNCHANGED <<revs, thread, taskVars, patchVars, wpc, prompted, snap, planned>>

\* _block inside the loop: recorded under the ownership lock, exit code 2.
Block ==
  /\ pc = "block"
  /\ \/ Transition("BLOCKED")
     \/ status' = status
  /\ Leave("idle")
  /\ UNCHANGED <<revs, thread, taskVars, patchVars>>

-----------------------------------------------------------------------------
(* Planning and replanning.                                                *)

PlanEnter ==
  /\ Step("plan_enter", "plan_call")
  /\ Transition("PLANNING")
  /\ prompted' = Len(revs)
  /\ UNCHANGED <<revs, thread, taskVars, patchVars, wpc, snap, planned>>

\* apply_plan replaces the task list and marks every revision APPLIED.
PlanApply(plan) ==
  /\ Step("plan_call", "load")
  /\ Transition("SCHEDULING")
  /\ thread' = TRUE
  /\ revs' = AllApplied
  /\ st' = [t \in TaskId |-> IF t \in DOMAIN plan THEN "PENDING" ELSE "ABSENT"]
  /\ att' = [t \in TaskId |-> 0]
  /\ deps' = [t \in TaskId |-> IF t \in DOMAIN plan THEN plan[t] ELSE {}]
  /\ wt' = {}
  /\ base' = [t \in TaskId |-> {}]
  /\ dup' = {}
  /\ planned' = prompted
  /\ UNCHANGED <<patchVars, wpc, prompted, snap>>

ReplanEnter ==
  /\ Step("replan_enter", "replan_call")
  /\ thread
  /\ Transition("REPLANNING")
  /\ prompted' = Len(revs)
  /\ UNCHANGED <<revs, thread, taskVars, patchVars, wpc, snap, planned>>

ReplanApply_SupersedesAll(plan) ==
  /\ Step("replan_call", "load")
  /\ thread
  /\ Transition("SCHEDULING")
  /\ revs' = AllApplied
  /\ st' = [t \in TaskId |-> IF st[t] # "ABSENT" THEN "SUPERSEDED"
                             ELSE IF t \in DOMAIN plan THEN "PENDING" ELSE "ABSENT"]
  /\ dup' = {t \in DOMAIN plan : st[t] # "ABSENT"}
  /\ deps' = [t \in TaskId |-> IF t \in DOMAIN plan THEN plan[t] ELSE deps[t]]
  /\ planned' = prompted
  /\ UNCHANGED <<thread, att, wt, base, patchVars, wpc, prompted, snap>>

\* A plan that names a COMPLETED task is refused; every other old record is
\* SUPERSEDED and the new ones are appended, whether or not a superseded
\* record has the same id.  All QUEUED revisions become APPLIED.
ReplanApply(plan) ==
  /\ Step("replan_call", "load")
  /\ thread
  /\ DOMAIN plan \cap Completed = {}
  /\ Transition("SCHEDULING")
  /\ revs' = AllApplied
  /\ st' = [t \in TaskId |->
              CASE st[t] = "COMPLETED" -> "COMPLETED"
                [] st[t] = "ABSENT"    -> IF t \in DOMAIN plan THEN "PENDING" ELSE "ABSENT"
                [] OTHER               -> "SUPERSEDED"]
  /\ dup' = {t \in DOMAIN plan : st[t] # "ABSENT"}
  /\ deps' = [t \in TaskId |-> IF t \in DOMAIN plan THEN plan[t] ELSE deps[t]]
  /\ planned' = prompted
  /\ UNCHANGED <<thread, att, wt, base, patchVars, wpc, prompted, snap>>

\* A PAUSED or BLOCKED run with a queued revision, or a wave that ended with
\* REPLAN_PENDING: the safe boundary.
ToReplanning ==
  /\ Step("to_replanning", "load")
  /\ Transition("REPLANNING")
  /\ UNCHANGED <<revs, thread, taskVars, patchVars, wpc, prompted, snap, planned>>

Resumable_AnyStarted(t) == /\ st[t] \notin {"ABSENT", "PENDING", "READY", "SUPERSEDED"}
                           /\ att[t] < MaxAttempts

Resumable(t) == /\ st[t] \in {"RUNNING", "VERIFYING", "REVIEWING", "BLOCKED"}
                /\ att[t] < MaxAttempts

\* _prepare_resumed_tasks does not look at the revisions again.
ResumeTasks ==
  /\ Step("resume_tasks", "load")
  /\ Transition("SCHEDULING")
  /\ st' = [t \in TaskId |-> IF Resumable(t) THEN "RETRYING" ELSE st[t]]
  /\ UNCHANGED <<revs, thread, att, deps, wt, base, dup, patchVars, wpc, prompted, snap, planned>>

-----------------------------------------------------------------------------
(* A wave: _execute_wave and the worker coroutines of _execute_task.       *)

Prepare ==
  /\ Step("prepare", "wave")
  /\ status' = IF status = "SCHEDULING" THEN "EXECUTING" ELSE status
  /\ st' = [t \in TaskId |->
              IF wpc[t] # "idle" /\ st[t] = "PENDING" THEN "READY" ELSE st[t]]
  /\ UNCHANGED <<revs, thread, att, deps, wt, base, dup, patchVars, wpc, prompted, snap, planned>>

\* A coroutine moves; what it may change is its own record.
Work(t, from, to) ==
  /\ pc = "wave"
  /\ wpc[t] = from
  /\ wpc' = [wpc EXCEPT ![t] = to]
  /\ UNCHANGED <<runVars, deps, dup, patchVars, owner, pc, prompted, phase, snap,
                 launches, adder, planned>>

Begin_FromInitialHead(t) ==
  /\ Work(t, "begin", "attempt")
  /\ wt' = wt \cup {t}
  /\ base' = [base EXCEPT ![t] = IF t \in wt THEN @ ELSE {}]
  /\ UNCHANGED <<st, att>>

\* _existing_or_new_worktree: a remembered worktree is used as it is, a new
\* one starts from the initial HEAD plus every accepted patch.
Begin(t) ==
  /\ Work(t, "begin", "attempt")
  /\ wt' = wt \cup {t}
  /\ base' = [base EXCEPT ![t] = IF t \in wt THEN @ ELSE accepted]
  /\ UNCHANGED <<st, att>>

StartAttempt(t) ==
  /\ att[t] < MaxAttempts
  /\ Work(t, "attempt", "claude")
  /\ att' = [att EXCEPT ![t] = @ + 1]
  /\ st' = IF st[t] \in {"READY", "RETRYING"} THEN [st EXCEPT ![t] = "RUNNING"] ELSE st
  /\ UNCHANGED <<wt, base>>

AttemptsExhausted(t) ==
  /\ att[t] >= MaxAttempts
  /\ Work(t, "attempt", "blocked")
  /\ UNCHANGED <<st, att, wt, base>>

\* Claude reaches the end of the task; or it fails, wants another scope or
\* exhausts its sessions, and the outcome is blocked with the status as it is.
ClaudeCompletes(t) ==
  /\ Work(t, "claude", "verify")
  /\ SetTask(t, "VERIFYING")
  /\ UNCHANGED <<att, wt, base>>

ClaudeStops(t) ==
  /\ Work(t, "claude", "blocked")
  /\ UNCHANGED <<st, att, wt, base>>

Verify(t) ==
  /\ Work(t, "verify", "review")
  /\ SetTask(t, "REVIEWING")
  /\ UNCHANGED <<att, wt, base>>

\* PASS and verified: capture the patch.
ReviewPasses(t) ==
  /\ Work(t, "review", "accepted")
  /\ SetTask(t, "READY_TO_INTEGRATE")
  /\ UNCHANGED <<att, wt, base>>

CaptureFails(t) ==
  /\ Work(t, "review", "blocked")
  /\ SetTask(t, "INTEGRATION_BLOCKED")
  /\ UNCHANGED <<att, wt, base>>

\* Verdict BLOCKED, or another attempt is wanted and none is left.
ReviewBlocks(t) ==
  /\ Work(t, "review", "blocked")
  /\ UNCHANGED <<st, att, wt, base>>

ReviewRetries(t) ==
  /\ att[t] < MaxAttempts
  /\ Work(t, "review", "attempt")
  /\ SetTask(t, "RETRYING")
  /\ UNCHANGED <<att, wt, base>>

Worker(t) == \/ Begin(t) \/ StartAttempt(t) \/ AttemptsExhausted(t)
             \/ ClaudeCompletes(t) \/ ClaudeStops(t) \/ Verify(t)
             \/ ReviewPasses(t) \/ CaptureFails(t) \/ ReviewBlocks(t) \/ ReviewRetries(t)

\* gather() returns when every coroutine has; then the state is loaded.
Gather ==
  /\ Step("wave", IF status = "EXECUTING" THEN "to_integrating" ELSE "integrate")
  /\ \A t \in TaskId : wpc[t] \in {"idle", "accepted", "blocked"}
  /\ UNCHANGED <<runVars, taskVars, patchVars, wpc, prompted, snap, planned>>

ToIntegrating ==
  /\ Step("to_integrating", "integrate")
  /\ Transition("INTEGRATING")
  /\ UNCHANGED <<revs, thread, taskVars, patchVars, wpc, prompted, snap, planned>>

IntegrateApply(t) ==
  /\ Step("integrate", "applied")
  /\ IsFirst(t, Outcomes)
  /\ wpc[t] = "accepted"
  /\ tree' = tree \cup {t}
  /\ UNCHANGED <<runVars, taskVars, accepted, digest, wpc, prompted, snap, planned>>

Handled(t) == wpc' = [wpc EXCEPT ![t] = "idle"]

\* _mark_integrated: INTEGRATING and COMPLETED in one update.
IntegrateMark(t) ==
  /\ Step("applied", "integrate")
  /\ IsFirst(t, Outcomes)
  /\ CanTask(st[t], "INTEGRATING")
  /\ Record(t)
  /\ Handled(t)
  /\ UNCHANGED <<runVars, prompted, snap, planned>>

IntegrateConflict_Retries(t) ==
  /\ Step("integrate", "integrate")
  /\ IsFirst(t, Outcomes)
  /\ wpc[t] = "accepted" /\ t \notin tree
  /\ st' = [st EXCEPT ![t] = "RETRYING"]
  /\ Handled(t)
  /\ UNCHANGED <<runVars, att, deps, wt, base, dup, patchVars, prompted, snap, planned>>

\* git refuses the patch; one already in the tree is never refused.
IntegrateConflict(t) ==
  /\ Step("integrate", "integrate")
  /\ IsFirst(t, Outcomes)
  /\ wpc[t] = "accepted" /\ t \notin tree
  /\ SetTask(t, "INTEGRATION_BLOCKED")
  /\ Handled(t)
  /\ UNCHANGED <<runVars, att, deps, wt, base, dup, patchVars, prompted, snap, planned>>

\* _mark_task_blocked: BLOCKED, else INTEGRATION_BLOCKED, else it raises.
IntegrateBlocked(t) ==
  /\ Step("integrate", "integrate")
  /\ IsFirst(t, Outcomes)
  /\ wpc[t] = "blocked"
  /\ \/ st[t] \in {"BLOCKED", "INTEGRATION_BLOCKED"} /\ UNCHANGED st
     \/ st[t] \notin {"BLOCKED", "INTEGRATION_BLOCKED"} /\ SetTask(t, "BLOCKED")
     \/ ~CanTask(st[t], "BLOCKED") /\ SetTask(t, "INTEGRATION_BLOCKED")
  /\ Handled(t)
  /\ UNCHANGED <<runVars, att, deps, wt, base, dup, patchVars, prompted, snap, planned>>

\* The wave is integrated: load, and decide what to write back.
WaveEnd ==
  /\ Outcomes = {}
  /\ Step("integrate", CASE status = "INTEGRATING"    -> "to_scheduling"
                         [] status = "REPLAN_PENDING" -> "to_replanning"
                         [] OTHER                     -> "load")
  /\ UNCHANGED <<runVars, taskVars, patchVars, wpc, prompted, snap, planned>>

ToScheduling ==
  /\ Step("to_scheduling", "load")
  /\ Transition("SCHEDULING")
  /\ UNCHANGED <<revs, thread, taskVars, patchVars, wpc, prompted, snap, planned>>

-----------------------------------------------------------------------------
(* _finalize: verification and review passed, or did not.                  *)

Complete ==
  /\ pc = "finalize"
  /\ status = "SCHEDULING" \/ CanRun(status, "COMPLETED")
  /\ status' = "COMPLETED"
  /\ digest' = tree
  /\ Leave("idle")
  /\ UNCHANGED <<revs, thread, taskVars, accepted, tree>>

FinalReviewFails ==
  /\ Step("finalize", "block")
  /\ UNCHANGED <<runVars, taskVars, patchVars, wpc, prompted, snap, planned>>

-----------------------------------------------------------------------------
(* How a run ends early.                                                   *)

\* Any OrchestratorError: a refused transition, a state lock busy for five
\* seconds, a git, agent or contract error, a conflict while recovering.  The
\* coroutines of the wave are cancelled with their siblings.
Raise == /\ pc # "none"
         /\ Leave("blocking")
         /\ UNCHANGED <<runVars, taskVars, patchVars>>

\* Ctrl+C cancels the main task at its next await.
Interrupt == /\ \/ pc \in {"plan_call", "finalize"}
                \/ pc = "replan_call" /\ thread
                \/ pc = "wave" /\ \E t \in TaskId : wpc[t] \in {"claude", "verify", "review"}
             /\ Leave("pausing")
             /\ UNCHANGED <<runVars, taskVars, patchVars>>

\* The process or the machine dies; the operating system frees its locks.
Crash(p) ==
  /\ phase[p] # "idle"
  /\ IF owner = p
     THEN Leave("idle")
     ELSE /\ phase' = [phase EXCEPT ![p] = "idle"]
          /\ snap' = [snap EXCEPT ![p] = {}]
          /\ UNCHANGED <<owner, pc, wpc, prompted, launches, adder, planned>>
  /\ UNCHANGED <<runVars, taskVars, patchVars>>

-----------------------------------------------------------------------------
(* add_requirement: the digest check outside the lock, then one update.    *)

AddCheck == /\ adder = "idle"
            /\ Len(revs) < MaxRevisions
            /\ digest = tree
            /\ adder' = "checked"
            /\ UNCHANGED <<runVars, taskVars, patchVars, ctlVars, planned>>

AddAppend == /\ adder = "checked"
             /\ revs' = Append(revs, "QUEUED")
             /\ Transition(CASE status = "COMPLETED" -> "REPLANNING"
                             [] status \in {"PAUSED", "BLOCKED", "REPLANNING"} -> status
                             [] OTHER -> "REPLAN_PENDING")
             /\ adder' = "idle"
             /\ UNCHANGED <<thread, taskVars, patchVars, ctlVars, planned>>

\* The command dies, or finds the state lock busy, between the two.
AddGivesUp == /\ adder = "checked"
              /\ adder' = "idle"
              /\ UNCHANGED <<runVars, taskVars, patchVars, ctlVars, planned>>

-----------------------------------------------------------------------------

\* Controller.start has just created the run.
Init ==
  /\ status = "PREPARING" /\ revs = <<"QUEUED">> /\ thread = FALSE
  /\ st = [t \in TaskId |-> "ABSENT"]
  /\ att = [t \in TaskId |-> 0]
  /\ deps = [t \in TaskId |-> {}]
  /\ wt = {}
  /\ base = [t \in TaskId |-> {}]
  /\ dup = {} /\ accepted = {} /\ digest = {} /\ tree = {}
  /\ owner = Nobody /\ pc = "none" /\ wpc = NoWorkers /\ prompted = 0
  /\ phase = [p \in Proc |-> "idle"]
  /\ snap = [p \in Proc |-> {}]
  /\ launches = 0 /\ adder = "idle" /\ planned = 0

Recovery    == RecoverDone \/ \E t \in TaskId : RecoverApply(t) \/ RecoverMark(t)
Load        == \/ LoadUnplanned \/ LoadReplan \/ LoadStopped
               \/ \E W \in SUBSET TaskId : LoadScheduled(W)
Planning    == \/ PlanEnter \/ \E plan \in InitialPlans : PlanApply(plan)
               \/ ReplanEnter \/ \E plan \in Replans : ReplanApply(plan)
               \/ ToReplanning \/ ResumeTasks
Wave        == Prepare \/ Gather \/ \E t \in TaskId : Worker(t)
Integration == \/ ToIntegrating \/ WaveEnd \/ ToScheduling
               \/ \E t \in TaskId : \/ IntegrateApply(t) \/ IntegrateMark(t)
                                    \/ IntegrateConflict(t) \/ IntegrateBlocked(t)
Ending      == Complete \/ FinalReviewFails \/ Block

\* The owner at work; every step of it may raise instead.
OwnerStep   == Recovery \/ Load \/ Planning \/ Wave \/ Integration \/ Ending \/ Raise

Before(p)   == Acquire(p) \/ Refused(p)
After(p)    == LateWrite(p, "pausing", "PAUSED") \/ LateWrite(p, "blocking", "BLOCKED")
Add         == AddCheck \/ AddAppend \/ AddGivesUp

Next == \/ OwnerStep
        \/ Interrupt
        \/ \E p \in Proc : Launch(p) \/ Before(p) \/ After(p) \/ Crash(p)
        \/ Add

\* The owner waits for codex, claude and verification subprocesses and for the
\* state lock, each with a timeout, so its next step is eventually taken; so
\* are the two lock attempts around it.  Assumed: git commands return, and a
\* child reads the prompt it is sent (SubprocessRunner.run writes it before
\* its timeout starts).  Nothing obliges anyone to launch, interrupt or add.
Fairness == /\ WF_vars(OwnerStep)
            /\ \A p \in Proc : WF_vars(Before(p)) /\ WF_vars(After(p))

Spec     == Init /\ [][Next]_vars
FairSpec == Spec /\ Fairness

\* The assumption of the code: resume() takes the tasks to recover from the
\* state it loaded before it had the ownership lock and does not look again.  So
\* whoever takes the lock must still know the pending patches, which nothing
\* ensures when controllers overlap.  FreshSpec are the runs where it holds.
FreshAcquire(p) == snap[p] = Pending /\ Acquire(p)

FreshNext == \/ OwnerStep
             \/ Interrupt
             \/ \E p \in Proc : \/ Launch(p) \/ FreshAcquire(p) \/ Refused(p)
                                \/ After(p) \/ Crash(p)
             \/ Add

FreshSpec == Init /\ [][FreshNext]_vars

-----------------------------------------------------------------------------

\* Types, and the values the bounds allow.
TypeOK ==
  /\ status \in RunStatus
  /\ revs \in Seq(RevisionStatus)
  /\ thread \in BOOLEAN
  /\ st \in [TaskId -> TaskStatus \cup {"ABSENT"}]
  /\ att \in [TaskId -> Nat]
  /\ deps \in [TaskId -> SUBSET TaskId]
  /\ base \in [TaskId -> SUBSET TaskId]
  /\ wt \subseteq TaskId /\ dup \subseteq TaskId
  /\ accepted \subseteq TaskId /\ digest \subseteq TaskId /\ tree \subseteq TaskId
  /\ owner \in Proc \cup {Nobody}
  /\ pc \in OwnerAt \cup {"none"}
  /\ pc = "none" <=> owner = Nobody
  /\ wpc \in [TaskId -> WorkerAt]
  /\ prompted \in Nat /\ planned \in Nat
  /\ phase \in [Proc -> PhaseAt]
  /\ \A p \in Proc : phase[p] = "owner" <=> owner = p
  /\ snap \in [Proc -> SUBSET TaskId]
  /\ launches \in Nat
  /\ adder \in {"idle", "checked"}

\* A task is COMPLETED exactly when its patch is listed as accepted, and then
\* the patch is in the main tree and in the recorded digest: whatever the
\* controllers, crashes and recoveries in between, nothing is reported done
\* whose code is not there (_mark_integrated, recovered).
AcceptedExactly == /\ accepted = Completed
                   /\ accepted \subseteq digest \cap tree

\* The tree never runs behind the checkpoint, and what it has beyond the
\* checkpoint is a patch whose task is recorded as pending, so that resume
\* lets the run through and recovers it instead of refusing the tree
\* (_validate_resume_artifacts, _recover_if_needed).
CheckpointRecoverable == /\ digest \subseteq tree
                         /\ tree \ digest \subseteq Pending

\* A task leaves PENDING only after every task it depends on is COMPLETED,
\* also across replans and restarts (Scheduler.ready, _execute_wave).
DependencyOrder ==
  \A t \in TaskId :
    st[t] \notin {"ABSENT", "PENDING", "SUPERSEDED"} => deps[t] \subseteq Completed

\* A worker that runs, is verified or is reviewed works in a tree that has the
\* patches of its dependencies, also when it reuses the worktree of an attempt
\* before a restart (_existing_or_new_worktree).
WorktreeHasDependencies ==
  \A t \in TaskId :
    st[t] \in {"RUNNING", "VERIFYING", "REVIEWING", "READY_TO_INTEGRATE"} =>
      t \in wt /\ deps[t] \subseteq base[t]

\* Replanning happens at a safe boundary: no worker is in flight and no patch
\* that passed its review is waiting, so superseding throws none away
\* (_run, _execute_wave, apply_replan).
ReplanAtSafeBoundary ==
  pc \in {"replan_enter", "replan_call"} =>
    Pending = {} /\ \A t \in TaskId : wpc[t] = "idle"

\* A run is COMPLETED only when every task that is not superseded is, and the
\* checkpoint is the tree the final review saw (_finalize).
CompletedMeansDone ==
  status = "COMPLETED" => /\ Active = Completed /\ dup = {}
                          /\ digest = tree

\* An accepted task stays COMPLETED, accepted and in the tree for good:
\* replans, retries and recoveries never take it back.
CompletedPermanent ==
  [][\A t \in TaskId : st[t] = "COMPLETED" =>
       st'[t] = "COMPLETED" /\ t \in accepted' /\ t \in tree']_vars

\* What a run still has before it: launches and revisions; the controllers that
\* have not ended; the plan it needs; the tasks to recover, to start and to
\* integrate; the way round the loop; attempts and stages of the workers.
PhaseRank  == [idle |-> 0, pausing |-> 1, blocking |-> 1, owner |-> 2, loaded |-> 3]
Scheduled  == {"SCHEDULING", "EXECUTING", "INTEGRATING", "COMPLETED"}
LoopRank   == [recover |-> 12, recovered |-> 11, prepare |-> 10, wave |-> 9,
               to_integrating |-> 8, integrate |-> 7, applied |-> 6, to_scheduling |-> 5,
               load |-> 4, plan_enter |-> 3, replan_enter |-> 3, plan_call |-> 2,
               replan_call |-> 2, to_replanning |-> 2, resume_tasks |-> 2, finalize |-> 2,
               block |-> 1, none |-> 0]
WorkerRank == [idle |-> 0, accepted |-> 0, blocked |-> 0, attempt |-> 1, review |-> 2,
               verify |-> 3, claude |-> 4, begin |-> 5]
TaskRank(t) ==
  IF pc \in {"recover", "recovered"} /\ t \in snap[owner] THEN 3
  ELSE IF wpc[t] # "idle" THEN 1
  ELSE IF st[t] \in {"PENDING", "READY", "RETRYING"} \/ t \in dup THEN 2
  ELSE 0

BudgetAhead   == <<MaxLaunches - launches, MaxRevisions - Len(revs)>>
PhasesAhead   == [p \in Proc |-> PhaseRank[phase[p]]]
PlanAhead     == <<CASE status \in Scheduled                  -> 0
                     [] status \in {"PLANNING", "REPLANNING"} -> 1
                     [] OTHER                                 -> 2>>
TasksAhead    == [t \in TaskId |-> TaskRank(t)]
LoopAhead     == <<LoopRank[pc]>>
AttemptsAhead == [t \in TaskId |-> MaxAttempts - att[t]]
StagesAhead   == [t \in TaskId |-> WorkerRank[wpc[t]]]
RunRank == <<BudgetAhead, PhasesAhead, PlanAhead, TasksAhead, LoopAhead, AttemptsAhead,
             StagesAhead>>

\* Every step brings the run closer to the end of its controllers, but for an
\* `add` that only looks, which takes it no further away.  So the loop of _run
\* cannot go round for ever, whatever is planned, replanned, retried, refused
\* by git or written late by another controller: a turn is paid for by a task
\* that leaves the schedule for good, or by a plan, launch or requirement used
\* up (_run, _execute_wave, apply_replan, _prepare_resumed_tasks).
RunAdvances == [][IF adder' # adder /\ revs' = revs THEN RunRank' = RunRank
                  ELSE Closer(RunRank', RunRank)]_vars

\* A controller that was launched ends: the loop of _run cannot go round
\* for ever, whatever the agents answer and whatever is added meanwhile.
RunEnds == \A p \in Proc : phase[p] = "loaded" ~> phase[p] = "idle"

-----------------------------------------------------------------------------
(* Why the safety properties hold: the invariants the proofs use.          *)

\* No plan has been applied yet, or the owner is about to apply the first.
Unplanned == status \in {"PREPARING", "PLANNING"} \/ pc \in {"plan_enter", "plan_call"}

\* The patch about to be recorded is in the tree, and the first plan, which
\* replaces the task list, finds none to replace.
RecordingInv ==
  /\ AcceptedExactly
  /\ pc = "recovered" => \A t \in TaskId : IsFirst(t, snap[owner]) => t \in tree
  /\ pc = "applied" => \A t \in TaskId : IsFirst(t, Outcomes) => t \in tree
  /\ Unplanned => /\ \A t \in TaskId : st[t] = "ABSENT" /\ wpc[t] = "idle"
                  /\ \A p \in Proc : snap[p] = {}

\* Where workers can be while the owner is where it is.
WorkersInv ==
  /\ pc \notin {"prepare", "wave", "to_integrating", "integrate", "applied"} =>
       \A t \in TaskId : wpc[t] = "idle"
  /\ pc = "prepare" => \A t \in TaskId : wpc[t] \in {"idle", "begin"}
  /\ pc \in {"to_integrating", "integrate", "applied"} =>
       \A t \in TaskId : wpc[t] \in {"idle", "accepted", "blocked"}

\* As long as whoever takes the ownership lock has an up-to-date snapshot, the
\* pending patches are always accounted for: by the snapshot until recovery is
\* over, then by the wave, else there are none.
PendingInv ==
  /\ pc \in {"recover", "recovered"} => snap[owner] = Pending
  /\ pc \in {"wave", "to_integrating", "integrate", "applied"} =>
       Pending = {t \in TaskId : wpc[t] = "accepted"}
  /\ pc \notin {"none", "recover", "recovered", "wave", "to_integrating",
                "integrate", "applied"} => Pending = {}

\* A worker is only started on a task whose dependencies are done.
DependencyInv == /\ DependencyOrder
                 /\ \A t \in TaskId : wpc[t] # "idle" => deps[t] \subseteq Completed

\* What has a worktree, and that it suits the dependencies of the record; the
\* exception, a superseded record whose id a replan reuses, gets no further.
WorktreeInv ==
  \A t \in TaskId :
    /\ st[t] = "ABSENT" => t \notin wt /\ wpc[t] = "idle"
    /\ t \in dup => st[t] = "SUPERSEDED"
    /\ t \in wt /\ st[t] # "SUPERSEDED" => deps[t] \subseteq base[t]
    /\ wpc[t] \notin {"idle", "begin"} => t \in wt
    /\ st[t] \in {"RUNNING", "VERIFYING", "REVIEWING", "READY_TO_INTEGRATE"} => t \in wt

\* The final review is of a run that is done.  A controller that had loaded the
\* run before may still take the lock after it, and finds nothing to do.
DoneInv ==
  /\ CompletedMeansDone
  /\ status = "COMPLETED" => pc \in {"none", "recover", "load", "finalize", "block"}
  /\ pc = "finalize" => Active = Completed /\ dup = {}

\* Planning is only on its way in a run that needs it, a second record of an id
\* goes nowhere, and nothing is used beyond its bound.
LoopInv ==
  /\ pc \in {"plan_enter", "plan_call", "replan_enter", "replan_call", "resume_tasks"} =>
       status \notin Scheduled
  /\ pc = "to_replanning" => status \in {"PAUSED", "BLOCKED", "REPLAN_PENDING"}
  /\ \A t \in dup : st[t] \in {"SUPERSEDED", "COMPLETED"}
  /\ \A t \in TaskId : att[t] <= MaxAttempts
  /\ launches <= MaxLaunches
  /\ Len(revs) + (IF adder = "checked" THEN 1 ELSE 0) <= MaxRevisions

-----------------------------------------------------------------------------
(* What the documentation promises and the code does not do.               *)

\* "Before planning: it re-enters planning from the durable input artifact"
\* (docs/recovery.md): the controller never replans a run that has no plan.
PlanningIsReentered == pc \in {"replan_enter", "replan_call"} => thread

\* The revisions `add` queues are applied by replanning (README): a revision is
\* marked APPLIED only if it was in the prompt of the plan that was applied.
AppliedWasPlanned == \A i \in DOMAIN revs : revs[i] = "APPLIED" => i <= planned

\* "During Claude execution, verification, or review: it ... schedules a safe
\* retry if the task attempt budget remains" (docs/recovery.md): the loop does
\* not give up while such a task is left.
InterruptedIsRetried ==
  pc = "block" => \A t \in TaskId :
                    st[t] \in {"RUNNING", "VERIFYING", "REVIEWING"} => ~Resumable(t)

=============================================================================
