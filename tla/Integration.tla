---------------------------- MODULE Integration ----------------------------
(***************************************************************************)
(* Where the code of a task is: in its worktree, in the patch artifact     *)
(* captured from it, in the main working tree, and what process.md records *)
(* of it.  Controller has a patch in one piece and applied in one step;    *)
(* here a patch is what `git diff` finds and `git apply` matches, and the  *)
(* controller can die between any two side effects, or in one.             *)
(*                                                                         *)
(* A place is a piece of a file with the context git matches it by, and    *)
(* has a content; a tree gives each place its content.  A place that has   *)
(* Missing for its content is a file that is not there.                    *)
(*                                                                         *)
(* Abstracted: dependencies, replanning, `add` and overlapping controllers *)
(* (Controller), how an attempt is carried out (TaskExecution).  The user  *)
(* does not edit the tree or the artifacts.  git lets a file be moved      *)
(* unread, where the patch of the move here expects the content it had.    *)
(*                                                                         *)
(* An operator X_Y is a mutant of X, the code with a plausible bug Y that  *)
(* a property must catch.  Next uses none of them.                         *)
(***************************************************************************)
EXTENDS Positions, Sequences, Functions

CONSTANTS
  Task,         \* task ids, as numbers so that sorting by id is <=
  Place, Content,
  Missing,      \* the content of a place that is not there
  InitialHead,  \* the tree of initial_head
  WriteScopes,  \* the places each task may write
  Touches,      \* bound: the places Claude does write, in its scope or not
  MaxAttempts,  \* RunConfig.max_task_attempts
  NoPatch,      \* no patch recorded, no artifact on disk
  NoTask

ASSUME TaskAssumption  == Task \subseteq Nat /\ NoTask \notin Task /\ MaxAttempts \in Nat
ASSUME HeadAssumption  == InitialHead \in [Place -> Content] /\ Missing \in Content
ASSUME ScopeAssumption == {WriteScopes, Touches} \subseteq [Task -> SUBSET Place]

VARIABLES
  \* process.md
  st, att,     \* TaskRecord.status and attempt; RUNNING stands for VERIFYING
               \* and REVIEWING too, which are recovered in the same way
  patch,       \* TaskRecord.patch, with the content its sha256 stands for
  remembered,  \* tasks with a worktree_path
  accepted,    \* accepted_patch_ids
  digest,      \* working_tree_digest: the tree it was computed from
  \* the disk
  tree,        \* the main working tree
  dirs,        \* tasks whose remembered worktree exists
  base, work,  \* index and files of it
  artifact,    \* patches/<task>.patch
  \* the controller
  pc, wpc,     \* where it is, and where the worker of each task is
  mode, cur,   \* the loop over patches it is in, and the patch in hand
  begun        \* history: patches accepted when the wave began

recordVars == <<st, att, patch, remembered, accepted, digest>>
diskVars   == <<tree, dirs, base, work, artifact>>
ctlVars    == <<pc, wpc, mode, cur, begun>>
vars       == <<recordVars, diskVars, ctlVars>>

-----------------------------------------------------------------------------
(* Patches.                                                                *)

Tree  == [Place -> Content]
IsPatch(q) == \E S \in (SUBSET Place) \ {{}} :
                   /\ q \in [old : [S -> Content], new : [S -> Content]]
                   /\ \A p \in S : q.old[p] # q.new[p]
ASSUME PatchAssumption == ~IsPatch(NoPatch)
Places(q) == DOMAIN q.new

\* git apply --check, and the reverse check of is_already_applied.
Applies(q, tr)   == \A p \in Places(q) : tr[p] = q.old[p]
AppliedIn(q, tr) == \A p \in Places(q) : tr[p] = q.new[p]

\* git apply, of the places in S only.
Write(q, S, tr)  == [p \in Place |-> IF p \in S THEN q.new[p] ELSE tr[p]]
ApplyTo(q, tr)   == Write(q, Places(q), tr)

\* The tree the first n accepted patches, applied one after the other, make of
\* the initial HEAD: a place is as the last of them that touches it left it.
Touching(p, n) == {i \in 1..n : p \in Places(patch[accepted[i]])}
Checkpoint(n)  ==
  [p \in Place |->
     IF Touching(p, n) = {} THEN InitialHead[p]
     ELSE patch[accepted[LastOf(Touching(p, n))]].new[p]]
Replayed == Checkpoint(Len(accepted))

\* Whether git takes each of them (WorktreeManager.create).
ReplaysCleanly == \A i \in DOMAIN accepted :
                    Applies(patch[accepted[i]], Checkpoint(i - 1))

Changed_Listed(t) == IF work[t] = base[t] THEN {} ELSE Place

\* `git diff` in a worktree, whose index is what it was created with.
Changed(t) == {p \in Place : work[t][p] # base[t][p]}
PatchOf(t) == [old |-> [p \in Changed(t) |-> base[t][p]],
               new |-> [p \in Changed(t) |-> work[t][p]]]

Pending   == {t \in Task : st[t] \in {"READY_TO_INTEGRATE", "INTEGRATING"}}
Outcomes  == {t \in Task : wpc[t] \in {"accepted", "blocked"}}
Todo      == IF mode = "recover" THEN Pending ELSE Outcomes
IsFirst(t, S) == t \in S /\ \A u \in S : t <= u
NoWorkers == [t \in Task |-> "idle"]

-----------------------------------------------------------------------------
(* Start and end of a controller.                                          *)

\* _validate_resume_artifacts, then the ownership lock.
Resume ==
  /\ pc = "down"
  /\ \A t \in Task : patch[t] # NoPatch => artifact[t] = patch[t]
  /\ tree = digest \/ Pending # {}
  /\ pc' = "loop" /\ mode' = "recover"
  /\ UNCHANGED <<recordVars, diskVars, wpc, cur, begun>>

Down == /\ pc' = "down" /\ wpc' = NoWorkers /\ mode' = "none" /\ cur' = NoTask
        /\ begun' = 0
        /\ UNCHANGED <<st, att, patch, remembered, accepted, digest>>

\* It dies, or an error or Ctrl+C ends it.
Ends == /\ pc \notin {"down", "done"}
        /\ Down
        /\ UNCHANGED diskVars

-----------------------------------------------------------------------------
(* The loop of _run.                                                       *)

\* Recovery is over.  A run recorded PAUSED or BLOCKED, which is Controller's
\* matter, goes through _prepare_resumed_tasks before it is scheduled.
Recovered == /\ pc = "loop" /\ mode = "recover" /\ Todo = {}
             /\ pc' = "load" /\ mode' = "none"
             /\ UNCHANGED <<att, patch, remembered, accepted, digest, diskVars,
                            wpc, cur, begun>>

RecoverDone == Recovered /\ UNCHANGED st

ResumeTasks ==
  /\ Recovered
  /\ st' = [t \in Task |-> IF /\ st[t] \in {"RUNNING", "BLOCKED"}
                              /\ att[t] < MaxAttempts
                           THEN "RETRYING" ELSE st[t]]

Runnable == {t \in Task : st[t] \in {"PENDING", "READY", "RETRYING"}}

\* A wave: tasks whose scopes do not overlap (Scheduler.compatible).
StartWave(W) ==
  /\ pc = "load"
  /\ W # {} /\ W \subseteq Runnable
  /\ \A t, u \in W : t # u => WriteScopes[t] \cap WriteScopes[u] = {}
  /\ pc' = "wave"
  /\ wpc' = [t \in Task |-> IF t \in W THEN "begin" ELSE "idle"]
  /\ begun' = Len(accepted)
  /\ st' = [t \in Task |-> IF t \in W /\ st[t] = "PENDING" THEN "READY" ELSE st[t]]
  /\ UNCHANGED <<att, patch, remembered, accepted, digest, diskVars, mode, cur>>

\* Nothing is runnable: the run is COMPLETED, or BLOCKED.
Finish ==
  /\ pc = "load" /\ Runnable = {}
  /\ IF \A t \in Task : st[t] = "COMPLETED"
     THEN /\ pc' = "done"
          /\ UNCHANGED <<recordVars, wpc, mode, cur, begun>>
     ELSE Down
  /\ UNCHANGED diskVars

-----------------------------------------------------------------------------
(* The workers.                                                            *)

Work(t, from, to) == /\ pc = "wave" /\ wpc[t] = from
                     /\ wpc' = [wpc EXCEPT ![t] = to]
                     /\ UNCHANGED <<accepted, digest, tree, pc, mode, cur, begun>>

SetTask(t, status) == st' = [st EXCEPT ![t] = status]

HasWorktree(t) == t \in remembered /\ t \in dirs

\* _existing_or_new_worktree.  A new worktree has the accepted patches in its
\* index; one that could not be completed is removed, one that could not be
\* remembered is never looked for again.
Reuse(t) == /\ HasWorktree(t)
            /\ Work(t, "begin", "attempt")
            /\ UNCHANGED <<st, att, patch, remembered, dirs, base, work, artifact>>

Create_Always(t) ==
  /\ ReplaysCleanly
  /\ Work(t, "begin", "attempt")
  /\ base' = [base EXCEPT ![t] = Replayed]
  /\ work' = [work EXCEPT ![t] = Replayed]
  /\ remembered' = remembered \cup {t} /\ dirs' = dirs \cup {t}
  /\ UNCHANGED <<st, att, patch, artifact>>

Create(t) ==
  /\ ~HasWorktree(t)
  /\ ReplaysCleanly
  /\ Work(t, "begin", "attempt")
  /\ base' = [base EXCEPT ![t] = Replayed]
  /\ work' = [work EXCEPT ![t] = Replayed]
  /\ remembered' = remembered \cup {t} /\ dirs' = dirs \cup {t}
  /\ UNCHANGED <<st, att, patch, artifact>>

\* git refuses an accepted patch: GitError, which ends the whole wave.
CreateFails(t) ==
  /\ pc = "wave" /\ wpc[t] = "begin"
  /\ ~HasWorktree(t) /\ ~ReplaysCleanly
  /\ Down
  /\ UNCHANGED diskVars

\* The exhausted budget is not met here: only tasks with an attempt left are
\* resumed, and no id is planned twice.
StartAttempt(t) ==
  /\ att[t] < MaxAttempts
  /\ Work(t, "attempt", "claude")
  /\ SetTask(t, "RUNNING")
  /\ att' = [att EXCEPT ![t] = @ + 1]
  /\ UNCHANGED <<patch, remembered, dirs, base, work, artifact>>

\* Claude edits files, in its scope or not, and may stop or be stopped at any
\* point; it may also undo what an earlier attempt did.
ClaudeEdits(t, p, c) ==
  /\ Work(t, "claude", "claude")
  /\ work' = [work EXCEPT ![t][p] = c]
  /\ UNCHANGED <<st, att, patch, remembered, dirs, base, artifact>>

ClaudeCompletes(t) ==
  /\ Work(t, "claude", "review")
  /\ UNCHANGED <<st, att, patch, remembered, dirs, base, work, artifact>>

ClaudeStops(t) ==
  /\ Work(t, "claude", "blocked")
  /\ UNCHANGED <<st, att, patch, remembered, dirs, base, work, artifact>>

ReviewRetries(t) ==
  /\ att[t] < MaxAttempts
  /\ Work(t, "review", "attempt")
  /\ SetTask(t, "RETRYING")
  /\ UNCHANGED <<att, patch, remembered, dirs, base, work, artifact>>

ReviewBlocks(t) ==
  /\ Work(t, "review", "blocked")
  /\ UNCHANGED <<st, att, patch, remembered, dirs, base, work, artifact>>

\* `git diff --name-only` shows a move by its destination: of the files that
\* are gone, those git takes for moved to files that are new are not listed.
\* Which are alike enough for that is open.
Gone(t)     == {p \in Changed(t) : work[t][p] = Missing}
New(t)      == {p \in Changed(t) : base[t][p] = Missing}
Unlisted(t) == {S \in SUBSET Gone(t) : \E to \in [S -> New(t)] : IsInjective(to)}
Listings(t) == {Changed(t) \ S : S \in Unlisted(t)}

\* Some change, and none out of scope, as far as the listing tells.
Permits(t, listed) == listed # {} /\ listed \subseteq WriteScopes[t]

InScope_Unchecked(t) == Changed(t) # {}

InScope(t) == \E listed \in Listings(t) : Permits(t, listed)

Capture_TrustsExisting(t) ==
  /\ InScope(t)
  /\ Work(t, "review", "captured")
  /\ artifact' = [artifact EXCEPT ![t] = IF @ = NoPatch THEN PatchOf(t) ELSE @]
  /\ UNCHANGED <<st, att, patch, remembered, dirs, base, work>>

\* PASS and verified: capture writes the artifact, or finds it written.
Capture(t) ==
  /\ InScope(t) /\ artifact[t] \in {NoPatch, PatchOf(t)}
  /\ Work(t, "review", "captured")
  /\ artifact' = [artifact EXCEPT ![t] = PatchOf(t)]
  /\ UNCHANGED <<st, att, patch, remembered, dirs, base, work>>

\* No change, a change out of scope, or an artifact with other content.
CaptureRefuses(t) ==
  /\ \/ \E listed \in Listings(t) : ~Permits(t, listed)
     \/ artifact[t] \notin {NoPatch, PatchOf(t)}
  /\ Work(t, "review", "blocked")
  /\ SetTask(t, "INTEGRATION_BLOCKED")
  /\ UNCHANGED <<att, patch, remembered, dirs, base, work, artifact>>

\* The record of the captured patch.
Ready(t) ==
  /\ Work(t, "captured", "accepted")
  /\ SetTask(t, "READY_TO_INTEGRATE")
  /\ patch' = [patch EXCEPT ![t] = PatchOf(t)]
  /\ UNCHANGED <<att, remembered, dirs, base, work, artifact>>

Gather ==
  /\ pc = "wave"
  /\ \A t \in Task : wpc[t] \in {"idle", "accepted", "blocked"}
  /\ pc' = "loop" /\ mode' = "integrate"
  /\ UNCHANGED <<recordVars, diskVars, wpc, cur, begun>>

-----------------------------------------------------------------------------
(* Patches into the main tree: _recover_if_needed over the pending tasks,  *)
(* _execute_wave over the outcomes, in the order of their ids.             *)

\* The patch the loop takes next.
InHand(t) == /\ pc = "loop" /\ IsFirst(t, Todo)
             /\ mode = "integrate" => wpc[t] = "accepted"

Fits_Unchecked(t) == TRUE

Fits(t) == AppliedIn(patch[t], tree) \/ Applies(patch[t], tree)

\* PatchIntegrator.apply: nothing to do if the patch is there already.
Apply(t) ==
  /\ InHand(t) /\ Fits(t)
  /\ tree' = ApplyTo(patch[t], tree)
  /\ pc' = "applied" /\ cur' = t
  /\ UNCHANGED <<recordVars, dirs, base, work, artifact, wpc, mode, begun>>

\* The machine dies while git writes the files of the patch.
ApplyTorn(t, S) ==
  /\ InHand(t) /\ Applies(patch[t], tree)
  /\ S \subseteq Places(patch[t])
  /\ tree' = Write(patch[t], S, tree)
  /\ Down
  /\ UNCHANGED <<dirs, base, work, artifact>>

\* IntegrationError: during recovery it ends the controller.
RecoverConflict(t) ==
  /\ InHand(t) /\ ~Fits(t) /\ mode = "recover"
  /\ Down
  /\ UNCHANGED diskVars

Forget(t) == /\ remembered' = remembered \ {t} /\ dirs' = dirs \ {t}
             /\ base' = [base EXCEPT ![t] = InitialHead]
             /\ work' = [work EXCEPT ![t] = InitialHead]

Handled(t) == wpc' = [wpc EXCEPT ![t] = "idle"]

IntegrateConflict(t) ==
  /\ InHand(t) /\ ~Fits(t) /\ mode = "integrate"
  /\ SetTask(t, "INTEGRATION_BLOCKED") /\ Handled(t)
  /\ UNCHANGED <<att, patch, remembered, accepted, digest, diskVars,
                 pc, mode, cur, begun>>

\* _mark_task_blocked.
OutcomeBlocked(t) ==
  /\ pc = "loop" /\ mode = "integrate"
  /\ IsFirst(t, Todo) /\ wpc[t] = "blocked"
  /\ SetTask(t, IF st[t] = "INTEGRATION_BLOCKED" THEN st[t] ELSE "BLOCKED")
  /\ Handled(t)
  /\ UNCHANGED <<att, patch, remembered, accepted, digest, diskVars,
                 pc, mode, cur, begun>>

Mark_KeepsDigest ==
  /\ pc = "applied"
  /\ SetTask(cur, "COMPLETED")
  /\ accepted' = IF cur \in Range(accepted) THEN accepted ELSE Append(accepted, cur)
  /\ Forget(cur)
  /\ Handled(cur)
  /\ pc' = "loop" /\ cur' = NoTask
  /\ UNCHANGED <<att, patch, digest, tree, artifact, mode, begun>>

\* recovered and _mark_integrated: one update.  The worktree is removed after
\* it, or, if the controller ends first, left behind with nobody to look for it.
Mark ==
  /\ pc = "applied"
  /\ SetTask(cur, "COMPLETED")
  /\ accepted' = IF cur \in Range(accepted) THEN accepted ELSE Append(accepted, cur)
  /\ digest' = tree
  /\ Forget(cur)
  /\ Handled(cur)
  /\ pc' = "loop" /\ cur' = NoTask
  /\ UNCHANGED <<att, patch, tree, artifact, mode, begun>>

WaveEnds ==
  /\ pc = "loop" /\ mode = "integrate" /\ Todo = {}
  /\ pc' = "load" /\ mode' = "none" /\ begun' = 0
  /\ UNCHANGED <<recordVars, diskVars, wpc, cur>>

-----------------------------------------------------------------------------

Init ==
  /\ st = [t \in Task |-> "PENDING"] /\ att = [t \in Task |-> 0]
  /\ patch = [t \in Task |-> NoPatch] /\ artifact = [t \in Task |-> NoPatch]
  /\ remembered = {} /\ dirs = {} /\ accepted = << >>
  /\ digest = InitialHead /\ tree = InitialHead
  /\ base = [t \in Task |-> InitialHead] /\ work = [t \in Task |-> InitialHead]
  /\ pc = "down" /\ wpc = NoWorkers /\ mode = "none" /\ cur = NoTask /\ begun = 0

Worktree(t)  == Reuse(t) \/ Create(t) \/ CreateFails(t)
Attempt(t)   == \/ StartAttempt(t) \/ ClaudeCompletes(t) \/ ClaudeStops(t)
                \/ \E p \in Touches[t], c \in Content : ClaudeEdits(t, p, c)
Review(t)    == \/ ReviewRetries(t) \/ ReviewBlocks(t)
                \/ Capture(t) \/ CaptureRefuses(t) \/ Ready(t)
Integrate(t) == \/ Apply(t) \/ RecoverConflict(t) \/ IntegrateConflict(t)
                \/ OutcomeBlocked(t)
                \/ \E S \in SUBSET Place : ApplyTorn(t, S)

Next == \/ Resume \/ RecoverDone \/ ResumeTasks \/ Finish
        \/ Gather \/ Mark \/ WaveEnds
        \/ \E W \in SUBSET Task : StartWave(W)
        \/ \E t \in Task : Worktree(t) \/ Attempt(t) \/ Review(t) \/ Integrate(t)
        \/ Ends

Spec == Init /\ [][Next]_vars

-----------------------------------------------------------------------------

TypeOK ==
  /\ st \in [Task -> {"PENDING", "READY", "RUNNING", "RETRYING", "BLOCKED",
                      "READY_TO_INTEGRATE", "COMPLETED", "INTEGRATION_BLOCKED"}]
  /\ att \in [Task -> 0..MaxAttempts]
  /\ DOMAIN patch = Task /\ DOMAIN artifact = Task
  /\ \A t \in Task : \A q \in {patch[t], artifact[t]} : q = NoPatch \/ IsPatch(q)
  /\ remembered \subseteq Task /\ dirs \subseteq Task
  /\ accepted \in Seq(Task) /\ IsInjective(accepted)
  /\ digest \in Tree /\ tree \in Tree
  /\ base \in [Task -> Tree] /\ work \in [Task -> Tree]
  /\ pc \in {"down", "load", "wave", "loop", "applied", "done"}
  /\ wpc \in [Task -> {"idle", "begin", "attempt", "claude", "review", "captured",
                       "accepted", "blocked"}]
  /\ mode \in {"none", "recover", "integrate"}
  /\ cur \in Task \cup {NoTask} /\ begun \in 0..Len(accepted)

\* The checkpoint is the initial HEAD with the accepted patches, and the tree
\* is the checkpoint with at most the first pending patch on top, whole or, if
\* the machine died in git apply, in part: whatever was interrupted, no line of
\* the tree is of unknown origin (_recover_if_needed, _mark_integrated).
TreeAccountedFor ==
  /\ digest = Replayed
  /\ tree = digest \/ \E t \in Task : /\ IsFirst(t, Pending)
                                      /\ tree \in {Write(patch[t], S, digest) :
                                                   S \in SUBSET Places(patch[t])}

\* An accepted patch was made on top of the patches accepted before it, or
\* changes what they had changed the same way: nothing that was accepted is
\* overwritten from a worktree that had not seen it (PatchIntegrator.apply).
AcceptedInOrder ==
  \A i \in DOMAIN accepted :
    LET q == patch[accepted[i]] IN
      \/ Applies(q, Checkpoint(i - 1))
      \/ AppliedIn(q, Checkpoint(i - 1))

\* The files out of its scope that a patch removes, as the source of a move.
Moved(t) == {p \in Places(patch[t]) \ WriteScopes[t] : patch[t].new[p] = Missing}

\* In a wave git refuses a patch only because its worktree was older than the
\* wave, or because of a file that one of the two moved out of the scope of the
\* other: otherwise tasks that run together never conflict with each other
\* (Scheduler.compatible and the scope check of capture, together).
ConflictMeansStale ==
  \A t \in Task :
    InHand(t) /\ mode = "integrate" /\ ~Fits(t) =>
      \/ ~Applies(patch[t], Checkpoint(begun))
      \/ \E i \in begun + 1..Len(accepted) :
           \/ Moved(t) \cap Places(patch[accepted[i]]) # {}
           \/ Places(patch[t]) \cap Moved(accepted[i]) # {}

\* Every recorded patch is on disk as it was recorded, so that resume, recovery
\* and new worktrees can rely on it (capture, verify_artifact).
ArtifactsIntact == \A t \in Task : patch[t] # NoPatch => artifact[t] = patch[t]

\* What Claude wrote stays in the worktree of the task until it is integrated:
\* no restart, retry or conflict resets or removes it.
WorkSurvives ==
  [][\A t \in remembered :
       st'[t] # "COMPLETED" => /\ t \in dirs'
                               /\ work'[t] = work[t] \/ wpc[t] = "claude"]_vars

\* "During Claude execution, verification, or review: it keeps the worker
\* worktree and schedules a safe retry" (docs/recovery.md): the patch of such a
\* retry, once it passed its review, is not refused for what an earlier attempt
\* left behind.
RetryCanBeCaptured ==
  \A t \in Task : wpc[t] = "review" /\ InScope(t) => artifact[t] \in {NoPatch, PatchOf(t)}

-----------------------------------------------------------------------------
(* The inductive invariant behind these properties.                        *)

\* What the records say of each other.
RecordsInv ==
  /\ \A i \in DOMAIN accepted : st[accepted[i]] = "COMPLETED"
  /\ \A t \in Task : t \in Pending \/ st[t] = "COMPLETED" => patch[t] # NoPatch
  /\ \A t \in Task : patch[t] # NoPatch =>
       \A p \in Places(patch[t]) : p \in WriteScopes[t] \/ patch[t].new[p] = Missing
  /\ remembered \subseteq dirs

\* Where the controller is, and its workers with it.
ControlInv ==
  /\ mode = "none" <=> pc \in {"down", "load", "wave", "done"}
  /\ pc = "applied" => cur \in Pending
  /\ pc \in {"load", "down", "done"} \/ mode = "recover" => wpc = NoWorkers
  /\ mode = "integrate" => \A t \in Task : wpc[t] \in {"idle", "accepted", "blocked"}
  /\ pc # "down" /\ mode # "recover" => \A t \in Task : wpc[t] = "accepted" <=> t \in Pending
  /\ \A t \in Task : wpc[t] # "idle" => st[t] # "COMPLETED"
  /\ \A t \in Task : wpc[t] = "captured" => InScope(t) /\ artifact[t] = PatchOf(t)

\* The tasks of a wave, those it has integrated already included, are disjoint.
DisjointInv ==
  \A t \in Task : wpc[t] # "idle" =>
    /\ \A u \in Task : t # u /\ wpc[u] # "idle" => WriteScopes[t] \cap WriteScopes[u] = {}
    /\ \A i \in begun + 1..Len(accepted) : WriteScopes[t] \cap WriteScopes[accepted[i]] = {}

\* Between a tree without the first pending patch and one with all of it.
Within(q, tr) ==
  /\ Applies(q, digest) \/ AppliedIn(q, digest)
  /\ \E S \in SUBSET Places(q) : tr = Write(q, S, digest)

TreeInv ==
  /\ digest = Replayed
  /\ tree = digest \/ \E t \in Task : IsFirst(t, Pending) /\ Within(patch[t], tree)
  /\ pc \in {"load", "wave", "done"} \/ (pc = "loop" /\ mode = "integrate") => tree = digest
  /\ pc = "applied" => /\ IsFirst(cur, Pending) /\ Within(patch[cur], tree)
                       /\ tree = ApplyTo(patch[cur], digest)

IntegrationInv == /\ TypeOK /\ RecordsInv /\ ControlInv /\ DisjointInv
                  /\ TreeInv /\ ArtifactsIntact /\ AcceptedInOrder

-----------------------------------------------------------------------------
(* The loops over patches implement those of Controller.                   *)

\* To Controller a tree is the set of the patches in it: the checkpoint is the
\* accepted ones, and the patch in hand is on top of it once it is applied.  A
\* patch torn by a crash does not count until it is.  Any other tree is Other.
Other         == {NoTask}
DigestPatches == IF digest = Replayed THEN Range(accepted) ELSE Other
OnDigest      == \/ tree = digest
                 \/ \E t \in Task : IsFirst(t, Pending) /\ Within(patch[t], tree)
TreePatches   == IF pc = "applied"
                 THEN IF tree = ApplyTo(patch[cur], digest) THEN DigestPatches \cup {cur} ELSE Other
                 ELSE IF OnDigest THEN DigestPatches ELSE Other

LoopAt == CASE pc = "loop"    -> IF mode = "recover" THEN "recover" ELSE "integrate"
            [] pc = "applied" -> IF mode = "recover" THEN "recovered" ELSE "applied"
            [] pc = "down"    -> "none"
            [] OTHER          -> pc

C == INSTANCE Controller WITH
       TaskId <- Task, InitialPlans <- {}, Replans <- {}, Clash <- {},
       MaxWorkers <- 1, Proc <- {"controller"}, Nobody <- "nobody",
       MaxRevisions <- 1, MaxLaunches <- 1,
       status <- "EXECUTING", revs <- <<"APPLIED">>, thread <- TRUE,
       deps <- [t \in Task |-> {}], wt <- remembered,
       base <- [t \in Task |-> {}], dup <- {},
       accepted <- Range(accepted), digest <- DigestPatches, tree <- TreePatches,
       owner <- IF pc = "down" THEN "nobody" ELSE "controller",
       pc <- LoopAt,
       prompted <- 1,
       phase <- [p \in {"controller"} |-> IF pc = "down" THEN "idle" ELSE "owner"],
       snap <- [p \in {"controller"} |-> IF mode = "recover" THEN Pending ELSE {}],
       launches <- 1, adder <- "idle", planned <- 1

\* Every step of the recovery and of the integration, with what git does of it
\* to the tree and the worktrees, is the step Controller takes it for, in which
\* a patch is in one piece and applied at once (_recover_if_needed,
\* _execute_wave).  Not so where git is cut off; and what a resume does to the
\* interrupted tasks after the recovery is a step of its own there.
ImplementsLoops ==
  [][(pc \in {"loop", "applied"} /\ pc' # "down") =>
       C!Recovery \/ C!Integration \/ ResumeTasks]_vars

=============================================================================
