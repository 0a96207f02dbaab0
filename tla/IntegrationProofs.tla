------------------------- MODULE IntegrationProofs -------------------------
(***************************************************************************)
(* Proofs about Integration, for any tasks, places, contents and scopes.   *)
(***************************************************************************)
EXTENDS Integration, PositionProofs, SequenceTheorems

-----------------------------------------------------------------------------
(* Patches and trees.                                                      *)

LEMMA PatchShape ==
  ASSUME NEW q, IsPatch(q)
  PROVE  /\ Places(q) \subseteq Place /\ Places(q) # {}
         /\ \A p \in Places(q) : q.new[p] \in Content /\ q.old[p] # q.new[p]
<1>1. PICK S : /\ S \in (SUBSET Place) \ {{}}
               /\ q \in [old : [S -> Content], new : [S -> Content]]
               /\ \A p \in S : q.old[p] # q.new[p]
  BY DEF IsPatch
<1>2. q.new \in [S -> Content]
  BY <1>1
<1>3. Places(q) = S
  BY <1>2 DEF Places
<1>4. QED BY <1>1, <1>2, <1>3

LEMMA WriteType ==
  ASSUME NEW q, IsPatch(q), NEW tr \in Tree, NEW S \in SUBSET Places(q)
  PROVE  Write(q, S, tr) \in Tree
BY PatchShape DEF Tree, Write

\* Writing the rest of a patch, or all of it again.
LEMMA WriteOver ==
  ASSUME NEW q, IsPatch(q), NEW tr \in Tree,
         NEW R \in SUBSET Places(q), NEW S \in SUBSET Places(q)
  PROVE  Write(q, S, Write(q, R, tr)) = Write(q, R \cup S, tr)
BY PatchShape DEF Write

\* A patch that applies to a tree it was written to in part was not written.
LEMMA AppliesUnwritten ==
  ASSUME NEW q, IsPatch(q), NEW tr \in Tree, NEW S \in SUBSET Places(q),
         Applies(q, Write(q, S, tr))
  PROVE  Write(q, S, tr) = tr
<1>1. S = {}
  BY PatchShape DEF Applies, Write
<1>2. QED BY <1>1 DEF Write, Tree

LEMMA CapturedIsPatch ==
  ASSUME TypeOK, NEW t \in Task, Changed(t) # {}
  PROVE  IsPatch(PatchOf(t)) /\ Places(PatchOf(t)) = Changed(t)
<1>1. base[t] \in Tree /\ work[t] \in Tree
  BY DEF TypeOK
<1> DEFINE S == Changed(t)
<1>2. S \in (SUBSET Place) \ {{}}
  BY DEF Changed
<1>3. \A p \in S : base[t][p] \in Content /\ work[t][p] \in Content /\ base[t][p] # work[t][p]
  BY <1>1 DEF Changed, Tree
<1>4. PatchOf(t) = [old |-> [p \in S |-> base[t][p]], new |-> [p \in S |-> work[t][p]]]
  BY DEF PatchOf
<1>8. DOMAIN [p \in S |-> work[t][p]] = S
  OBVIOUS
<1> HIDE DEF S
<1>5. /\ PatchOf(t) \in [old : [S -> Content], new : [S -> Content]]
      /\ \A p \in S : PatchOf(t).old[p] # PatchOf(t).new[p]
  BY <1>3, <1>4
<1>6. Places(PatchOf(t)) = S
  BY <1>4 DEF Places
<1>7. QED BY <1>2, <1>5, <1>6 DEF IsPatch, S

\* What capture lets through: some change, out of scope nothing but files that
\* are gone.
LEMMA CapturedScope ==
  ASSUME NEW t \in Task, InScope(t)
  PROVE  /\ Changed(t) # {}
         /\ \A p \in Changed(t) : p \in WriteScopes[t] \/ work[t][p] = Missing
<1>1. PICK S \in SUBSET Gone(t) : Permits(t, Changed(t) \ S)
  BY DEF InScope, Listings, Unlisted
<1>2. QED BY <1>1 DEF Permits, Gone

\* What capture sees of a worktree is in its index and its files.
LEMMA ScopeKept ==
  ASSUME NEW t \in Task, base'[t] = base[t], work'[t] = work[t]
  PROVE  PatchOf(t)' = PatchOf(t) /\ (InScope(t)' <=> InScope(t))
<1>1. Changed(t)' = Changed(t)
  BY DEF Changed
<1>2. Gone(t)' = Gone(t) /\ New(t)' = New(t)
  BY <1>1 DEF Gone, New
<1>3. Listings(t)' = Listings(t)
  BY <1>1, <1>2 DEF Listings, Unlisted
<1>4. \A listed : Permits(t, listed)' <=> Permits(t, listed)
  BY DEF Permits
<1>5. QED BY <1>1, <1>3, <1>4 DEF PatchOf, InScope

-----------------------------------------------------------------------------
(* Checkpoints.                                                            *)

\* A checkpoint depends on the patches accepted up to it.
LEMMA CheckpointStable ==
  ASSUME NEW n \in Nat, \A i \in 1..n : patch'[accepted'[i]] = patch[accepted[i]]
  PROVE  Checkpoint(n)' = Checkpoint(n)
<1>1. \A p \in Place : Touching(p, n)' = Touching(p, n)
  BY DEF Touching, Places
<1>2. \A p \in Place : Checkpoint(n)'[p] = Checkpoint(n)[p]
  <2> SUFFICES ASSUME NEW p \in Place PROVE Checkpoint(n)'[p] = Checkpoint(n)[p]
    OBVIOUS
  <2>1. CASE Touching(p, n) = {}
    BY <1>1, <2>1 DEF Checkpoint
  <2>2. CASE Touching(p, n) # {}
    <3>1. LastOf(Touching(p, n)) \in Touching(p, n)
      BY <2>2, LastIsLast DEF Touching
    <3>2. LastOf(Touching(p, n)) \in 1..n
      BY <3>1 DEF Touching
    <3>3. QED BY <1>1, <2>2, <3>2 DEF Checkpoint
  <2>3. QED BY <2>1, <2>2
<1>3. QED BY <1>2 DEF Checkpoint

\* One more accepted patch is one more application.
LEMMA CheckpointExtends ==
  ASSUME NEW n \in Nat
  PROVE  Checkpoint(n + 1)' = ApplyTo(patch'[accepted'[n + 1]], Checkpoint(n)')
<1> DEFINE q == patch'[accepted'[n + 1]]
<1>1. ASSUME NEW p \in Place, p \in Places(q)
      PROVE  Checkpoint(n + 1)'[p] = q.new[p]
  <2>1. n + 1 \in Touching(p, n + 1)' /\ \A j \in Touching(p, n + 1)' : j <= n + 1
    BY <1>1 DEF Touching, Places
  <2>2. Touching(p, n + 1)' \in SUBSET (1..n + 1)
    BY DEF Touching
  <2>3. LastOf(Touching(p, n + 1)') = n + 1
    BY <2>1, <2>2, LastIsLast
  <2>4. QED BY <2>1, <2>3 DEF Checkpoint
<1>2. ASSUME NEW p \in Place, p \notin Places(q)
      PROVE  Checkpoint(n + 1)'[p] = Checkpoint(n)'[p]
  <2>1. Touching(p, n + 1)' = Touching(p, n)'
    BY <1>2 DEF Touching, Places
  <2>2. QED BY <2>1 DEF Checkpoint
<1>3. Checkpoint(n + 1)' = [p \in Place |-> Checkpoint(n + 1)'[p]]
  BY DEF Checkpoint
<1> HIDE DEF q
<1>4. QED BY <1>1, <1>2, <1>3 DEF ApplyTo, Write, q

\* Accepted patches leave alone the places they do not touch.
LEMMA CheckpointKeeps ==
  ASSUME NEW n \in Nat, NEW m \in Nat, n <= m, NEW p \in Place,
         \A i \in n + 1..m : p \notin Places(patch[accepted[i]])
  PROVE  Checkpoint(m)[p] = Checkpoint(n)[p]
<1>1. Touching(p, m) = Touching(p, n)
  <2>1. \A i \in 1..m : i \in 1..n \/ i \in n + 1..m
    OBVIOUS
  <2>2. \A i \in 1..n : i \in 1..m
    OBVIOUS
  <2>3. QED BY <2>1, <2>2 DEF Touching
<1>2. QED BY <1>1 DEF Checkpoint

-----------------------------------------------------------------------------
(* The invariant holds initially and is preserved.                         *)

LEMMA InitIntegration == Init => IntegrationInv
<1> SUFFICES ASSUME Init PROVE IntegrationInv
  OBVIOUS
<1>1. InitialHead \in Tree
  BY HeadAssumption DEF Tree
<1>2. TypeOK
  BY <1>1, TaskAssumption DEF Init, TypeOK, NoWorkers, IsInjective
<1>3. Pending = {}
  BY DEF Init, Pending
<1>4. Replayed = InitialHead
  <2>1. Len(accepted) = 0 /\ \A p \in Place : Touching(p, 0) = {}
    BY DEF Init, Touching
  <2>2. QED BY <2>1, HeadAssumption DEF Replayed, Checkpoint
<1>5. RecordsInv /\ DisjointInv /\ ArtifactsIntact /\ AcceptedInOrder
  BY <1>3 DEF Init, RecordsInv, DisjointInv, ArtifactsIntact, AcceptedInOrder, NoWorkers
<1>6. ControlInv
  BY <1>3 DEF Init, ControlInv, NoWorkers
<1>7. TreeInv
  BY <1>4 DEF Init, TreeInv
<1>8. QED BY <1>2, <1>5, <1>6, <1>7 DEF IntegrationInv

\* What was accepted is not affected by a step that accepts nothing and leaves
\* the patches of completed tasks alone.
LEMMA AcceptedKept ==
  ASSUME IntegrationInv, accepted' = accepted, digest' = digest,
         \A t \in Task : st[t] = "COMPLETED" => patch'[t] = patch[t]
  PROVE  /\ digest' = Replayed'
         /\ AcceptedInOrder'
         /\ \A n \in 0..Len(accepted) : Checkpoint(n)' = Checkpoint(n)
<1>1. accepted \in Seq(Task) /\ Len(accepted) \in Nat /\ DOMAIN accepted = 1..Len(accepted)
  BY DEF IntegrationInv, TypeOK
<1>2. \A i \in DOMAIN accepted : patch'[accepted'[i]] = patch[accepted[i]]
  BY <1>1 DEF IntegrationInv, RecordsInv
<1>3. ASSUME NEW n \in 0..Len(accepted) PROVE Checkpoint(n)' = Checkpoint(n)
  BY <1>1, <1>2, CheckpointStable
<1>4. digest' = Replayed'
  <2>1. Replayed' = Checkpoint(Len(accepted))'
    BY DEF Replayed
  <2>2. Checkpoint(Len(accepted))' = Checkpoint(Len(accepted))
    BY <1>1, <1>3
  <2>3. QED BY <2>1, <2>2 DEF IntegrationInv, TreeInv, Replayed
<1>5. AcceptedInOrder'
  <2> SUFFICES ASSUME NEW i \in DOMAIN accepted
               PROVE  \/ Applies(patch'[accepted[i]], Checkpoint(i - 1)')
                      \/ AppliedIn(patch'[accepted[i]], Checkpoint(i - 1)')
    BY DEF AcceptedInOrder, Applies, AppliedIn, Places
  <2>1. Checkpoint(i - 1)' = Checkpoint(i - 1)
    BY <1>1, <1>3
  <2>2. QED BY <1>2, <2>1 DEF IntegrationInv, AcceptedInOrder
<1>6. QED BY <1>3, <1>4, <1>5

\* The controller ends, with a tree that is accounted for.
LEMMA DownStep ==
  ASSUME IntegrationInv, Down, UNCHANGED <<dirs, base, work, artifact>>, tree' \in Tree,
         tree' = digest \/ \E t \in Task : IsFirst(t, Pending) /\ Within(patch[t], tree')
  PROVE  IntegrationInv'
<1>1. /\ UNCHANGED <<st, att, patch, remembered, accepted, digest, dirs, base, work, artifact>>
      /\ pc' = "down" /\ mode' = "none" /\ cur' = NoTask /\ begun' = 0 /\ wpc' = NoWorkers
      /\ \A t \in Task : wpc'[t] = "idle"
  BY DEF Down, NoWorkers
<1>2. Pending' = Pending
  BY <1>1 DEF Pending
<1>3. TypeOK'
  BY <1>1 DEF IntegrationInv, TypeOK, NoWorkers
<1>4. RecordsInv' /\ ArtifactsIntact'
  BY <1>1, <1>2 DEF IntegrationInv, RecordsInv, ArtifactsIntact
<1>5. ControlInv' /\ DisjointInv'
  BY <1>1 DEF ControlInv, DisjointInv
<1>6. digest' = Replayed' /\ AcceptedInOrder'
  BY <1>1, AcceptedKept
<1>7. TreeInv'
  <2>1. \A q : Within(q, tree)' <=> Within(q, tree')
    BY <1>1 DEF Within, Applies, AppliedIn, Write, Places
  <2>2. \A t : IsFirst(t, Pending)' <=> IsFirst(t, Pending)
    BY <1>2 DEF IsFirst
  <2>3. QED BY <1>1, <1>6, <2>1, <2>2 DEF TreeInv
<1>8. QED BY <1>3, <1>4, <1>5, <1>6, <1>7 DEF IntegrationInv

\* A step of a worker that neither captures a patch nor records one.
LEMMA WorkerStep ==
  ASSUME IntegrationInv, NEW t \in Task, NEW to \in {"attempt", "claude", "review", "blocked"},
         NEW from \in {"begin", "attempt", "claude", "review"}, Work(t, from, to),
         TypeOK', remembered' \subseteq dirs', UNCHANGED <<patch, artifact>>,
         \A u \in Task : u # t => UNCHANGED <<base[u], work[u]>>,
         \E status : /\ status \notin {"READY_TO_INTEGRATE", "INTEGRATING", "COMPLETED"}
                     /\ st' \in {st, [st EXCEPT ![t] = status]}
  PROVE  IntegrationInv'
<1>1. /\ pc = "wave" /\ wpc[t] = from /\ TypeOK
      /\ UNCHANGED <<accepted, digest, tree, pc, mode, cur, begun, patch, artifact>>
      /\ wpc' = [wpc EXCEPT ![t] = to]
  BY DEF Work, IntegrationInv
<1>2. wpc'[t] = to /\ \A u \in Task : u # t => wpc'[u] = wpc[u]
  BY <1>1 DEF TypeOK
<1>3. mode = "none" /\ st[t] \notin {"READY_TO_INTEGRATE", "INTEGRATING", "COMPLETED"}
  BY <1>1 DEF IntegrationInv, ControlInv, Pending
<1>4. /\ st'[t] \notin {"READY_TO_INTEGRATE", "INTEGRATING", "COMPLETED"}
      /\ \A u \in Task : u # t => st'[u] = st[u]
  BY <1>1, <1>3 DEF TypeOK
<1>5. Pending' = Pending
  BY <1>3, <1>4 DEF Pending
<1>6. \A u \in Task : st'[u] = "COMPLETED" <=> st[u] = "COMPLETED"
  BY <1>3, <1>4
<1>7. RecordsInv' /\ ArtifactsIntact'
  <2>1. \A i \in DOMAIN accepted : accepted[i] \in Task
    BY <1>1 DEF TypeOK
  <2>2. QED BY <1>1, <1>5, <1>6, <2>1 DEF IntegrationInv, RecordsInv, ArtifactsIntact
<1>8. ControlInv'
  <2>1. \A u \in Task : wpc'[u] = "captured" => (InScope(u) /\ artifact[u] = PatchOf(u))'
    <3> SUFFICES ASSUME NEW u \in Task, wpc'[u] = "captured"
                 PROVE  (InScope(u) /\ artifact[u] = PatchOf(u))'
      OBVIOUS
    <3>1. u # t /\ wpc[u] = "captured"
      BY <1>2
    <3>2. InScope(u) /\ artifact[u] = PatchOf(u)
      BY <3>1 DEF IntegrationInv, ControlInv
    <3>3. QED BY <1>1, <3>1, <3>2, ScopeKept
  <2>2. QED BY <1>1, <1>2, <1>3, <1>4, <1>5, <2>1 DEF IntegrationInv, ControlInv
<1>9. DisjointInv'
  BY <1>1, <1>2 DEF IntegrationInv, DisjointInv
<1>10. digest' = Replayed' /\ AcceptedInOrder'
  BY <1>1, AcceptedKept
<1>11. TreeInv'
  BY <1>1, <1>10 DEF IntegrationInv, TreeInv
<1>12. QED BY <1>1, <1>7, <1>8, <1>9, <1>10, <1>11 DEF IntegrationInv

LEMMA WorktreeStep ==
  ASSUME IntegrationInv, NEW t \in Task, Worktree(t)
  PROVE  IntegrationInv'
<1> USE DEF IntegrationInv, RecordsInv
<1>1. CASE Reuse(t)
  <2>1. TypeOK'
    BY <1>1 DEF Reuse, Work, TypeOK
  <2>2. QED BY <1>1, <2>1, WorkerStep DEF Reuse
<1>2. CASE Create(t)
  <2>1. Replayed \in Tree
    BY DEF TypeOK, TreeInv
  <2>2. TypeOK'
    BY <1>2, <2>1 DEF Create, Work, TypeOK
  <2>3. \A u \in Task : u # t => UNCHANGED <<base[u], work[u]>>
    BY <1>2 DEF Create, TypeOK
  <2>4. QED BY <1>2, <2>2, <2>3, WorkerStep DEF Create
<1>3. CASE CreateFails(t)
  BY <1>3, DownStep DEF CreateFails, diskVars, TypeOK, TreeInv
<1>4. QED BY <1>1, <1>2, <1>3 DEF Worktree

LEMMA AttemptStep ==
  ASSUME IntegrationInv, NEW t \in Task, Attempt(t)
  PROVE  IntegrationInv'
<1> USE DEF IntegrationInv, RecordsInv
<1>1. CASE StartAttempt(t)
  <2>1. TypeOK'
    BY <1>1, TaskAssumption DEF StartAttempt, SetTask, Work, TypeOK
  <2>2. QED BY <1>1, <2>1, WorkerStep DEF StartAttempt, SetTask
<1>2. ASSUME NEW p \in Touches[t], NEW c \in Content, ClaudeEdits(t, p, c)
      PROVE  IntegrationInv'
  <2>1. p \in Place
    BY ScopeAssumption
  <2>2. work' \in [Task -> Tree]
    BY <1>2, <2>1 DEF ClaudeEdits, TypeOK, Tree
  <2>3. TypeOK'
    BY <1>2, <2>2 DEF ClaudeEdits, Work, TypeOK
  <2>4. \A u \in Task : u # t => UNCHANGED <<base[u], work[u]>>
    BY <1>2 DEF ClaudeEdits, TypeOK
  <2>5. QED BY <1>2, <2>3, <2>4, WorkerStep DEF ClaudeEdits
<1>3. CASE ClaudeCompletes(t)
  <2>1. TypeOK'
    BY <1>3 DEF ClaudeCompletes, Work, TypeOK
  <2>2. QED BY <1>3, <2>1, WorkerStep DEF ClaudeCompletes
<1>4. CASE ClaudeStops(t)
  <2>1. TypeOK'
    BY <1>4 DEF ClaudeStops, Work, TypeOK
  <2>2. QED BY <1>4, <2>1, WorkerStep DEF ClaudeStops
<1>5. QED BY <1>1, <1>2, <1>3, <1>4 DEF Attempt

LEMMA CaptureStep ==
  ASSUME IntegrationInv, NEW t \in Task, Capture(t)
  PROVE  IntegrationInv'
<1>1. /\ TypeOK /\ InScope(t) /\ pc = "wave" /\ wpc[t] = "review"
      /\ artifact' = [artifact EXCEPT ![t] = PatchOf(t)]
      /\ UNCHANGED <<recordVars, tree, dirs, base, work, pc, mode, cur, begun>>
      /\ wpc' = [wpc EXCEPT ![t] = "captured"]
      /\ artifact[t] \in {NoPatch, PatchOf(t)}
  BY DEF Capture, Work, IntegrationInv, recordVars
<1>2. IsPatch(PatchOf(t))
  BY <1>1, CapturedIsPatch, CapturedScope
<1>3. TypeOK'
  <2>1. wpc' \in [Task -> {"idle", "begin", "attempt", "claude", "review", "captured",
                           "accepted", "blocked"}]
    BY <1>1 DEF TypeOK
  <2>2. /\ DOMAIN artifact' = Task
        /\ \A u \in Task : artifact'[u] = NoPatch \/ IsPatch(artifact'[u])
    BY <1>1, <1>2 DEF TypeOK
  <2>3. QED BY <1>1, <2>1, <2>2 DEF TypeOK, recordVars
<1>4. /\ wpc'[t] = "captured" /\ artifact'[t] = PatchOf(t)
      /\ \A u \in Task : u # t => wpc'[u] = wpc[u] /\ artifact'[u] = artifact[u]
  BY <1>1 DEF TypeOK
<1>5. Pending' = Pending
  BY <1>1 DEF Pending, recordVars
<1>6. RecordsInv'
  BY <1>1, <1>5 DEF IntegrationInv, RecordsInv, recordVars
<1>7. ArtifactsIntact'
  BY <1>1, <1>4 DEF IntegrationInv, ArtifactsIntact, recordVars
<1>8. ControlInv'
  <2>1. \A u \in Task : PatchOf(u)' = PatchOf(u) /\ (InScope(u)' <=> InScope(u))
    BY <1>1, ScopeKept
  <2>2. \A u \in Task : wpc'[u] = "captured" => (InScope(u) /\ artifact[u] = PatchOf(u))'
    BY <1>1, <1>4, <2>1 DEF IntegrationInv, ControlInv
  <2>3. QED BY <1>1, <1>4, <1>5, <2>2 DEF IntegrationInv, ControlInv, recordVars
<1>9. DisjointInv'
  BY <1>1, <1>4 DEF IntegrationInv, DisjointInv, recordVars
<1>10. digest' = Replayed' /\ AcceptedInOrder'
  BY <1>1, AcceptedKept DEF recordVars
<1>11. TreeInv'
  BY <1>1, <1>10 DEF IntegrationInv, TreeInv, recordVars
<1>12. QED BY <1>3, <1>6, <1>7, <1>8, <1>9, <1>10, <1>11 DEF IntegrationInv

LEMMA ReadyStep ==
  ASSUME IntegrationInv, NEW t \in Task, Ready(t)
  PROVE  IntegrationInv'
<1>1. /\ TypeOK /\ pc = "wave" /\ wpc[t] = "captured" /\ mode = "none"
      /\ st' = [st EXCEPT ![t] = "READY_TO_INTEGRATE"]
      /\ patch' = [patch EXCEPT ![t] = PatchOf(t)]
      /\ wpc' = [wpc EXCEPT ![t] = "accepted"]
      /\ UNCHANGED <<att, remembered, dirs, base, work, artifact,
                     accepted, digest, tree, pc, mode, cur, begun>>
  BY DEF Ready, Work, SetTask, IntegrationInv, ControlInv
<1>2. InScope(t) /\ artifact[t] = PatchOf(t) /\ st[t] # "COMPLETED"
  BY <1>1 DEF IntegrationInv, ControlInv
<1>3. /\ IsPatch(PatchOf(t)) /\ PatchOf(t) # NoPatch
      /\ \A p \in Places(PatchOf(t)) : p \in WriteScopes[t] \/ PatchOf(t).new[p] = Missing
  <2>1. IsPatch(PatchOf(t)) /\ Places(PatchOf(t)) = Changed(t)
    BY <1>1, <1>2, CapturedIsPatch, CapturedScope
  <2>2. \A p \in Changed(t) : PatchOf(t).new[p] = work[t][p]
    BY DEF PatchOf
  <2>3. QED BY <1>2, <2>1, <2>2, CapturedScope, PatchAssumption
<1>4. /\ wpc'[t] = "accepted" /\ patch'[t] = PatchOf(t) /\ st'[t] = "READY_TO_INTEGRATE"
      /\ \A u \in Task : u # t => wpc'[u] = wpc[u] /\ patch'[u] = patch[u] /\ st'[u] = st[u]
  BY <1>1 DEF TypeOK
<1>5. TypeOK'
  <2>1. /\ DOMAIN patch' = Task
        /\ \A u \in Task : patch'[u] = NoPatch \/ IsPatch(patch'[u])
    BY <1>1, <1>3 DEF TypeOK
  <2>2. QED BY <1>1, <2>1 DEF TypeOK
<1>6. Pending' = Pending \cup {t}
  BY <1>4 DEF Pending
<1>7. RecordsInv'
  <2>1. \A i \in DOMAIN accepted : accepted[i] \in Task /\ accepted[i] # t
    BY <1>1, <1>2 DEF TypeOK, IntegrationInv, RecordsInv
  <2>2. \A u \in Task : patch'[u] # NoPatch =>
          \A p \in Places(patch'[u]) : p \in WriteScopes[u] \/ patch'[u].new[p] = Missing
    BY <1>3, <1>4 DEF IntegrationInv, RecordsInv
  <2>3. \A u \in Pending' : patch'[u] # NoPatch
    BY <1>3, <1>4, <1>6 DEF IntegrationInv, RecordsInv, Pending
  <2>4. QED BY <1>1, <1>4, <2>1, <2>2, <2>3 DEF IntegrationInv, RecordsInv, Places
<1>8. ArtifactsIntact'
  BY <1>1, <1>2, <1>4 DEF IntegrationInv, ArtifactsIntact
<1>9. ControlInv'
  <2>1. \A u \in Task : PatchOf(u)' = PatchOf(u) /\ (InScope(u)' <=> InScope(u))
    BY <1>1, ScopeKept
  <2>2. \A u \in Task : wpc'[u] = "captured" => (InScope(u) /\ artifact[u] = PatchOf(u))'
    BY <1>1, <1>4, <2>1 DEF IntegrationInv, ControlInv
  <2>3. QED BY <1>1, <1>4, <1>6, <2>2 DEF IntegrationInv, ControlInv
<1>10. DisjointInv'
  BY <1>1, <1>4 DEF IntegrationInv, DisjointInv
<1>11. digest' = Replayed' /\ AcceptedInOrder'
  BY <1>1, <1>2, <1>4, AcceptedKept
<1>12. TreeInv'
  BY <1>1, <1>11 DEF IntegrationInv, TreeInv
<1>13. QED BY <1>5, <1>7, <1>8, <1>9, <1>10, <1>11, <1>12 DEF IntegrationInv

LEMMA ReviewStep ==
  ASSUME IntegrationInv, NEW t \in Task, Review(t)
  PROVE  IntegrationInv'
<1> USE DEF IntegrationInv, RecordsInv
<1>1. CASE ReviewRetries(t)
  <2>1. TypeOK'
    BY <1>1 DEF ReviewRetries, SetTask, Work, TypeOK
  <2>2. QED BY <1>1, <2>1, WorkerStep DEF ReviewRetries, SetTask
<1>2. CASE ReviewBlocks(t)
  <2>1. TypeOK'
    BY <1>2 DEF ReviewBlocks, Work, TypeOK
  <2>2. QED BY <1>2, <2>1, WorkerStep DEF ReviewBlocks
<1>3. CASE CaptureRefuses(t)
  <2>1. TypeOK'
    BY <1>3 DEF CaptureRefuses, SetTask, Work, TypeOK
  <2>2. QED BY <1>3, <2>1, WorkerStep DEF CaptureRefuses, SetTask
<1>4. QED BY <1>1, <1>2, <1>3, CaptureStep, ReadyStep DEF Review

\* The patch in hand is the first pending one, and fits the checkpoint if it
\* fits the tree.
LEMMA InHandFirst ==
  ASSUME IntegrationInv, NEW t \in Task, InHand(t)
  PROVE  /\ IsFirst(t, Pending) /\ patch[t] # NoPatch /\ IsPatch(patch[t])
         /\ Fits(t) => Applies(patch[t], digest) \/ AppliedIn(patch[t], digest)
         /\ \E S \in SUBSET Places(patch[t]) : tree = Write(patch[t], S, digest)
<1>1. /\ pc = "loop" /\ TypeOK
      /\ mode = "integrate" => wpc[t] = "accepted" /\ tree = digest
      /\ IsFirst(t, Todo) /\ digest \in Tree
  BY DEF InHand, IntegrationInv, TypeOK, TreeInv
<1>2. IsFirst(t, Pending)
  <2>1. CASE mode = "recover"
    BY <1>1, <2>1 DEF Todo
  <2>2. CASE mode # "recover"
    <3>1. Todo = Outcomes /\ mode = "integrate"
      BY <1>1, <2>2 DEF Todo, TypeOK, IntegrationInv, ControlInv
    <3>2. t \in Pending /\ Pending \subseteq Outcomes
      BY <1>1, <3>1 DEF Outcomes, Pending, IntegrationInv, ControlInv
    <3>3. QED BY <1>1, <3>1, <3>2 DEF IsFirst
  <2>3. QED BY <2>1, <2>2
<1>3. patch[t] # NoPatch /\ IsPatch(patch[t])
  BY <1>1, <1>2 DEF IsFirst, IntegrationInv, RecordsInv, TypeOK
<1>4. CASE tree = digest
  <2>1. Write(patch[t], {}, digest) = digest
    BY <1>1 DEF Write, Tree
  <2>2. QED BY <1>2, <1>3, <1>4, <2>1 DEF Fits
<1>5. CASE tree # digest
  <2>1. PICK u \in Task : IsFirst(u, Pending) /\ Within(patch[u], tree)
    BY <1>5 DEF IntegrationInv, TreeInv
  <2>2. u = t
    BY <1>2, <2>1, TaskAssumption DEF IsFirst
  <2>3. QED BY <1>2, <1>3, <2>1, <2>2 DEF Within
<1>6. QED BY <1>4, <1>5

\* Wherever a tree is between the checkpoint and the first pending patch, so it
\* is after some of that patch is written.
LEMMA WriteWithin ==
  ASSUME IntegrationInv, NEW t \in Task, InHand(t), Fits(t),
         NEW S \in SUBSET Places(patch[t])
  PROVE  Within(patch[t], Write(patch[t], S, tree))
<1>1. digest \in Tree /\ IsPatch(patch[t])
  BY InHandFirst DEF IntegrationInv, TypeOK
<1>2. PICK R \in SUBSET Places(patch[t]) : tree = Write(patch[t], R, digest)
  BY InHandFirst
<1>3. Write(patch[t], S, tree) = Write(patch[t], R \cup S, digest)
  BY <1>1, <1>2, WriteOver
<1>4. R \cup S \in SUBSET Places(patch[t])
  BY <1>2
<1>5. QED BY <1>3, <1>4, InHandFirst DEF Within

LEMMA ApplyStep ==
  ASSUME IntegrationInv, NEW t \in Task, Apply(t)
  PROVE  IntegrationInv'
<1>1. /\ TypeOK /\ InHand(t) /\ Fits(t) /\ pc = "loop" /\ pc' = "applied" /\ cur' = t
      /\ tree' = ApplyTo(patch[t], tree)
      /\ UNCHANGED <<st, att, patch, remembered, accepted, digest,
                     dirs, base, work, artifact, wpc, mode, begun>>
  BY DEF Apply, InHand, recordVars, IntegrationInv
<1>2. /\ IsFirst(t, Pending) /\ IsPatch(patch[t]) /\ tree \in Tree /\ digest \in Tree
  BY <1>1, InHandFirst DEF TypeOK
<1>3. Within(patch[t], tree')
  BY <1>1, WriteWithin DEF ApplyTo
<1>4. tree' = ApplyTo(patch[t], digest)
  <2>1. PICK R \in SUBSET Places(patch[t]) : tree = Write(patch[t], R, digest)
    BY <1>1, InHandFirst
  <2>2. R \cup Places(patch[t]) = Places(patch[t])
    BY <2>1
  <2>3. QED BY <1>1, <1>2, <2>1, <2>2, WriteOver DEF ApplyTo
<1>5. tree' \in Tree
  BY <1>1, <1>2, WriteType DEF ApplyTo
<1>6. TypeOK'
  BY <1>1, <1>5 DEF TypeOK
<1>7. Pending' = Pending
  BY <1>1 DEF Pending
<1>8. RecordsInv' /\ ArtifactsIntact'
  BY <1>1, <1>7 DEF IntegrationInv, RecordsInv, ArtifactsIntact
<1>9. ControlInv'
  <2>1. \A u \in Task : wpc'[u] = "captured" => (InScope(u) /\ artifact[u] = PatchOf(u))'
    BY <1>1, ScopeKept DEF IntegrationInv, ControlInv
  <2>2. QED BY <1>1, <1>2, <1>7, <2>1 DEF IntegrationInv, ControlInv, IsFirst
<1>10. DisjointInv'
  BY <1>1 DEF IntegrationInv, DisjointInv
<1>11. digest' = Replayed' /\ AcceptedInOrder'
  BY <1>1, AcceptedKept
<1>12. TreeInv'
  <2>1. \A q : Within(q, tree)' <=> Within(q, tree')
    BY <1>1 DEF Within, Applies, AppliedIn, Write, Places
  <2>2. IsFirst(t, Pending)' /\ Within(patch[t], tree)' /\ tree' = ApplyTo(patch[t], digest)'
    BY <1>1, <1>2, <1>3, <1>4, <1>7, <2>1 DEF IsFirst, ApplyTo, Write, Places
  <2>3. QED BY <1>1, <1>11, <2>2 DEF TreeInv
<1>13. QED BY <1>6, <1>8, <1>9, <1>10, <1>11, <1>12 DEF IntegrationInv

LEMMA ApplyTornStep ==
  ASSUME IntegrationInv, NEW t \in Task, NEW S \in SUBSET Place, ApplyTorn(t, S)
  PROVE  IntegrationInv'
<1>1. /\ InHand(t) /\ Fits(t) /\ S \subseteq Places(patch[t])
      /\ tree' = Write(patch[t], S, tree)
      /\ Down /\ UNCHANGED <<dirs, base, work, artifact>>
  BY DEF ApplyTorn, Fits
<1>2. IsFirst(t, Pending) /\ Within(patch[t], tree')
  BY <1>1, InHandFirst, WriteWithin
<1>3. tree' \in Tree
  BY <1>1, InHandFirst, WriteType DEF IntegrationInv, TypeOK
<1>4. QED BY <1>1, <1>2, <1>3, DownStep

\* An outcome of a wave that does not make it into the tree.
LEMMA RejectStep ==
  ASSUME IntegrationInv, NEW t \in Task, IntegrateConflict(t) \/ OutcomeBlocked(t)
  PROVE  IntegrationInv'
<1>1. /\ TypeOK /\ pc = "loop" /\ mode = "integrate" /\ IsFirst(t, Outcomes)
      /\ UNCHANGED <<att, patch, remembered, accepted, digest, diskVars, pc, mode, cur, begun>>
      /\ wpc' = [wpc EXCEPT ![t] = "idle"]
  BY DEF IntegrationInv, IntegrateConflict, OutcomeBlocked, InHand, Todo, Handled
<1>2. wpc[t] \in {"accepted", "blocked"} /\ st[t] # "COMPLETED"
  BY <1>1 DEF IsFirst, Outcomes, IntegrationInv, ControlInv
<1>3. \E status \in {"BLOCKED", "INTEGRATION_BLOCKED"} : st' = [st EXCEPT ![t] = status]
  BY <1>1, <1>2 DEF IntegrateConflict, OutcomeBlocked, SetTask
<1>4. /\ wpc'[t] = "idle" /\ st'[t] \in {"BLOCKED", "INTEGRATION_BLOCKED"}
      /\ \A u \in Task : u # t => wpc'[u] = wpc[u] /\ st'[u] = st[u]
  BY <1>1, <1>3 DEF TypeOK
<1>5. Pending' = Pending \ {t}
  BY <1>4 DEF Pending
<1>6. TypeOK'
  BY <1>1, <1>3 DEF TypeOK, diskVars
<1>7. RecordsInv' /\ ArtifactsIntact'
  <2>1. \A i \in DOMAIN accepted : accepted[i] \in Task /\ accepted[i] # t
    BY <1>1, <1>2 DEF TypeOK, IntegrationInv, RecordsInv
  <2>2. QED BY <1>1, <1>4, <1>5, <2>1 DEF IntegrationInv, RecordsInv, ArtifactsIntact, diskVars
<1>8. ControlInv'
  BY <1>1, <1>4, <1>5 DEF IntegrationInv, ControlInv
<1>9. DisjointInv'
  BY <1>1, <1>4 DEF IntegrationInv, DisjointInv
<1>10. digest' = Replayed' /\ AcceptedInOrder'
  BY <1>1, AcceptedKept
<1>11. TreeInv'
  BY <1>1, <1>10 DEF IntegrationInv, TreeInv, diskVars
<1>12. QED BY <1>6, <1>7, <1>8, <1>9, <1>10, <1>11 DEF IntegrationInv

LEMMA MarkStep ==
  ASSUME IntegrationInv, Mark
  PROVE  IntegrationInv'
<1>0. PICK n : n = Len(accepted)
  OBVIOUS
<1>1. /\ TypeOK /\ pc = "applied" /\ pc' = "loop" /\ cur' = NoTask /\ digest' = tree
      /\ st' = [st EXCEPT ![cur] = "COMPLETED"] /\ wpc' = [wpc EXCEPT ![cur] = "idle"]
      /\ remembered' = remembered \ {cur} /\ dirs' = dirs \ {cur}
      /\ base' = [base EXCEPT ![cur] = InitialHead]
      /\ work' = [work EXCEPT ![cur] = InitialHead]
      /\ UNCHANGED <<att, patch, tree, artifact, mode, begun>>
  BY DEF IntegrationInv, Mark, SetTask, Forget, Handled
<1>2. /\ cur \in Task /\ cur \in Pending /\ IsFirst(cur, Pending)
      /\ tree = ApplyTo(patch[cur], digest) /\ Within(patch[cur], tree)
  BY <1>1 DEF IntegrationInv, ControlInv, TreeInv, IsFirst, Pending
<1>3. /\ accepted \in Seq(Task) /\ n \in Nat /\ DOMAIN accepted = 1..n
      /\ \A i \in 1..n : accepted[i] \in Task /\ accepted[i] # cur
  <2>1. accepted \in Seq(Task)
    BY <1>1 DEF TypeOK
  <2>2. n \in Nat /\ DOMAIN accepted = 1..n
    BY <1>0, <2>1
  <2>3. \A i \in DOMAIN accepted : st[accepted[i]] = "COMPLETED"
    BY DEF IntegrationInv, RecordsInv
  <2>4. st[cur] # "COMPLETED"
    BY <1>2 DEF Pending
  <2>5. \A i \in 1..n : accepted[i] # cur
    BY <2>2, <2>3, <2>4
  <2>6. \A i \in 1..n : accepted[i] \in Task
    BY <2>1, <2>2
  <2>7. QED BY <2>1, <2>2, <2>5, <2>6
<1>4. accepted' = Append(accepted, cur)
  BY <1>3 DEF Mark, Range
<1>5. /\ accepted' \in Seq(Task) /\ Len(accepted') = n + 1 /\ DOMAIN accepted' = 1..n + 1
      /\ accepted'[n + 1] = cur /\ \A i \in 1..n : accepted'[i] = accepted[i]
  BY <1>0, <1>2, <1>3, <1>4
<1>6. \A i \in 1..n + 1 : i \in 1..n \/ i = n + 1
  BY <1>3
<1>7. /\ wpc'[cur] = "idle" /\ st'[cur] = "COMPLETED"
      /\ \A u \in Task : u # cur => wpc'[u] = wpc[u] /\ st'[u] = st[u]
  BY <1>1, <1>2 DEF TypeOK
<1>8. Pending' = Pending \ {cur}
  BY <1>7 DEF Pending
<1>9. TypeOK'
  <2>1. IsInjective(accepted')
    BY <1>1, <1>3, <1>5, <1>6 DEF IsInjective, TypeOK
  <2>2. begun' \in 0..n + 1
    BY <1>0, <1>1, <1>3 DEF TypeOK
  <2>3. base' \in [Task -> Tree] /\ work' \in [Task -> Tree]
    BY <1>1, HeadAssumption DEF TypeOK, Tree
  <2>4. QED BY <1>1, <1>5, <2>1, <2>2, <2>3 DEF TypeOK
<1>10. RecordsInv' /\ ArtifactsIntact'
  <2>1. \A i \in 1..n : st[accepted[i]] = "COMPLETED"
    BY <1>3 DEF IntegrationInv, RecordsInv
  <2>2. \A i \in 1..n + 1 : st'[accepted'[i]] = "COMPLETED"
    BY <1>3, <1>5, <1>6, <1>7, <2>1
  <2>3. \A t \in Task : t \in Pending' \/ st'[t] = "COMPLETED" => patch[t] # NoPatch
    BY <1>2, <1>7, <1>8 DEF IntegrationInv, RecordsInv
  <2>4. QED BY <1>1, <1>5, <2>2, <2>3 DEF IntegrationInv, RecordsInv, ArtifactsIntact
<1>11. ControlInv'
  <2>1. \A u \in Task : wpc'[u] = "captured" => (InScope(u) /\ artifact[u] = PatchOf(u))'
    <3> SUFFICES ASSUME NEW u \in Task, wpc'[u] = "captured"
                 PROVE  (InScope(u) /\ artifact[u] = PatchOf(u))'
      OBVIOUS
    <3>1. u # cur /\ wpc[u] = "captured" /\ base'[u] = base[u] /\ work'[u] = work[u]
      BY <1>1, <1>7 DEF TypeOK
    <3>2. InScope(u) /\ artifact[u] = PatchOf(u)
      BY <3>1 DEF IntegrationInv, ControlInv
    <3>3. QED BY <1>1, <3>1, <3>2, ScopeKept
  <2>2. mode = "recover" => wpc' = NoWorkers
    BY <1>1 DEF IntegrationInv, ControlInv, NoWorkers
  <2>3. mode \in {"recover", "integrate"}
    BY <1>1 DEF TypeOK, IntegrationInv, ControlInv
  <2>4. QED BY <1>1, <1>7, <1>8, <2>1, <2>2, <2>3 DEF IntegrationInv, ControlInv
<1>12. DisjointInv'
  <2>1. ASSUME NEW t \in Task, wpc'[t] # "idle", NEW i \in begun + 1..n + 1
        PROVE  WriteScopes[t] \cap WriteScopes[accepted'[i]] = {}
    <3>1. t # cur /\ wpc[t] # "idle"
      BY <1>7, <2>1
    <3>2. CASE i \in begun + 1..n
      <4>1. accepted'[i] = accepted[i]
        BY <1>1, <1>3, <1>5, <3>2 DEF TypeOK
      <4>2. QED BY <1>0, <2>1, <3>1, <3>2, <4>1 DEF IntegrationInv, DisjointInv
    <3>3. CASE i = n + 1
      <4>1. mode = "integrate" /\ wpc[cur] # "idle"
        BY <1>1, <1>2, <3>1 DEF IntegrationInv, ControlInv, NoWorkers, TypeOK
      <4>2. QED BY <1>2, <1>5, <3>1, <3>3, <4>1 DEF IntegrationInv, DisjointInv
    <3>4. QED BY <1>1, <1>3, <3>2, <3>3 DEF TypeOK
  <2>2. QED BY <1>1, <1>5, <1>7, <2>1 DEF IntegrationInv, DisjointInv
<1>13. \A m \in 0..n : Checkpoint(m)' = Checkpoint(m)
  <2> SUFFICES ASSUME NEW m \in 0..n PROVE Checkpoint(m)' = Checkpoint(m)
    OBVIOUS
  <2>1. \A i \in 1..m : patch'[accepted'[i]] = patch[accepted[i]]
    BY <1>1, <1>3, <1>5
  <2>2. m \in Nat
    BY <1>3
  <2>3. QED BY <2>1, <2>2, CheckpointStable
<1>14. digest = Checkpoint(n)
  BY <1>0 DEF IntegrationInv, TreeInv, Replayed
<1>15. digest' = Replayed'
  <2>1. Checkpoint(n + 1)' = ApplyTo(patch'[cur], Checkpoint(n)')
    BY <1>3, <1>5, CheckpointExtends
  <2>2. Replayed' = Checkpoint(n + 1)'
    BY <1>5 DEF Replayed
  <2>3. Checkpoint(n)' = digest
    BY <1>3, <1>13, <1>14
  <2>4. QED BY <1>1, <1>2, <2>1, <2>2, <2>3
<1>16. AcceptedInOrder'
  <2> SUFFICES ASSUME NEW i \in 1..n + 1
               PROVE  \/ Applies(patch'[accepted'[i]], Checkpoint(i - 1)')
                      \/ AppliedIn(patch'[accepted'[i]], Checkpoint(i - 1)')
    BY <1>5 DEF AcceptedInOrder, Applies, AppliedIn, Places
  <2>1. Checkpoint(i - 1)' = Checkpoint(i - 1)
    BY <1>3, <1>13
  <2>2. CASE i \in 1..n
    BY <1>1, <1>3, <1>5, <2>1, <2>2 DEF IntegrationInv, AcceptedInOrder
  <2>3. CASE i = n + 1
    <3>1. Checkpoint(i - 1)' = digest
      BY <1>3, <1>14, <2>1, <2>3
    <3>2. QED BY <1>1, <1>2, <1>5, <2>3, <3>1 DEF Within
  <2>4. QED BY <1>6, <2>2, <2>3
<1>17. TreeInv'
  BY <1>1, <1>15 DEF TreeInv
<1>18. QED BY <1>9, <1>10, <1>11, <1>12, <1>15, <1>16, <1>17 DEF IntegrationInv

\* A step of the loop that touches neither the tree nor a worktree nor a patch.
LEMMA LoopStep ==
  ASSUME IntegrationInv,
         UNCHANGED <<patch, remembered, accepted, digest, diskVars>>,
         TypeOK', Pending' = Pending, ControlInv', DisjointInv', TreeInv',
         \A t \in Task : st'[t] = "COMPLETED" <=> st[t] = "COMPLETED"
  PROVE  IntegrationInv'
<1>1. RecordsInv' /\ ArtifactsIntact'
  <2>1. \A i \in DOMAIN accepted : accepted[i] \in Task
    BY DEF IntegrationInv, TypeOK
  <2>2. QED BY <2>1 DEF IntegrationInv, RecordsInv, ArtifactsIntact, diskVars
<1>2. AcceptedInOrder'
  BY AcceptedKept
<1>3. QED BY <1>1, <1>2 DEF IntegrationInv

\* The tree part of it, if what is pending stays pending.
LEMMA TreeKept ==
  ASSUME IntegrationInv, UNCHANGED <<patch, accepted, digest, tree>>,
         Pending' = Pending, pc' # "applied",
         pc' \in {"load", "wave", "done"} \/ (pc' = "loop" /\ mode' = "integrate")
           => tree = digest
  PROVE  TreeInv'
<1>1. digest' = Replayed'
  BY AcceptedKept
<1>2. \A q : Within(q, tree)' <=> Within(q, tree)
  BY DEF Within, Applies, AppliedIn, Write, Places
<1>3. \A t : IsFirst(t, Pending)' <=> IsFirst(t, Pending)
  BY DEF IsFirst
<1>4. QED BY <1>1, <1>2, <1>3 DEF IntegrationInv, TreeInv

LEMMA ResumeStep ==
  ASSUME IntegrationInv, Resume
  PROVE  IntegrationInv'
<1>1. /\ TypeOK /\ pc = "down" /\ pc' = "loop" /\ mode' = "recover"
      /\ UNCHANGED <<recordVars, diskVars, wpc, cur, begun>>
  BY DEF IntegrationInv, Resume
<1>2. TypeOK'
  BY <1>1 DEF TypeOK, recordVars, diskVars
<1>3. Pending' = Pending
  BY <1>1 DEF Pending, recordVars
<1>4. wpc = NoWorkers /\ wpc' = NoWorkers /\ \A t \in Task : wpc'[t] = "idle"
  BY <1>1 DEF IntegrationInv, ControlInv, NoWorkers
<1>5. ControlInv' /\ DisjointInv'
  BY <1>1, <1>4 DEF ControlInv, DisjointInv, NoWorkers
<1>6. TreeInv'
  BY <1>1, <1>3, TreeKept DEF recordVars, diskVars
<1>7. QED BY <1>1, <1>2, <1>3, <1>5, <1>6, LoopStep DEF recordVars

\* Recovery ends with nothing pending, and so with the checkpoint in the tree.
LEMMA RecoveredStep ==
  ASSUME IntegrationInv, RecoverDone \/ ResumeTasks
  PROVE  IntegrationInv'
<1>1. /\ TypeOK /\ pc = "loop" /\ mode = "recover" /\ pc' = "load" /\ mode' = "none"
      /\ Pending = {}
      /\ UNCHANGED <<att, patch, remembered, accepted, digest, diskVars, wpc, cur, begun>>
  BY DEF IntegrationInv, RecoverDone, ResumeTasks, Recovered, Todo
<1>2. \A t \in Task : st'[t] = st[t] \/ (st[t] # "COMPLETED" /\ st'[t] = "RETRYING")
  BY DEF RecoverDone, ResumeTasks
<1>3. TypeOK'
  <2>1. st' \in [Task -> {"PENDING", "READY", "RUNNING", "RETRYING", "BLOCKED",
                          "READY_TO_INTEGRATE", "COMPLETED", "INTEGRATION_BLOCKED"}]
    BY <1>1 DEF RecoverDone, ResumeTasks, TypeOK
  <2>2. QED BY <1>1, <2>1 DEF TypeOK, diskVars
<1>4. Pending' = Pending
  BY <1>1, <1>2 DEF Pending
<1>5. wpc = NoWorkers /\ wpc' = NoWorkers /\ \A t \in Task : wpc'[t] = "idle"
  BY <1>1 DEF IntegrationInv, ControlInv, NoWorkers
<1>6. ControlInv' /\ DisjointInv'
  BY <1>1, <1>4, <1>5 DEF ControlInv, DisjointInv, NoWorkers
<1>7. tree = digest
  BY <1>1 DEF IntegrationInv, TreeInv, IsFirst
<1>8. TreeInv'
  BY <1>1, <1>4, <1>7, TreeKept DEF diskVars
<1>9. QED BY <1>1, <1>2, <1>3, <1>4, <1>6, <1>8, LoopStep

LEMMA StartWaveStep ==
  ASSUME IntegrationInv, NEW W \in SUBSET Task, StartWave(W)
  PROVE  IntegrationInv'
<1>1. /\ TypeOK /\ pc = "load" /\ pc' = "wave" /\ begun' = Len(accepted)
      /\ wpc' = [t \in Task |-> IF t \in W THEN "begin" ELSE "idle"]
      /\ UNCHANGED <<att, patch, remembered, accepted, digest, diskVars, mode, cur>>
      /\ W \subseteq Runnable
      /\ \A t, u \in W : t # u => WriteScopes[t] \cap WriteScopes[u] = {}
  BY DEF IntegrationInv, StartWave
<1>2. /\ \A t \in Task : st'[t] = st[t] \/ (st[t] = "PENDING" /\ st'[t] = "READY")
      /\ \A t \in W : st'[t] # "COMPLETED"
  BY <1>1 DEF StartWave, Runnable
<1>3. TypeOK'
  <2>1. st' \in [Task -> {"PENDING", "READY", "RUNNING", "RETRYING", "BLOCKED",
                          "READY_TO_INTEGRATE", "COMPLETED", "INTEGRATION_BLOCKED"}]
    BY DEF StartWave, IntegrationInv, TypeOK
  <2>2. Len(accepted) \in 0..Len(accepted)
    BY <1>1 DEF TypeOK
  <2>3. QED BY <1>1, <2>1, <2>2 DEF TypeOK, diskVars
<1>4. Pending' = Pending
  BY <1>2 DEF Pending
<1>5. Pending = {} /\ mode = "none" /\ tree = digest
  <2>1. wpc = NoWorkers /\ mode = "none" /\ tree = digest
    BY <1>1 DEF IntegrationInv, ControlInv, TreeInv
  <2>2. \A t \in Task : t \notin Pending
    BY <1>1, <2>1 DEF IntegrationInv, ControlInv, NoWorkers
  <2>3. QED BY <2>1, <2>2 DEF Pending
<1>6. ControlInv'
  BY <1>1, <1>2, <1>4, <1>5 DEF ControlInv
<1>7. DisjointInv'
  <2>1. begun' + 1..Len(accepted') = {}
    BY <1>1 DEF TypeOK
  <2>2. QED BY <1>1, <2>1 DEF DisjointInv
<1>8. TreeInv'
  BY <1>1, <1>4, <1>5, TreeKept DEF diskVars
<1>9. QED BY <1>1, <1>2, <1>3, <1>4, <1>6, <1>7, <1>8, LoopStep

LEMMA FinishStep ==
  ASSUME IntegrationInv, Finish
  PROVE  IntegrationInv'
<1>1. CASE Down
  BY <1>1, DownStep DEF Finish, diskVars, IntegrationInv, TypeOK, TreeInv
<1>2. CASE ~Down
  <2>1. /\ TypeOK /\ pc = "load" /\ pc' = "done"
        /\ UNCHANGED <<recordVars, diskVars, wpc, mode, cur, begun>>
    BY <1>2 DEF IntegrationInv, Finish
  <2>2. TypeOK'
    BY <2>1 DEF TypeOK, recordVars, diskVars
  <2>3. Pending' = Pending
    BY <2>1 DEF Pending, recordVars
  <2>4. wpc = NoWorkers /\ mode = "none" /\ tree = digest
    BY <2>1 DEF IntegrationInv, ControlInv, TreeInv
  <2>5. ControlInv'
    <3>1. wpc' = NoWorkers /\ \A t \in Task : wpc'[t] = "idle"
      BY <2>1, <2>4 DEF NoWorkers
    <3>2. QED BY <2>1, <2>3, <2>4, <3>1 DEF IntegrationInv, ControlInv, recordVars, NoWorkers
  <2>6. DisjointInv'
    BY <2>1 DEF IntegrationInv, DisjointInv, recordVars
  <2>7. TreeInv'
    BY <2>1, <2>3, <2>4, TreeKept DEF recordVars, diskVars
  <2>8. QED BY <2>1, <2>2, <2>3, <2>5, <2>6, <2>7, LoopStep DEF recordVars
<1>3. QED BY <1>1, <1>2

\* All workers have an outcome, or all outcomes are dealt with.
LEMMA WaveStep ==
  ASSUME IntegrationInv, Gather \/ WaveEnds
  PROVE  IntegrationInv'
<1>1. /\ TypeOK /\ UNCHANGED <<recordVars, diskVars, wpc, cur>>
      /\ tree = digest /\ mode # "recover" /\ pc \in {"wave", "loop"}
  BY DEF IntegrationInv, TreeInv, ControlInv, Gather, WaveEnds
<1>2. \/ /\ pc' = "loop" /\ mode' = "integrate" /\ begun' = begun
         /\ \A t \in Task : wpc[t] \in {"idle", "accepted", "blocked"}
      \/ /\ pc' = "load" /\ mode' = "none" /\ begun' = 0
         /\ \A t \in Task : wpc[t] = "idle"
  BY <1>1 DEF Gather, WaveEnds, Todo, Outcomes, IntegrationInv, ControlInv
<1>3. TypeOK'
  BY <1>1, <1>2 DEF TypeOK, recordVars, diskVars
<1>4. Pending' = Pending
  BY <1>1 DEF Pending, recordVars
<1>5. ControlInv'
  <2>1. \A t \in Task : wpc[t] # "captured"
    BY <1>2
  <2>2. (\A t \in Task : wpc[t] = "idle") => wpc = NoWorkers
    BY <1>1 DEF TypeOK, NoWorkers
  <2>3. NoWorkers' = NoWorkers
    BY DEF NoWorkers
  <2>4. QED BY <1>1, <1>2, <1>4, <2>1, <2>2, <2>3
    DEF IntegrationInv, ControlInv, recordVars
<1>6. DisjointInv'
  BY <1>1, <1>2 DEF IntegrationInv, DisjointInv, recordVars
<1>7. TreeInv'
  BY <1>1, <1>2, <1>4, TreeKept DEF recordVars, diskVars
<1>8. QED BY <1>1, <1>3, <1>4, <1>5, <1>6, <1>7, LoopStep DEF recordVars

LEMMA StutterStep ==
  ASSUME IntegrationInv, UNCHANGED vars
  PROVE  IntegrationInv'
<1>1. UNCHANGED <<st, att, patch, remembered, accepted, digest, tree, dirs, base, work,
                  artifact, pc, wpc, mode, cur, begun>>
  BY DEF vars, recordVars, diskVars, ctlVars
<1>2. TypeOK'
  BY <1>1 DEF IntegrationInv, TypeOK
<1>3. Pending' = Pending
  BY <1>1 DEF Pending
<1>4. ControlInv'
  <2>1. \A u \in Task : wpc'[u] = "captured" => (InScope(u) /\ artifact[u] = PatchOf(u))'
    BY <1>1, ScopeKept DEF IntegrationInv, ControlInv
  <2>2. NoWorkers' = NoWorkers
    BY DEF NoWorkers
  <2>3. QED BY <1>1, <1>3, <2>1, <2>2 DEF IntegrationInv, ControlInv
<1>5. DisjointInv'
  BY <1>1 DEF IntegrationInv, DisjointInv
<1>6. TreeInv'
  <2>1. digest' = Replayed'
    BY <1>1, AcceptedKept
  <2>2. \A q : Within(q, tree)' <=> Within(q, tree)
    BY <1>1 DEF Within, Applies, AppliedIn, Write, Places
  <2>3. \A t : IsFirst(t, Pending)' <=> IsFirst(t, Pending)
    BY <1>3 DEF IsFirst
  <2>4. \A q : ApplyTo(q, digest)' = ApplyTo(q, digest)
    BY <1>1 DEF ApplyTo, Write, Places
  <2>5. QED BY <1>1, <2>1, <2>2, <2>3, <2>4 DEF IntegrationInv, TreeInv
<1>7. QED BY <1>1, <1>2, <1>3, <1>4, <1>5, <1>6, LoopStep DEF diskVars

LEMMA IntegrationStep == IntegrationInv /\ [Next]_vars => IntegrationInv'
<1> SUFFICES ASSUME IntegrationInv, [Next]_vars PROVE IntegrationInv'
  OBVIOUS
<1>1. CASE Ends
  BY <1>1, DownStep DEF Ends, diskVars, IntegrationInv, TypeOK, TreeInv
<1>2. ASSUME NEW t \in Task, Integrate(t) PROVE IntegrationInv'
  <2>1. CASE RecoverConflict(t)
    BY <2>1, DownStep DEF RecoverConflict, diskVars, IntegrationInv, TypeOK, TreeInv
  <2>2. QED BY <1>2, <2>1, ApplyStep, ApplyTornStep, RejectStep DEF Integrate
<1>3. QED BY <1>1, <1>2, ResumeStep, RecoveredStep, FinishStep, WaveStep, MarkStep,
             StartWaveStep, WorktreeStep, AttemptStep, ReviewStep, StutterStep DEF Next

LEMMA IntegrationAlways == Spec => []IntegrationInv
<1>1. QED BY InitIntegration, IntegrationStep, PTL DEF Spec

-----------------------------------------------------------------------------
(* The properties.                                                         *)

\* The type invariant: what is accepted is accepted once, and what is recorded
\* as a patch is one.
THEOREM IntegrationTypeCorrect == Spec => []TypeOK
<1>1. IntegrationInv => TypeOK
  BY DEF IntegrationInv
<1>2. QED BY <1>1, IntegrationAlways, PTL

\* No line of the main tree is of unknown origin, whenever the controller or
\* the machine stops (_recover_if_needed, _mark_integrated).
THEOREM TreeIsAccountedFor == Spec => []TreeAccountedFor
<1>1. IntegrationInv => TreeAccountedFor
  BY DEF IntegrationInv, TreeInv, TreeAccountedFor, Within
<1>2. QED BY <1>1, IntegrationAlways, PTL

\* No accepted patch overwrites one its author had not seen.
THEOREM PatchesAcceptedInOrder == Spec => []AcceptedInOrder
<1>1. IntegrationInv => AcceptedInOrder
  BY DEF IntegrationInv
<1>2. QED BY <1>1, IntegrationAlways, PTL

\* A recorded patch is the one on disk (capture, verify_artifact).
THEOREM ArtifactsAreIntact == Spec => []ArtifactsIntact
<1>1. IntegrationInv => ArtifactsIntact
  BY DEF IntegrationInv
<1>2. QED BY <1>1, IntegrationAlways, PTL

\* Tasks that share a wave never conflict with each other: what fits the
\* checkpoint the wave began with still fits when its turn comes, unless one of
\* them moved a file out of the scope of the other.
THEOREM ConflictsMeanStale == Spec => []ConflictMeansStale
<1>1. IntegrationInv => ConflictMeansStale
  <2> SUFFICES ASSUME IntegrationInv, NEW t \in Task, InHand(t), mode = "integrate",
                      Applies(patch[t], Checkpoint(begun)),
                      \A i \in begun + 1..Len(accepted) :
                        /\ Moved(t) \cap Places(patch[accepted[i]]) = {}
                        /\ Places(patch[t]) \cap Moved(accepted[i]) = {}
               PROVE  Fits(t)
    BY DEF ConflictMeansStale
  <2>1. /\ TypeOK /\ pc = "loop" /\ wpc[t] = "accepted" /\ tree = Checkpoint(Len(accepted))
        /\ IsPatch(patch[t]) /\ Places(patch[t]) \subseteq WriteScopes[t] \cup Moved(t)
    BY InHandFirst DEF IntegrationInv, TreeInv, InHand, Replayed, RecordsInv, Moved
  <2>2. /\ begun \in Nat /\ Len(accepted) \in Nat /\ begun <= Len(accepted)
        /\ \A i \in begun + 1..Len(accepted) : i \in DOMAIN accepted /\ accepted[i] \in Task
    BY <2>1 DEF TypeOK
  <2>3. \A i \in begun + 1..Len(accepted) :
          Places(patch[accepted[i]]) \subseteq WriteScopes[accepted[i]] \cup Moved(accepted[i])
    <3>1. ASSUME NEW i \in begun + 1..Len(accepted)
          PROVE  Places(patch[accepted[i]])
                   \subseteq WriteScopes[accepted[i]] \cup Moved(accepted[i])
      BY <2>2 DEF IntegrationInv, RecordsInv, Moved
    <3>2. QED BY <3>1
  <2>4. ASSUME NEW p \in Places(patch[t])
        PROVE  tree[p] = patch[t].old[p]
    <3>1. p \in Place /\ p \in WriteScopes[t] \cup Moved(t)
      BY <2>1, PatchShape
    <3>2. ASSUME NEW i \in begun + 1..Len(accepted), p \in Places(patch[accepted[i]])
          PROVE  FALSE
      <4>1. p \notin Moved(t) /\ p \notin Moved(accepted[i])
        BY <3>2
      <4>2. p \in WriteScopes[t] \cap WriteScopes[accepted[i]]
        BY <2>3, <3>1, <3>2, <4>1
      <4>3. WriteScopes[t] \cap WriteScopes[accepted[i]] = {}
        BY <2>1 DEF IntegrationInv, DisjointInv
      <4>4. QED BY <4>2, <4>3
    <3>3. Checkpoint(Len(accepted))[p] = Checkpoint(begun)[p]
      BY <2>2, <3>1, <3>2, CheckpointKeeps
    <3>4. QED BY <2>1, <3>3 DEF Applies
  <2>5. QED BY <2>4 DEF Fits, Applies
<1>2. QED BY <1>1, IntegrationAlways, PTL

\* No restart, retry or conflict takes what Claude wrote in a remembered
\* worktree, until its task is completed (_existing_or_new_worktree).
THEOREM WorkAlwaysSurvives == Spec => WorkSurvives
<1>1. IntegrationInv /\ [Next]_vars =>
        [\A t \in remembered :
           st'[t] # "COMPLETED" => /\ t \in dirs'
                                   /\ work'[t] = work[t] \/ wpc[t] = "claude"]_vars
  <2> SUFFICES ASSUME IntegrationInv, Next, NEW t \in remembered, st'[t] # "COMPLETED"
               PROVE  t \in dirs' /\ (work'[t] = work[t] \/ wpc[t] = "claude")
    OBVIOUS
  <2>1. t \in Task /\ t \in dirs /\ TypeOK
    BY DEF IntegrationInv, TypeOK, RecordsInv
  <2>2. CASE UNCHANGED <<dirs, work>>
    BY <2>1, <2>2
  <2>3. CASE Mark
    <3>1. st'[cur] = "COMPLETED"
      BY <2>3 DEF Mark, SetTask, IntegrationInv, ControlInv, Pending, TypeOK
    <3>2. QED BY <2>1, <2>3, <3>1 DEF Mark, Forget, TypeOK
  <2>4. ASSUME NEW u \in Task, Create(u)
        PROVE  t \in dirs' /\ work'[t] = work[t]
    BY <2>1, <2>4 DEF Create, HasWorktree, TypeOK
  <2>5. ASSUME NEW u \in Task, NEW p, NEW c, ClaudeEdits(u, p, c)
        PROVE  t \in dirs' /\ (work'[t] = work[t] \/ wpc[t] = "claude")
    BY <2>1, <2>5 DEF ClaudeEdits, Work, TypeOK
  <2>6. ASSUME NEW u \in Task, Worktree(u) \/ Attempt(u) \/ Review(u) \/ Integrate(u),
               ~Create(u), \A p, c : ~ClaudeEdits(u, p, c)
        PROVE  UNCHANGED <<dirs, work>>
    BY <2>6 DEF Worktree, Reuse, CreateFails, Attempt, StartAttempt, ClaudeCompletes,
                ClaudeStops, Review, ReviewRetries, ReviewBlocks, Capture, CaptureRefuses,
                Ready, Integrate, Apply, RecoverConflict, IntegrateConflict, OutcomeBlocked,
                ApplyTorn, diskVars
  <2>7. ASSUME Resume \/ RecoverDone \/ ResumeTasks \/ Finish \/ Gather \/ WaveEnds \/ Ends
               \/ \E W \in SUBSET Task : StartWave(W)
        PROVE  UNCHANGED <<dirs, work>>
    BY <2>7 DEF Resume, RecoverDone, ResumeTasks, Recovered, Finish, Gather, WaveEnds, Ends,
                StartWave, diskVars
  <2>8. QED BY <2>2, <2>3, <2>4, <2>5, <2>6, <2>7 DEF Next
<1>2. QED BY <1>1, IntegrationAlways, PTL DEF Spec, WorkSurvives

-----------------------------------------------------------------------------
(* The loops over patches are those of Controller.                         *)

\* The patch that has been applied is still the first of its loop.
HandInv == pc = "applied" => IsFirst(cur, Todo)

LEMMA HandNext ==
  ASSUME IntegrationInv, HandInv, [Next]_vars
  PROVE  HandInv'
<1> USE DEF HandInv, recordVars, diskVars
<1>1. CASE pc' # "applied"
  BY <1>1
<1>2. CASE pc' = "applied" /\ UNCHANGED <<pc, st, wpc, mode, cur>>
  BY <1>2 DEF IsFirst, Todo, Pending, Outcomes
<1>3. ASSUME NEW t \in Task, Apply(t) PROVE HandInv'
  BY <1>3 DEF Apply, InHand, IsFirst, Todo, Pending, Outcomes
<1>4. ASSUME NEW t \in Task, Worktree(t) \/ Attempt(t) \/ Review(t) PROVE HandInv'
  <2>1. CASE CreateFails(t)
    BY <1>1, <2>1 DEF CreateFails, Down
  <2>2. CASE ~CreateFails(t)
    <3>1. pc' = "wave"
      BY <1>4, <2>2 DEF Worktree, Reuse, Create, Attempt, StartAttempt, ClaudeCompletes,
         ClaudeStops, ClaudeEdits, Review, ReviewRetries, ReviewBlocks, Capture,
         CaptureRefuses, Ready, Work
    <3>2. QED BY <1>1, <3>1
  <2>3. QED BY <2>1, <2>2
<1>5. ASSUME NEW t \in Task, Integrate(t) PROVE HandInv'
  BY <1>1, <1>3, <1>5 DEF Integrate, RecoverConflict, IntegrateConflict, OutcomeBlocked, ApplyTorn,
     Down, InHand
<1>6. CASE \/ Resume \/ RecoverDone \/ ResumeTasks \/ Finish \/ Gather \/ Mark \/ WaveEnds
           \/ Ends \/ \E W \in SUBSET Task : StartWave(W)
  BY <1>1, <1>6 DEF Resume, RecoverDone, ResumeTasks, Recovered, Finish, Down, Gather, Mark,
     WaveEnds, StartWave, Ends
<1>7. CASE UNCHANGED vars
  BY <1>2, <1>7 DEF vars, ctlVars
<1>8. QED BY <1>4, <1>5, <1>6, <1>7 DEF Next

\* Between commands the tree is what process.md takes it for.
LEMMA TreesAreSets ==
  ASSUME IntegrationInv
  PROVE  /\ DigestPatches = Range(accepted)
         /\ pc = "applied" => TreePatches = Range(accepted) \cup {cur}
         /\ pc # "applied" => TreePatches = Range(accepted)
BY DEF IntegrationInv, TreeInv, DigestPatches, OnDigest, TreePatches

\* Applying a patch, during recovery or after a wave.
LEMMA ApplyIsOne ==
  ASSUME IntegrationInv, IntegrationInv', NEW t \in Task, Apply(t)
  PROVE  C!Recovery \/ C!Integration
<1>1. /\ pc = "loop" /\ pc' = "applied" /\ cur' = t /\ IsFirst(t, Todo)
      /\ UNCHANGED <<st, att, patch, remembered, accepted, digest, wpc, mode>>
      /\ mode = "integrate" => wpc[t] = "accepted"
  BY DEF Apply, InHand, recordVars
<1>2. mode \in {"recover", "integrate"}
  BY <1>1 DEF IntegrationInv, ControlInv, TypeOK
<1>3. /\ DigestPatches = Range(accepted) /\ DigestPatches' = Range(accepted)
      /\ TreePatches = Range(accepted) /\ TreePatches' = Range(accepted) \cup {t}
  BY <1>1, TreesAreSets DEF IntegrationInv, TreeInv, DigestPatches, OnDigest, TreePatches
<1>4. Pending' = Pending
  BY <1>1 DEF Pending
<1>5. CASE mode = "recover"
  <2>1. C!RecoverApply(t)
    BY <1>1, <1>3, <1>4, <1>5 DEF C!RecoverApply, C!Step, C!IsFirst, C!runVars, C!taskVars, LoopAt,
       IsFirst, Todo
  <2>2. QED BY <2>1 DEF C!Recovery
<1>6. CASE mode = "integrate"
  <2>1. C!IntegrateApply(t)
    BY <1>1, <1>3, <1>4, <1>6 DEF C!IntegrateApply, C!Step, C!IsFirst, C!Outcomes, C!runVars,
       C!taskVars, LoopAt, IsFirst, Todo, Outcomes
  <2>2. QED BY <2>1 DEF C!Integration
<1>7. QED BY <1>2, <1>5, <1>6

\* Recording it: the record, the list, the digest and the worktree at once.
LEMMA MarkIsOne ==
  ASSUME IntegrationInv, IntegrationInv', HandInv, Mark
  PROVE  C!Recovery \/ C!Integration
<1>1. /\ pc = "applied" /\ pc' = "loop" /\ UNCHANGED <<att, tree, mode>>
      /\ st' = [st EXCEPT ![cur] = "COMPLETED"] /\ remembered' = remembered \ {cur}
      /\ wpc' = [wpc EXCEPT ![cur] = "idle"]
      /\ accepted' = IF cur \in Range(accepted) THEN accepted ELSE Append(accepted, cur)
  BY DEF Mark, SetTask, Forget, Handled
<1>2. /\ cur \in Pending /\ IsFirst(cur, Todo) /\ cur \in Task
      /\ mode \in {"recover", "integrate"} /\ accepted \in Seq(Task)
      /\ wpc \in [Task -> {"idle", "begin", "attempt", "claude", "review", "captured",
                           "accepted", "blocked"}]
  BY <1>1 DEF IntegrationInv, ControlInv, TypeOK, HandInv, Pending
<1>3. Range(accepted') = Range(accepted) \cup {cur}
  <2>1. CASE cur \in Range(accepted)
    BY <1>1, <2>1
  <2>2. CASE cur \notin Range(accepted)
    <3>1. /\ accepted' = Append(accepted, cur) /\ accepted' \in Seq(Task)
          /\ Len(accepted') = Len(accepted) + 1
      BY <1>1, <1>2, <2>2
    <3>2. /\ DOMAIN accepted = 1..Len(accepted) /\ Len(accepted) \in Nat
          /\ DOMAIN accepted' = 1..(Len(accepted) + 1)
      BY <1>2, <3>1
    <3>3. /\ \A i \in 1..Len(accepted) : accepted'[i] = accepted[i]
          /\ accepted'[Len(accepted) + 1] = cur
      BY <1>2, <3>1
    <3>4. QED BY <3>2, <3>3 DEF Range
  <2>3. QED BY <2>1, <2>2
<1>4. /\ DigestPatches = Range(accepted) /\ DigestPatches' = Range(accepted')
      /\ TreePatches = Range(accepted) \cup {cur} /\ TreePatches' = Range(accepted')
  BY <1>1, TreesAreSets DEF IntegrationInv, TreeInv, DigestPatches, OnDigest, TreePatches
<1>5. Pending' = Pending \ {cur} /\ st[cur] \in {"READY_TO_INTEGRATE", "INTEGRATING"}
  BY <1>1, <1>2 DEF Pending, IntegrationInv, TypeOK
<1>6. CASE mode = "recover"
  <2>1. wpc' = wpc
    BY <1>1, <1>2, <1>6 DEF IntegrationInv, ControlInv, NoWorkers
  <2>2. C!Record(cur)
    BY <1>1, <1>3, <1>4 DEF C!Record
  <2>3. C!RecoverMark(cur)
    BY <1>1, <1>2, <1>5, <1>6, <2>1, <2>2 DEF C!RecoverMark, C!Step, C!IsFirst, C!runVars,
       LoopAt, IsFirst, Todo
  <2>4. QED BY <1>2, <2>3 DEF C!Recovery
<1>7. CASE mode = "integrate"
  <2>1. C!Record(cur)
    BY <1>1, <1>3, <1>4 DEF C!Record
  <2>2. C!CanTask(st[cur], "INTEGRATING")
    BY <1>5 DEF C!CanTask, C!TaskEdges
  <2>3. C!IntegrateMark(cur)
    BY <1>1, <1>2, <1>7, <2>1, <2>2 DEF C!IntegrateMark, C!Step, C!IsFirst, C!Outcomes, C!Handled,
       C!runVars, LoopAt, IsFirst, Todo, Outcomes
  <2>4. QED BY <1>2, <2>3 DEF C!Integration
<1>8. QED BY <1>2, <1>6, <1>7

\* An outcome that is no patch of the tree: one git refuses, or a worker that
\* had none.
LEMMA RejectIsOne ==
  ASSUME IntegrationInv, IntegrationInv', NEW t \in Task,
         IntegrateConflict(t) \/ OutcomeBlocked(t)
  PROVE  C!Integration
<1>1. /\ pc = "loop" /\ mode = "integrate" /\ IsFirst(t, Outcomes)
      /\ wpc' = [wpc EXCEPT ![t] = "idle"]
      /\ UNCHANGED <<att, patch, remembered, accepted, digest, tree, pc, mode>>
  BY DEF IntegrateConflict, OutcomeBlocked, InHand, Todo, Handled, diskVars
<1>2. /\ DigestPatches = Range(accepted) /\ DigestPatches' = Range(accepted)
      /\ TreePatches = Range(accepted) /\ TreePatches' = Range(accepted)
  BY <1>1, TreesAreSets DEF IntegrationInv, TreeInv, DigestPatches, OnDigest, TreePatches
<1>3. CASE IntegrateConflict(t)
  <2>1. wpc[t] = "accepted" /\ st[t] = "READY_TO_INTEGRATE"
        /\ st' = [st EXCEPT ![t] = "INTEGRATION_BLOCKED"]
    BY <1>1, <1>3 DEF IntegrateConflict, InHand, SetTask, IntegrationInv, ControlInv, TypeOK, Pending
  <2>2. t \notin Range(accepted)
    BY <2>1 DEF IntegrationInv, RecordsInv, Range
  <2>3. C!SetTask(t, "INTEGRATION_BLOCKED")
    BY <2>1 DEF C!SetTask, C!CanTask, C!TaskEdges
  <2>4. C!IntegrateConflict(t)
    BY <1>1, <1>2, <2>1, <2>2, <2>3 DEF C!IntegrateConflict, C!Step, C!IsFirst, C!Outcomes,
       C!Handled, C!runVars, C!patchVars, LoopAt, IsFirst, Outcomes
  <2>5. QED BY <2>4 DEF C!Integration
<1>4. CASE OutcomeBlocked(t)
  <2>1. /\ wpc[t] = "blocked"
        /\ st' = [st EXCEPT ![t] = IF st[t] = "INTEGRATION_BLOCKED" THEN st[t] ELSE "BLOCKED"]
    BY <1>4 DEF OutcomeBlocked, SetTask
  <2>2. /\ st \in [Task -> {"PENDING", "READY", "RUNNING", "RETRYING", "BLOCKED",
                            "READY_TO_INTEGRATE", "COMPLETED", "INTEGRATION_BLOCKED"}]
        /\ st[t] \notin {"READY_TO_INTEGRATE", "COMPLETED"}
    BY <1>1, <2>1 DEF IntegrationInv, ControlInv, TypeOK, Pending
  <2>3. \/ st[t] \in {"BLOCKED", "INTEGRATION_BLOCKED"} /\ st' = st
        \/ st[t] \notin {"BLOCKED", "INTEGRATION_BLOCKED"} /\ C!SetTask(t, "BLOCKED")
    <3>1. CASE st[t] \in {"BLOCKED", "INTEGRATION_BLOCKED"}
      BY <2>1, <2>2, <3>1
    <3>2. CASE st[t] \notin {"BLOCKED", "INTEGRATION_BLOCKED"}
      <4>1. C!CanTask(st[t], "BLOCKED")
        BY <2>2, <3>2 DEF C!CanTask, C!TaskEdges
      <4>2. QED BY <2>1, <3>2, <4>1 DEF C!SetTask
    <3>3. QED BY <3>1, <3>2
  <2>4. C!IntegrateBlocked(t)
    BY <1>1, <1>2, <2>1, <2>3 DEF C!IntegrateBlocked, C!Step, C!IsFirst, C!Outcomes,
       C!Handled, C!runVars, C!patchVars, LoopAt, IsFirst, Outcomes
  <2>5. QED BY <2>4 DEF C!Integration
<1>5. QED BY <1>3, <1>4

\* The ends of the two loops.
LEMMA EndIsOne ==
  ASSUME IntegrationInv, IntegrationInv', RecoverDone \/ WaveEnds
  PROVE  C!Recovery \/ C!Integration
<1>1. /\ pc = "loop" /\ pc' = "load" /\ Todo = {} /\ mode' = "none"
      /\ UNCHANGED <<st, att, patch, remembered, accepted, digest, tree, wpc>>
  BY DEF RecoverDone, Recovered, WaveEnds, recordVars, diskVars
<1>2. /\ DigestPatches = Range(accepted) /\ DigestPatches' = Range(accepted)
      /\ TreePatches = Range(accepted) /\ TreePatches' = Range(accepted)
  BY <1>1, TreesAreSets DEF IntegrationInv, TreeInv, DigestPatches, OnDigest, TreePatches
<1>3. CASE RecoverDone
  <2>1. mode = "recover" /\ Pending = {} /\ Pending' = {}
    BY <1>1, <1>3 DEF RecoverDone, Recovered, Todo, Pending
  <2>2. C!RecoverDone
    BY <1>1, <1>2, <2>1 DEF C!RecoverDone, C!Step, C!runVars, C!taskVars, C!patchVars, LoopAt
  <2>3. QED BY <2>2 DEF C!Recovery
<1>4. CASE WaveEnds
  <2>1. mode = "integrate" /\ Outcomes = {}
    BY <1>1, <1>4 DEF WaveEnds, Todo
  <2>2. C!WaveEnd
    BY <1>1, <1>2, <2>1 DEF C!WaveEnd, C!Step, C!Outcomes, C!runVars, C!taskVars, C!patchVars,
       LoopAt, Outcomes
  <2>3. QED BY <2>2 DEF C!Integration
<1>5. QED BY <1>3, <1>4

\* What Controller takes for one step of its recovery and its integration is
\* what the commands of git, the artifacts and the worktrees make of it, for
\* any tasks, places and contents: a patch is in the tree or it is not.
THEOREM LoopsImplementController == Spec => ImplementsLoops
<1>1. Init => HandInv
  BY DEF Init, HandInv
<1>2. IntegrationInv /\ HandInv /\ [Next]_vars => HandInv'
  BY HandNext
<1>3. ASSUME IntegrationInv, IntegrationInv', HandInv, [Next]_vars
      PROVE  [(pc \in {"loop", "applied"} /\ pc' # "down") =>
                C!Recovery \/ C!Integration \/ ResumeTasks]_vars
  <2> SUFFICES ASSUME Next, pc \in {"loop", "applied"}, pc' # "down"
               PROVE  C!Recovery \/ C!Integration \/ ResumeTasks
    BY <1>3
  <2>1. ASSUME NEW t \in Task PROVE ~Worktree(t) /\ ~Attempt(t) /\ ~Review(t)
    BY DEF Worktree, Reuse, Create, CreateFails, Attempt, StartAttempt, ClaudeCompletes,
       ClaudeStops, ClaudeEdits, Review, ReviewRetries, ReviewBlocks, Capture, CaptureRefuses,
       Ready, Work
  <2>2. ~Resume /\ ~Finish /\ ~Gather /\ ~Ends /\ \A W \in SUBSET Task : ~StartWave(W)
    BY DEF Resume, Finish, Gather, Ends, Down, StartWave
  <2>3. ASSUME NEW t \in Task, Integrate(t)
        PROVE  Apply(t) \/ IntegrateConflict(t) \/ OutcomeBlocked(t)
    BY <2>3 DEF Integrate, RecoverConflict, ApplyTorn, Down
  <2>4. QED
    BY <1>3, <2>1, <2>2, <2>3, ApplyIsOne, MarkIsOne, RejectIsOne, EndIsOne DEF Next
<1>4. QED BY <1>1, <1>2, <1>3, IntegrationAlways, PTL DEF Spec, ImplementsLoops

=============================================================================
