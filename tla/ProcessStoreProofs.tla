------------------------- MODULE ProcessStoreProofs -------------------------
(***************************************************************************)
(* Proofs about ProcessStore, for any number of processes and of updates:  *)
(* the state lock excludes, process.md is an atomic register, and every    *)
(* revision it lists has been stored.                                      *)
(***************************************************************************)
EXTENDS ProcessStore, SequenceTheorems, TLAPS

LEMMA TypeInit == Init => TypeOK
BY FreeAssumption DEF Init, TypeOK, StateType, Created, Holding, Waiting

LEMMA OperationType ==
  ASSUME TypeOK, NEW c \in Client, Operation(c)
  PROVE  TypeOK'
<1> USE FreeAssumption DEF TypeOK, Holding, Waiting, Op
<1>1. CASE Acquire(c)
  BY <1>1 DEF Acquire
<1>2. CASE TimesOut(c)
  BY <1>2 DEF TimesOut, Return
<1>3. CASE Fetch(c)
  BY <1>3 DEF Fetch
<1>4. CASE Compare(c)
  BY <1>4 DEF Compare
<1>5. CASE CreateRevision(c)
  <2>1. view[c].revs + 1 \in Nat
    BY DEF StateType
  <2>2. QED BY <1>5, <2>1 DEF CreateRevision
<1>6. CASE Raise(c)
  BY <1>6 DEF Raise
<1>7. CASE WriteTemporary(c)
  BY <1>7 DEF WriteTemporary
<1>8. CASE Replace(c)
  <2>1. Append(view[c].log, c) \in Seq(Client)
    BY AppendProperties DEF StateType
  <2>2. file' \in StateType
    BY <1>8, <2>1 DEF Replace, StateType
  <2>3. QED BY <1>8, <2>2 DEF Replace
<1>9. CASE Release(c)
  BY <1>9 DEF Release, Return
<1>10. QED BY <1>1, <1>2, <1>3, <1>4, <1>5, <1>6, <1>7, <1>8, <1>9 DEF Operation

LEMMA TypeNext == TypeOK /\ [Next]_vars => TypeOK'
<1> SUFFICES ASSUME TypeOK, [Next]_vars PROVE TypeOK'
  OBVIOUS
<1>1. ASSUME NEW c \in Client, Load(c) PROVE TypeOK'
  BY <1>1 DEF Load, TypeOK
<1>2. ASSUME NEW c \in Client, NEW o \in Op, Call(c, o) PROVE TypeOK'
  BY <1>2 DEF Call, TypeOK, Holding, Waiting
<1>3. ASSUME NEW c \in Client, Crash(c) PROVE TypeOK'
  BY <1>3, FreeAssumption DEF Crash, Return, TypeOK, Holding, Waiting
<1>4. CASE UNCHANGED vars
  BY <1>4 DEF vars, TypeOK
<1>5. QED BY <1>1, <1>2, <1>3, <1>4, OperationType DEF Next

\* The state lock excludes: at most one process is between the load and the
\* write of an update.
THEOREM StoreTypeCorrect == Spec => []TypeOK
BY TypeInit, TypeNext, PTL DEF Spec

-----------------------------------------------------------------------------

LEMMA StoreInit == Init => StoreInv
BY DEF Init, Created, StoreInv

\* Steps that write neither process.md nor what the processes know of it, and
\* bring nobody closer to writing.
LEMMA StoreQuiet ==
  ASSUME StoreInv, UNCHANGED <<file, view>>,
         \A c \in Client : at'[c] \in {"create", "write", "replace"} =>
                             at[c] \in {"create", "write", "replace"}
  PROVE  StoreInv'
BY DEF StoreInv

LEMMA StoreNext == TypeOK /\ StoreInv /\ [Next]_vars => StoreInv'
<1> SUFFICES ASSUME TypeOK, StoreInv, [Next]_vars PROVE StoreInv'
  OBVIOUS
<1> USE DEF TypeOK
<1>1. ASSUME NEW c \in Client, Load(c) PROVE StoreInv'
  BY <1>1 DEF Load, StoreInv, StateType
<1>2. ASSUME NEW c \in Client, Fetch(c) PROVE StoreInv'
  BY <1>2 DEF Fetch, StoreInv, StateType
<1>3. ASSUME NEW c \in Client, Compare(c) PROVE StoreInv'
  BY <1>3 DEF Compare, StoreInv
<1>4. ASSUME NEW c \in Client, Replace(c) PROVE StoreInv'
  \* Nobody else is about to write, and no state was as new as this one.
  <2>1. \A d \in Client \ {c} : at[d] \notin {"create", "write", "replace"}
    BY <1>4 DEF Replace, Holding
  <2>2. view[c] = file /\ file' = view'[c] /\ file'.gen = file.gen + 1
    BY <1>4 DEF Replace, StoreInv
  <2>3. \A d \in Client \ {c} : view'[d] = view[d] /\ view'[d].gen < file'.gen
    BY <1>4, <2>2 DEF Replace, StoreInv, StateType
  <2>4. \A d \in Client \ {c} : at'[d] = at[d]
    BY <1>4 DEF Replace
  <2>5. \A d \in Client : view[d].gen \in Nat /\ file.gen \in Nat
    BY DEF StateType
  <2>6. ASSUME NEW d \in Client \ {c}
        PROVE  /\ view'[d].gen <= file'.gen
               /\ view'[d].gen # file'.gen
               /\ at'[d] \notin {"create", "write", "replace"}
    BY <2>1, <2>2, <2>3, <2>4, <2>5
  <2>7. view'[c].gen <= file'.gen
    BY <2>2, <2>5
  <2>8. QED BY <2>2, <2>6, <2>7 DEF StoreInv
<1>5. ASSUME NEW c \in Client,
             \/ Acquire(c) \/ TimesOut(c) \/ CreateRevision(c) \/ Raise(c)
             \/ WriteTemporary(c) \/ Release(c) \/ Crash(c)
      PROVE  StoreInv'
  BY <1>5, StoreQuiet DEF Acquire, TimesOut, CreateRevision, Raise, WriteTemporary,
     Release, Crash, Return
<1>6. ASSUME NEW c \in Client, NEW o \in Op, Call(c, o) PROVE StoreInv'
  BY <1>6, StoreQuiet DEF Call
<1>7. CASE UNCHANGED vars
  BY <1>7, StoreQuiet DEF vars
<1>8. QED BY <1>1, <1>2, <1>3, <1>4, <1>5, <1>6, <1>7 DEF Next, Operation

\* The refinement, step by step: replacing the file commits, loading observes,
\* and nothing else is visible.
LEMMA InitImplements == Init => Atomic!Init
BY DEF Init, Created, Atomic!Init

LEMMA NextImplements ==
  TypeOK /\ StoreInv /\ [Next]_vars => [Atomic!Next]_(Atomic!storeVars)
<1> SUFFICES ASSUME TypeOK, StoreInv, [Next]_vars
             PROVE  Atomic!Next \/ UNCHANGED Atomic!storeVars
  OBVIOUS
<1> USE DEF TypeOK, Atomic!storeVars
<1>1. ASSUME NEW c \in Client, Load(c) \/ Fetch(c) PROVE Atomic!Observe(c)
  BY <1>1 DEF Load, Fetch, Atomic!Observe
<1>2. ASSUME NEW c \in Client, Replace(c) PROVE Atomic!Commit(c)
  <2>1. file'.log = Append(file.log, c)
    BY <1>2 DEF Replace, StoreInv
  <2>2. view' = [view EXCEPT ![c] = file']
    BY <1>2 DEF Replace
  <2>3. [d \in Client |-> view'[d].log]
          = [[d \in Client |-> view[d].log] EXCEPT ![c] = file'.log]
    BY <2>2
  <2>4. QED BY <2>1, <2>3 DEF Atomic!Commit
<1>3. ASSUME NEW c \in Client,
             \/ Acquire(c) \/ TimesOut(c) \/ Compare(c) \/ CreateRevision(c) \/ Raise(c)
             \/ WriteTemporary(c) \/ Release(c) \/ Crash(c)
             \/ \E o \in Op : Call(c, o)
      PROVE  UNCHANGED Atomic!storeVars
  BY <1>3 DEF Acquire, TimesOut, Compare, CreateRevision, Raise, WriteTemporary,
     Release, Crash, Call
<1>4. CASE UNCHANGED vars
  BY <1>4 DEF vars
<1>5. QED BY <1>1, <1>2, <1>3, <1>4 DEF Next, Operation, Atomic!Next

\* update(), save() and the lock-free load() together are an atomic register:
\* no update is lost, repeated or undone, whoever crashes or times out when.
THEOREM StoreIsAtomic == Spec => ImplementsAtomicStore
<1>1. Init => TypeOK /\ StoreInv /\ Atomic!Init
  BY TypeInit, StoreInit, InitImplements
<1>2. TypeOK /\ StoreInv /\ [Next]_vars =>
        (TypeOK /\ StoreInv)' /\ [Atomic!Next]_(Atomic!storeVars)
  BY TypeNext, StoreNext, NextImplements
<1>3. QED BY <1>1, <1>2, PTL DEF Spec, ImplementsAtomicStore, Atomic!Spec

-----------------------------------------------------------------------------

LEMMA RevisionsInit == Init => RevisionsInv
BY DEF Init, Created, RevisionsInv, RevisionsAreStored

LEMMA RevisionsNext ==
  TypeOK /\ StoreInv /\ RevisionsInv /\ [Next]_vars => RevisionsInv'
<1> SUFFICES ASSUME TypeOK, StoreInv, RevisionsInv, [Next]_vars PROVE RevisionsInv'
  OBVIOUS
<1> USE DEF TypeOK
<1>1. ASSUME NEW c \in Client, Replace(c) PROVE RevisionsInv'
  <2>1. view[c] = file /\ view[c].revs \in Nat /\ UNCHANGED artifacts
    BY <1>1 DEF Replace, StoreInv, StateType
  <2>2. 1..file'.revs \subseteq artifacts
    <3>1. CASE op[c] = "add"
      <4>1. file.revs + 1 \in artifacts
        BY <1>1, <2>1, <3>1 DEF Replace, RevisionsInv
      <4>2. file'.revs = file.revs + 1
        BY <1>1, <2>1, <3>1 DEF Replace
      <4>3. 1..(file.revs + 1) = 1..file.revs \cup {file.revs + 1}
        BY <2>1
      <4>4. QED BY <4>1, <4>2, <4>3 DEF RevisionsInv, RevisionsAreStored
    <3>2. CASE op[c] # "add"
      BY <1>1, <2>1, <3>2 DEF Replace, RevisionsInv, RevisionsAreStored
    <3>3. QED BY <3>1, <3>2
  <2>3. \A d \in Client : at'[d] \notin {"write", "replace"}
    BY <1>1 DEF Replace, Holding
  <2>4. QED BY <2>1, <2>2, <2>3 DEF RevisionsInv, RevisionsAreStored
<1>2. ASSUME NEW c \in Client, CreateRevision(c) PROVE RevisionsInv'
  <2>1. artifacts \subseteq artifacts' /\ view[c].revs + 1 \in artifacts'
    BY <1>2 DEF CreateRevision
  <2>2. UNCHANGED <<file, view, op>> /\ \A d \in Client \ {c} : at'[d] = at[d]
    BY <1>2 DEF CreateRevision
  <2>3. QED BY <2>1, <2>2 DEF RevisionsInv, RevisionsAreStored
<1>3. ASSUME NEW c \in Client,
             \/ Load(c) \/ Acquire(c) \/ TimesOut(c) \/ Fetch(c) \/ Compare(c) \/ Raise(c)
             \/ WriteTemporary(c) \/ Release(c) \/ Crash(c)
             \/ \E o \in Op : Call(c, o)
      PROVE  RevisionsInv'
  BY <1>3 DEF Load, Acquire, TimesOut, Fetch, Compare, Raise, WriteTemporary,
     Release, Crash, Call, Return, RevisionsInv, RevisionsAreStored
<1>4. CASE UNCHANGED vars
  BY <1>4 DEF vars, RevisionsInv, RevisionsAreStored
<1>5. QED BY <1>1, <1>2, <1>3, <1>4 DEF Next, Operation

\* Whatever process.md lists can be read back from its artifact.
THEOREM ListedRevisionsAreStored == Spec => []RevisionsAreStored
<1>1. Init => TypeOK /\ StoreInv /\ RevisionsInv
  BY TypeInit, StoreInit, RevisionsInit
<1>2. TypeOK /\ StoreInv /\ RevisionsInv /\ [Next]_vars => (TypeOK /\ StoreInv /\ RevisionsInv)'
  BY TypeNext, StoreNext, RevisionsNext
<1>3. RevisionsInv => RevisionsAreStored
  BY DEF RevisionsInv
<1>4. QED BY <1>1, <1>2, <1>3, PTL DEF Spec
=============================================================================
