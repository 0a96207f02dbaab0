------------------------------- MODULE Scopes -------------------------------
(***************************************************************************)
(* Repository paths and the write scopes of tasks (security.py, and        *)
(* is_global_scope of scheduler.py).  A path is the sequence of its        *)
(* segments; normalize_repo_path leaves a scope as a path that either has  *)
(* a trailing slash (a directory, with everything below it) or has not (a  *)
(* file).  Letter case matters, as in the code's comparisons.              *)
(*                                                                         *)
(* An operator X_Y is a mutant of X, which Next does not use: the code     *)
(* with a plausible bug Y that a property must catch.                      *)
(***************************************************************************)
EXTENDS Naturals, Sequences

CONSTANTS
  Segment,      \* names a segment may have
  GlobalNames,  \* _GLOBAL_NAMES: lock files and manifests of the root
  GlobalRoots   \* _GLOBAL_PREFIXES, without the slash

ASSUME SegmentAssumption == Segment # {}
ASSUME GlobalAssumption  == GlobalNames \cup GlobalRoots \subseteq Segment

\* Paths of the repository, from its root.
Path  == Seq(Segment) \ {<<>>}
Scope == [path : Path, dir : BOOLEAN]

Begins(prefix, path) == /\ Len(prefix) <= Len(path)
                        /\ \A i \in 1..Len(prefix) : prefix[i] = path[i]

\* scope_owns_path: a directory owns what is below it, not its own name.
Owns(scope, path) == \/ scope.dir /\ Begins(scope.path, path) /\ Len(scope.path) < Len(path)
                     \/ ~scope.dir /\ scope.path = path

\* lhs.endswith("/") and rhs.startswith(lhs).
Contains(lhs, rhs) == /\ lhs.dir
                      /\ Begins(lhs.path, rhs.path)
                      /\ rhs.dir \/ Len(lhs.path) < Len(rhs.path)

Overlap_OneWay(lhs, rhs) == lhs = rhs \/ Contains(lhs, rhs)

\* scopes_overlap
Overlap(lhs, rhs) == lhs = rhs \/ Contains(lhs, rhs) \/ Contains(rhs, lhs)

\* is_global_scope
IsGlobal(scope) == \/ scope.path[1] \in GlobalRoots
                   \/ scope.path[1] \in GlobalNames /\ Len(scope.path) = 1
=============================================================================
