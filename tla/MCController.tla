---------------------------- MODULE MCController ----------------------------
(* Small instances of Controller for TLC. *)
EXTENDS Controller, TLC

CONSTANTS p1, p2, nobody

\* Two tasks side by side, or one after the other.
ParallelPlan == 1 :> {} @@ 2 :> {}
ChainPlan    == 1 :> {} @@ 2 :> {1}
\* A replan with a task of its own.
NewTask      == 3 :> {}
\* A replan that keeps the id of a task it supersedes.
SameIds      == 2 :> {}

OneTask      == 1 :> {}
SecondTask   == 2 :> {}
PlansOne     == {OneTask}
ReplansTwo   == {SecondTask}

PlansSmall   == {ParallelPlan, ChainPlan}
ReplansSame  == {SameIds, NewTask}
NoClash      == {}

\* Which process is which makes no difference to any property of that run.
Processes    == Permutations({p1, p2})
=============================================================================
