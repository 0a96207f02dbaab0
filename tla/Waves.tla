------------------------------- MODULE Waves -------------------------------
(***************************************************************************)
(* What Scheduler.next_wave promises its caller.  Controller lets the run  *)
(* go on with any set of tasks this allows; Scheduler chooses one.         *)
(***************************************************************************)
EXTENDS Naturals, FiniteSets

\* Ready tasks only, as many as may run at a time, no two of which clash; and a
\* ready task is left out only if the wave is full or it clashes with a member.
IsWaveOf(W, ready, clash, limit) ==
  /\ W \subseteq ready
  /\ Cardinality(W) <= limit
  /\ \A t, u \in W : t # u => <<t, u>> \notin clash
  /\ \/ Cardinality(W) = limit
     \/ \A t \in ready \ W : \E u \in W : <<t, u>> \in clash
=============================================================================
