SPECIFICATION FreshSpec
CONSTANTS
  TaskId = {1, 2, 3}
  InitialPlans <- PlansSmall
  Replans <- ReplansSame
  Clash <- NoClash
  MaxWorkers = 2
  MaxAttempts = 2
  Proc = {p1, p2}
  p1 = p1
  p2 = p2
  nobody = nobody
  Nobody = nobody
  MaxRevisions = 2
  MaxLaunches = 3
INVARIANTS
  TypeOK
  AcceptedExactly
  CheckpointRecoverable
  DependencyOrder
  WorktreeHasDependencies
  ReplanAtSafeBoundary
  CompletedMeansDone
PROPERTIES
  CompletedPermanent
  RunAdvances
SYMMETRY Processes
CHECK_DEADLOCK FALSE
