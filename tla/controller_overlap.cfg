SPECIFICATION FairSpec
CONSTANTS
  TaskId = {1, 2}
  InitialPlans <- PlansOne
  Replans <- ReplansTwo
  Clash <- NoClash
  MaxWorkers = 2
  MaxAttempts = 2
  Proc = {p1, p2}
  p1 = p1
  p2 = p2
  nobody = nobody
  Nobody = nobody
  MaxRevisions = 2
  MaxLaunches = 2
INVARIANTS
  AcceptedExactly
PROPERTIES
  CompletedPermanent
  RunEnds
CHECK_DEADLOCK FALSE
