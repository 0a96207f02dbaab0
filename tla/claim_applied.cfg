SPECIFICATION Spec
CONSTANTS
  TaskId = {1, 2}
  InitialPlans <- PlansOne
  Replans <- ReplansTwo
  Clash <- NoClash
  MaxWorkers = 2
  MaxAttempts = 2
  Proc = {p1}
  p1 = p1
  p2 = p2
  nobody = nobody
  Nobody = nobody
  MaxRevisions = 3
  MaxLaunches = 3
INVARIANTS
  AppliedWasPlanned
CHECK_DEADLOCK FALSE
