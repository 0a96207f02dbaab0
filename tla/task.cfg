SPECIFICATION FairSpec
CONSTANTS
  Task = {1, 2}
  MaxAttempts = 2
  MaxRotations = 1
  MaxLaunches = 2
  NoTask = 0
  Leftover = 99
INVARIANTS
  TypeOK
  RotationsBounded
PROPERTIES
  ReviewIsOwn
  ImplementsWorker
  WaveAdvances
  WorkerEnds
CHECK_DEADLOCK FALSE
