SPECIFICATION Spec
CONSTANTS
  Segment <- Names
  GlobalNames <- Manifests
  GlobalRoots <- Roots
  TaskLists <- SmallLists
  Lock = {"port"}
  Files <- SmallFiles
  MaxWorkers = 2
INVARIANTS
  TypeOK
  AcceptsExactlyWellFounded
  WavesAreIsolated
  GlobalRunsAlone
  StalledByStopped
PROPERTIES
  ReturnsWave
CHECK_DEADLOCK FALSE
