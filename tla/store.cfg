SPECIFICATION FairSpec
CONSTANTS
  c1 = c1
  c2 = c2
  c3 = c3
  free = free
  Client = {c1, c2, c3}
  Free = free
  MaxCommits = 3
INVARIANTS
  TypeOK
  RevisionsAreStored
PROPERTIES
  ImplementsAtomicStore
  CallsReturn
CHECK_DEADLOCK FALSE
