SPECIFICATION Spec
CONSTANTS
  Task = {1, 2, 3}
  a = a
  b = b
  Place = {a, b}
  Content = {0, 1}
  Missing = 0
  InitialHead <- CleanHead
  WriteScopes <- Scopes
  Touches <- Edits
  MaxAttempts = 2
  NoPatch = NoPatch
  NoTask = NoTask
INVARIANTS
  RetryCanBeCaptured
CHECK_DEADLOCK FALSE
