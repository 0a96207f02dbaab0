SPECIFICATION FairSpec
CONSTANTS
  Modes = {"hidden", "claude", "codex"}
  Prompt = 3
  Lines = 3
  Cap = 1
  MaxOutput = 2
INVARIANTS
  TypeOK
  ResultIsComplete
  CompletionNotMissed
  StoppedIsReaped
PROPERTIES
  CallEnds
CHECK_DEADLOCK FALSE
