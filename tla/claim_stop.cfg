SPECIFICATION Spec
CONSTANTS
  Modes = {"codex"}
  Prompt = 1
  Lines = 1
  Cap = 1
  MaxOutput = 2
INVARIANTS
  InterruptStopsAgent
CHECK_DEADLOCK FALSE
