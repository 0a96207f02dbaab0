------------------------------ MODULE Statuses ------------------------------
(***************************************************************************)
(* The statuses a run, a task and a requirement revision go through, and   *)
(* the two transition tables of state.py.  The controller consults the run *)
(* table in every RunState.transition and the task table wherever it calls *)
(* validate_task_transition; the places that assign a status without       *)
(* consulting the table are spelled out in the modules that do so.         *)
(***************************************************************************)

RunStatus == {"PREPARING", "PLANNING", "SCHEDULING", "EXECUTING",
              "INTEGRATING", "REPLAN_PENDING", "REPLANNING", "COMPLETED",
              "PAUSED", "BLOCKED"}

TaskStatus == {"PENDING", "READY", "RUNNING", "VERIFYING", "REVIEWING",
               "READY_TO_INTEGRATE", "INTEGRATING", "RETRYING", "COMPLETED",
               "BLOCKED", "INTEGRATION_BLOCKED", "SUPERSEDED"}

\* The two revision statuses the program ever stores.
RevisionStatus == {"QUEUED", "APPLIED"}

RunEdges ==
  [PREPARING      |-> {"PLANNING", "REPLAN_PENDING", "PAUSED", "BLOCKED"},
   PLANNING       |-> {"SCHEDULING", "REPLAN_PENDING", "PAUSED", "BLOCKED"},
   SCHEDULING     |-> {"EXECUTING", "INTEGRATING", "REPLAN_PENDING",
                       "PAUSED", "BLOCKED"},
   EXECUTING      |-> {"SCHEDULING", "INTEGRATING", "REPLAN_PENDING",
                       "PAUSED", "BLOCKED"},
   INTEGRATING    |-> {"SCHEDULING", "REPLAN_PENDING", "COMPLETED",
                       "PAUSED", "BLOCKED"},
   REPLAN_PENDING |-> {"REPLANNING", "PAUSED", "BLOCKED"},
   REPLANNING     |-> {"SCHEDULING", "PAUSED", "BLOCKED"},
   COMPLETED      |-> {"REPLANNING"},
   PAUSED         |-> {"PLANNING", "REPLANNING", "SCHEDULING", "BLOCKED"},
   BLOCKED        |-> {"REPLANNING", "SCHEDULING"}]

TaskEdges ==
  [PENDING             |-> {"READY", "BLOCKED", "SUPERSEDED"},
   READY               |-> {"RUNNING", "BLOCKED", "SUPERSEDED"},
   RUNNING             |-> {"VERIFYING", "RETRYING", "BLOCKED"},
   VERIFYING           |-> {"REVIEWING", "RETRYING", "BLOCKED"},
   REVIEWING           |-> {"READY_TO_INTEGRATE", "RETRYING", "BLOCKED",
                            "INTEGRATION_BLOCKED"},
   READY_TO_INTEGRATE  |-> {"INTEGRATING", "INTEGRATION_BLOCKED"},
   INTEGRATING         |-> {"COMPLETED", "INTEGRATION_BLOCKED"},
   RETRYING            |-> {"RUNNING", "BLOCKED"},
   COMPLETED           |-> {},
   BLOCKED             |-> {"RETRYING"},
   INTEGRATION_BLOCKED |-> {},
   SUPERSEDED          |-> {}]

\* validate_run_transition and validate_task_transition: staying put is
\* always allowed.
CanRun(current, target)  == target = current \/ target \in RunEdges[current]
CanTask(current, target) == target = current \/ target \in TaskEdges[current]

=============================================================================
