SPECIFICATION Spec
CONSTANTS
  MAX_RLM_ROUNDS = 2
  MAX_THINKER_RESEARCH_REQUESTS = 2
  MAX_DIRECTION_REVISIONS = 2
  MAX_PLAN_GATE_ROUNDS = 2
  MAX_FIX_ROUNDS = 1
  GateSettings = {TRUE, FALSE}
  WritesMayFail = FALSE
  MaxTasks = 3
  MaxNotes = 2
  MaxCrashes = 2
  MaxLedgers = 2
INVARIANTS
  ExecutionApproved
  PlanCompleteBeforeAnswer
  ReviewerSeesEveryTask
  RevisionNotesKept
  WorkIsAccounted
PROPERTIES
  CompletedNeverReapplied
  ImplementsPlanExecution
CHECK_DEADLOCK FALSE
