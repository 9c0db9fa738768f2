SPECIFICATION FairSpec
CONSTANTS
  MAX_RLM_ROUNDS = 2
  MAX_THINKER_RESEARCH_REQUESTS = 0
  MAX_DIRECTION_REVISIONS = 2
  MAX_PLAN_GATE_ROUNDS = 1
  MAX_FIX_ROUNDS = 1
  GateSettings = {TRUE}
  WritesMayFail = TRUE
  MaxTasks = 2
  MaxNotes = 1
  MaxCrashes = 1
  MaxLedgers = 1
PROPERTIES
  CheckpointAdvances
  StopEndsRun
  RunReachesGateOrEnds
CHECK_DEADLOCK FALSE
