SPECIFICATION Spec
CONSTANTS
  MAX_COORDINATOR_TURNS = 3
  MAX_RLM_ROUNDS = 2
  MAX_PLAN_GATE_ROUNDS = 3
  MAX_FIX_ROUNDS = 1
  LEDGER_EXEC_CHARS = 6
  VerdictChars = 1
  MaxNote = 3
  MaxTasks = 2
INVARIANTS
  ResearchBriefIsABrief
CHECK_DEADLOCK FALSE
