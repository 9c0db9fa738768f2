SPECIFICATION Spec
CONSTANTS
  Loops = {"direct"}
  MAX_TURNS = 2
  MAX_LLM_STREAM_RETRIES = 2
  STREAM_RESTARTS = 1
  MaxCalls = 2
  CallKinds <- MCCallKinds
  TextKinds = {"plain", "cut_tag", "tag_write", "tag_handoff"}
  OutputSizes = {3}
  OUTPUT_TOTAL = 4
  OUTPUT_CAP = 4
  OUTPUT_FLOOR = 1
  MARK = 1
INVARIANTS
  StoppedTraceWellFormed
CHECK_DEADLOCK FALSE
