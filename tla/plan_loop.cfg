SPECIFICATION FairSpec
CONSTANTS
  Plans = {p1, p2}
  Junk = junk
  Absent = absent
  Notes = {n1, n2}
  PLAN_WRITER_SAFETY_CAP = 3
  PLAN_IMPROVE_SAFETY_CAP = 3
  MAX_PLAN_GATE_ROUNDS = 2
  Faults = {"junk", "no_submit", "text_doc", "elsewhere"}
  InitialFiles = {p1, junk, absent}
  UserMayEdit = TRUE
INVARIANTS
  ExecutorsSeeTheirPlan
  DraftWasReviewed
  ShownIsFinal
  AuditedUnlessCapped
PROPERTIES
  PlanLoopsEnd
CHECK_DEADLOCK FALSE
