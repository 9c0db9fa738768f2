SPECIFICATION MCSpec
CONSTANTS
  Tools = {t1, t2}
  Projects = {p, q}
  Paths = {x, home}
  Broad = {home}
  MaxCalls = 3
  MaxBatches = 1
  Files = {f}
  Tracked = {f}
  Runs = 3
  MaxLive = 1
  MaxWrites = 4
  MaxAge = 0
  MaxTime = 1
  RatioNum = 1
  RatioDen = 1
SYMMETRY Symmetry
INVARIANTS
  OnlyGrantedPaths
  ReusedBriefIsCurrent
PROPERTIES
  ImplementsService
CHECK_DEADLOCK FALSE
