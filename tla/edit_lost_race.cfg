SPECIFICATION Spec
CONSTANTS
  Files = {"f"}
  Existing = {}
  MaxOps = 3
  MaxFaults = 0
PROPERTIES
  LostRaceSparesFile
CHECK_DEADLOCK FALSE
