SPECIFICATION Spec
CONSTANTS
  Files = {"f", "g"}
  Existing = {"f"}
  MaxOps = 3
  MaxFaults = 1
PROPERTIES
  NothingDestroyed
  RevertReturnsToStart
  EditsAreRevertible
CHECK_DEADLOCK FALSE
