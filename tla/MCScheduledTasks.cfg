SPECIFICATION FairSpec
CONSTANTS
  NumTasks = 1
  Policies = {"new", "existing"}
  MaxTime = 2
  MaxRuns = 2
  MaxEdits = 1
  MaxFaults = 2
  MaxHosts = 2
INVARIANTS NoOverlap SlotOnce
PROPERTY OrphansSettle
CHECK_DEADLOCK FALSE
