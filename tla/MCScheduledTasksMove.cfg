SPECIFICATION FairSpec
CONSTANTS
  NumTasks = 2
  Policies = {"existing"}
  MaxTime = 2
  MaxRuns = 4
  MaxEdits = 0
  MaxFaults = 0
  MaxHosts = 1
PROPERTY DueTasksMove
CHECK_DEADLOCK FALSE
