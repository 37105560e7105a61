SPECIFICATION FairSpec
CONSTANTS
  s1 = s1  s2 = s2  a = a  b = b
  Sessions = {s1}
  Clients = {a, b}
  MaxRuns = 2
  MaxCommands = 2
INVARIANTS
  StoppedIsQuiet
  StorageOutlivesWork
PROPERTIES
  IdleCloseIsIdle
  DrainFinishes
CHECK_DEADLOCK FALSE
