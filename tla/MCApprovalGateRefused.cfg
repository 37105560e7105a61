SPECIFICATION Spec
CONSTANTS
  s1 = s1  a = a  b = b
  Sessions = {s1}
  Clients = {a}
  Stoppers = {}
  Drain = Drain
  MaxRuns = 1
  MaxTools = 1
  StopCommands = {}
INVARIANT ApprovedEffectsAudited
CHECK_DEADLOCK FALSE
