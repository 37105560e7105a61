SPECIFICATION FairSpec
CONSTANTS
  s1 = s1  a = a  b = b
  Sessions = {s1}
  Clients = {a, b}
  Stoppers = {b}
  Drain = Drain
  MaxRuns = 2
  MaxTools = 1
  StopCommands = {"abort", "abort_retry", "abort_session"}
INVARIANTS
  NoLostWaiter
  FailedAuditBlocks
  AbortSparesNextRun
CHECK_DEADLOCK FALSE
PROPERTIES
  NoEffectAfterStop
  ShutdownEndsRuns
