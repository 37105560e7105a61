SPECIFICATION FairSpec
CONSTANTS
  r1 = r1
  r2 = r2
  Requests = {r1, r2}
  NoRequest = NoRequest
  RecentLimit = 1
  MaxEpoch = 2
INVARIANTS
  TypeOK
  SingleWriter
  StuckOnlyIfStoppedOrGone
  UserStopHonoured
  CompletionHasTerminal
PROPERTIES
  TerminalWrittenOnce
  ImplementsLifecycle
  RunsSettle
