SPECIFICATION FairSpec
CONSTANTS
    Producers = {p1}
    MaxEvents = 2
    MaxRuns = 2
    MaxFaults = 1
    BatchMax = 2
INVARIANTS ReceiptsTrue BarrierCovers StreamsDense TerminalMissedOnlyAfterLoss
PROPERTIES EventsSettle CallersReturn
CHECK_DEADLOCK FALSE
