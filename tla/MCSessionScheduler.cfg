SPECIFICATION FairSpec
CONSTANTS
  MaxRuns = 4
INVARIANTS
  NothingLost
  OneOpenRun
  NothingStranded
PROPERTIES
  StartedOnce
  WaitingMoves
