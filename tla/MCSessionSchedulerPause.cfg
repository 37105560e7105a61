SPECIFICATION Spec
CONSTANTS
  MaxRuns = 2
INVARIANTS
  PauseEnds
