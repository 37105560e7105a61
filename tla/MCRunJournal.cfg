SPECIFICATION Spec
CONSTANTS
  MaxRuns = 2
  MaxStops = 2
INVARIANTS
  SegmentedStopSurvives
  HeadersSuffice
  RunHistoryKept
PROPERTIES
  OutcomeFinal
