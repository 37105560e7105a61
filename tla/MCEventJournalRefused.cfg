SPECIFICATION Spec
CONSTANTS
    Producers = {p1}
    MaxEvents = 2
    MaxRuns = 1
    MaxFaults = 0
    BatchMax = 2
INVARIANT OnlyRefusedDropped
CHECK_DEADLOCK FALSE
