SPECIFICATION Spec
CONSTANTS
    MaxFaults = 0
    MaxRuns = 1
INVARIANT AsDocumented
CHECK_DEADLOCK FALSE
