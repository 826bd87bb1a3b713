CONSTANTS
    MaxRuns = 2
    MaxPages = 1
    MaxFaults = 0
    None = None
SPECIFICATION Spec
INVARIANT PreviousCancelled
CHECK_DEADLOCK FALSE
