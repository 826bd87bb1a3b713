SPECIFICATION Spec
CONSTANTS
    MaxCatalogs = 2
    MaxPicks = 3
    MaxFaults = 0
    Pages = 1
    StaleEvents = FALSE
    None = None
INVARIANT SameLineage
CHECK_DEADLOCK FALSE
