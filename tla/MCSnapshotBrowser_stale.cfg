SPECIFICATION Spec
CONSTANTS
    MaxCatalogs = 1
    MaxPicks = 2
    MaxFaults = 0
    Pages = 2
    StaleEvents = TRUE
    None = None
INVARIANT FilesOfSnapshot
CHECK_DEADLOCK FALSE
