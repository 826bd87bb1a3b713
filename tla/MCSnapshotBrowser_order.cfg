SPECIFICATION Spec
CONSTANTS
    MaxCatalogs = 1
    MaxPicks = 3
    MaxFaults = 0
    Pages = 1
    StaleEvents = FALSE
    None = None
PROPERTY LatestPickStays
CHECK_DEADLOCK FALSE
