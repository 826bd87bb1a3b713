SPECIFICATION FairSpec
CONSTANTS
    MaxCatalogs = 2
    MaxPicks = 3
    MaxFaults = 2
    Pages = 2
    StaleEvents = FALSE
    None = None
INVARIANTS TypeOK FilesAreListing OneLoad
PROPERTY LoadEnds
CHECK_DEADLOCK FALSE
