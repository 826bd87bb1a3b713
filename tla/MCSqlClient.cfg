CONSTANTS
    MaxRuns = 3
    MaxPages = 2
    MaxFaults = 1
    None = None
SPECIFICATION FairSpec
INVARIANTS TypeOK TableIsPrefix OneRequest SequencesAgree
CHECK_DEADLOCK FALSE
PROPERTIES SpinnerEnds RunEnds
