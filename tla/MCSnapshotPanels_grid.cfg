CONSTANTS
    ListLength = 2
    FragmentSpan = 4
    MaxOffsets = 2
    MaxExact = 9
    Schema <- MCSchema
    RowAddr = "_rowaddr"
    None = None
    PreviewBytes = 2
    Refused = Refused
    Fragmentations <- MCFragmentations
    Contents <- MCContents
    OtherFiles <- MCOtherFiles
    Statements <- MCStatements
    PageRows = 2
    GridCells = 2
    MaxFaults = 1
SPECIFICATION Spec
INVARIANT GridShowsDeletions
