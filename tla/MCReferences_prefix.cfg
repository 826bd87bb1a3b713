CONSTANTS
    BranchNames = {"dev", "version"}
    TagNames = {}
    Mains = {"main", "MAIN"}
    Spelling <- MCSpelling
    Texts <- NoTexts
    Nothing = Nothing
SPECIFICATION ReferencesSpec
INVARIANT NodeOpensItself
CHECK_DEADLOCK FALSE
