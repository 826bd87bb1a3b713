CONSTANTS
    BranchNames = {"dev", "2"}
    TagNames = {"2"}
    Mains = {"main", "MAIN"}
    Spelling <- MCSpelling
    Texts <- MCTexts
    Nothing = Nothing
SPECIFICATION ReferencesSpec
INVARIANTS ReferencesTypeOK NodeOpensItself TagsHaveNodes
CHECK_DEADLOCK FALSE
