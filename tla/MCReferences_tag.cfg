CONSTANTS
    BranchNames = {"dev"}
    TagNames = {"v1"}
    Mains = {"main", "MAIN"}
    Spelling <- MCSpelling
    Texts <- NoTexts
    Nothing = Nothing
SPECIFICATION ReferencesSpec
INVARIANT TagOpensItsNode
CHECK_DEADLOCK FALSE
