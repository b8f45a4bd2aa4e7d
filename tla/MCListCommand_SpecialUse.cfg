\* Violation run: SPECIAL-USE selection lists the shared-folders root.
CONSTANTS
    Accounts <- MCAccounts
    Parent <- MCParent
    NoParent = "none"
    Role <- MCRole
    FolderAll = "All Mail"
    FolderShared = "Shared Folders"
    MatchSets <- MCMatchSets
SPECIFICATION Spec

INVARIANT SpecialUseListsOnlySpecialUse
\* The LIST task ends once its response is written.
CHECK_DEADLOCK FALSE
