\* Passing run: LIST selection and return options against RFC 5258.
CONSTANTS
    Accounts <- MCAccounts
    Parent <- MCParent
    NoParent = "none"
    Role <- MCRole
    FolderAll = "All Mail"
    FolderShared = "Shared Folders"
    MatchSets <- MCMatchSets
SPECIFICATION Spec
INVARIANT TypeOK
INVARIANT ListSelectionPerRfc5258
\* The LIST task ends once its response is written.
CHECK_DEADLOCK FALSE
