\* Violation run: SlotTracksLatestSave.
CONSTANTS
    MaxCmds <- MCMaxCmds
    NoSaved = NoSaved
    EmptyInit = EmptyInit
    NoValue = NoValue
SPECIFICATION Spec
INVARIANT SlotTracksLatestSave
CHECK_DEADLOCK FALSE
