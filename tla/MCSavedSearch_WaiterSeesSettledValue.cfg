\* Violation run: WaiterSeesSettledValue.
CONSTANTS
    MaxCmds <- MCMaxCmds
    NoSaved = NoSaved
    EmptyInit = EmptyInit
    NoValue = NoValue
SPECIFICATION Spec
INVARIANT WaiterSeesSettledValue
CHECK_DEADLOCK FALSE
