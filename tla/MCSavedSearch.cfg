\* Passing run: the saved-search slot under concurrent SAVE searches.
CONSTANTS
    MaxCmds <- MCMaxCmds
    NoSaved = NoSaved
    EmptyInit = EmptyInit
    NoValue = NoValue
SPECIFICATION Spec
INVARIANT TypeOK
INVARIANT SaveOperandIsLastSave
INVARIANT QuiescentSlotIsLastSave
PROPERTY EveryCommandAnswered
\* The client sends a bounded number of commands and then stays idle.
CHECK_DEADLOCK FALSE
