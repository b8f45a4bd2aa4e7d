\* Violation run: StoreFilterNotOfList.
CONSTANTS
    MaxTokens <- MCMaxTokens
    NestingCap <- MCNestingCap
SPECIFICATION Spec
INVARIANT StoreFilterNotOfList
\* Each command's parse ends; the final state has no successor.
CHECK_DEADLOCK FALSE
