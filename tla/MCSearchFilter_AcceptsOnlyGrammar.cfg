\* Violation run: AcceptsOnlyGrammar.
CONSTANTS
    MaxTokens <- MCMaxTokens
    NestingCap <- MCNestingCap
SPECIFICATION Spec
INVARIANT AcceptsOnlyGrammar
\* Each command's parse ends; the final state has no successor.
CHECK_DEADLOCK FALSE
